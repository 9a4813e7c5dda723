----------------------------- MODULE MCRazmjena -----------------------------
EXTENDS RazmjenaDostava, TLC

CONSTANTS aut, pos, pri, r1, r2

TriCvora == {aut, pos, pri}
DvaRazgovora == {r1, r2}
JedanRazgovor == {r1}
Niz == {<<aut, pos>>, <<pos, pri>>}
Lanac == {<<aut, pos>>, <<pos, pri>>, <<aut, pri>>}

SamoAutor == (aut :> {1}) @@ (pos :> {}) @@ (pri :> {})
AutorSve == (aut :> {1, 2}) @@ (pos :> {}) @@ (pri :> {})
AutorSve3 == (aut :> 1 .. 3) @@ (pos :> {}) @@ (pri :> {})
ObaSve == (aut :> {1, 2}) @@ (pos :> {1, 2}) @@ (pri :> {})
DvaPosiljatelja == {<<aut, pri>>, <<pos, pri>>}
OdbijajuDrugu == (aut :> {}) @@ (pos :> {2}) @@ (pri :> {2})
Svi == (aut :> {}) @@ (pos :> {}) @@ (pri :> {})
ObaOdbijaju == (aut :> {}) @@ (pos :> {1}) @@ (pri :> {1})
\* The author's rule does not concern its own key.
SvatkoSvoje == (aut :> {1}) @@ (pos :> {1}) @@ (pri :> {2})

Simetrija == Permutations(Razgovori)
=============================================================================
