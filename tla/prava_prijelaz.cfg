SPECIFICATION Spec
CONSTANTS
  racR = racR
  racS = racS
  duzD = duzD
  cvK = cvK
  cvB = cvB
  loz1 = loz1
  loz2 = loz2
  Cvor = {cvK, cvB}
  PrviKljuc = {cvK}
  KasnijiKljuc = {}
  Racun = {racR}
  Duznost = {}
  Vlasnik <- BezDuznosti
  Lozinka = {loz1, loz2}
  Pise <- PisuR
  PocetnaKnjiga <- ObicanR
  Nema = Nema
  Mreza = Mreza
  ZadnjaOznaka = 5
INVARIANTS
  IstaPrava
CHECK_DEADLOCK FALSE
