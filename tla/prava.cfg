SPECIFICATION Spec
CONSTANTS
  racR = racR
  racS = racS
  duzD = duzD
  cvK = cvK
  cvB = cvB
  loz1 = loz1
  loz2 = loz2
  Cvor = {cvK, cvB}
  PrviKljuc = {cvK}
  KasnijiKljuc = {cvB}
  Racun = {racR, racS}
  Duznost = {duzD}
  Vlasnik <- DuznostS
  Lozinka = {loz1, loz2}
  Pise <- PisuRSD
  PocetnaKnjiga <- AdminR
  Nema = Nema
  Mreza = Mreza
  ZadnjaOznaka = 5
INVARIANTS
  TypeOK
  ZastavicaSPodlogom
  IstaPravaPoOdlukama
PROPERTIES
  PrijelazCuvaPrava
  CekaDokSeNeOdluci
CHECK_DEADLOCK FALSE
