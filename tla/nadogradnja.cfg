SPECIFICATION PostenSpec
CONSTANTS
  Izdanje <- Izdanja
  Prvo = 1
  Ispravno <- Valjana
  Nema = Nema
  CuvajKopija = 3
  NajvisePadova = 3
  NajviseNadogradnji = 3
  NajvisePrekida = 1
  NajviseKvarova = 2
  NajviseKlikova = 1
INVARIANTS
  TypeOK
  PrethodniNaDisku
  KopijaStareBaze
PROPERTIES
  CvorOpetRadi
CHECK_DEADLOCK FALSE
