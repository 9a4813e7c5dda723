SPECIFICATION Spec
CONSTANTS
  a = a
  b = b
  d = d
  e = e
  Cvor = {1, 2, 3}
  Zapis = {a, b, d, e}
  Sadrzaji <- Stablo
  SDjecom = {}
  Pise <- PiseTroje
  PocetnaKnjiga <- SamoA
  Nema = Nema
  ZadnjaVerzija = 6
  NajvisePadova = 0
  NajviseGasenja = 0
INVARIANTS
  PovrsinaJeSlikaKnjige
CHECK_DEADLOCK FALSE
