SPECIFICATION Spec
CONSTANTS
  a = a
  b = b
  d = d
  e = e
  Cvor = {1, 2}
  Zapis = {a, b, d}
  Sadrzaji <- Premjestaj
  SDjecom = {}
  Pise <- PisePremjestaj
  PocetnaKnjiga <- AiB
  Nema = Nema
  ZadnjaVerzija = 5
  NajvisePadova = 0
  NajviseGasenja = 0
INVARIANTS
  IstaPovrsina
CHECK_DEADLOCK FALSE
