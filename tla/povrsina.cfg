SPECIFICATION Spec
CONSTANTS
  a = a
  b = b
  d = d
  e = e
  Cvor = {1, 2}
  Zapis = {a, b, d, e}
  Sadrzaji <- Niz
  SDjecom = {b}
  Pise <- PiseNiz
  PocetnaKnjiga <- AiB
  Nema = Nema
  ZadnjaVerzija = 5
  NajvisePadova = 1
  NajviseGasenja = 1
INVARIANTS
  TypeOK
  PovrsinaJeSlikaKnjige
PROPERTIES
  ObnovaVracaSve
  RedNeIdeUnatrag
CHECK_DEADLOCK FALSE
