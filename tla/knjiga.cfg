SPECIFICATION Spec
CONSTANTS
  ja = ja
  d = d
  z = z
  p = p
  q = q
  k = k
  nema = nema
  Ja = ja
  Drugi = {d}
  Zapis = {z, p, q}
  Prognoza = {p}
  Kazalo = {q}
  Zajednicki = ""
  Kanal = {k}
  Nema = nema
  PrvoVrijeme = 2
  ZadnjeVrijeme = 4
  NajviseUnaprijed = 1
  Svjetovi <- Svjetovi3
  UpisiKanala <- Upisi1
  NajviseUpisa = 1
  NajviseUPaketu = 2
  Radnje = {"sazmi", "spomenici", "verzija", "prorijedi", "kanal", "neispravne", "sat"}
INVARIANTS
  TypeOK
PROPERTIES
  GranicaNePada
  BrisanjeKanalaNeMijenjaIshod
  ObnovaPokazujeIsto
  VlastitoOstajeObrisano
  PovrsinaPratiKnjigu
CHECK_DEADLOCK FALSE
