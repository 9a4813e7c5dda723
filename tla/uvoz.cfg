SPECIFICATION SpecUvoz
CONSTANTS
  aut = aut
  pos = pos
  pri = pri
  r1 = r1
  r2 = r2
  Beskraj = 3
  Cvor <- TriCvora
  Autor = aut
  Veze <- Niz
  Razgovori <- JedanRazgovor
  ZadnjaVerzija = 2
  Pravila = {{1}, {2}}
  PocetnoPravilo <- SvatkoSvoje
  PocetnaKnjiga <- AutorSve
  Podesivi = {pos}
  NajviseVerzija = 2
  Rez = FALSE
  Smetnje = {"upis","pad","pravilo","pretplata","brisanje"}
  NajviseSmetnji = 1
  Izvoznici = {aut, pos}
  Uvoznici = {pos, pri}
  Vrste = {"arhiva", "paket"}
  NajviseDatoteka = 1
  NajviseUvoza = 1
  Serija = 1
INVARIANTS
  PotrebnoSeTrazi
  DatotekaIstinita
  JamstvoDelteIstinito
PROPERTIES
  DostavaSeDrzi
  PreskokUzUvoz
CHECK_DEADLOCK FALSE
