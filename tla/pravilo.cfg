SPECIFICATION Spec
CONSTANTS
  aut = aut
  pos = pos
  pri = pri
  r1 = r1
  r2 = r2
  Beskraj = 3
  Cvor <- TriCvora
  Autor = aut
  Veze <- Niz
  Razgovori <- DvaRazgovora
  ZadnjaVerzija = 2
  Pravila = {{}, {1}, {2}, {1, 2}}
  PocetnoPravilo <- SvatkoSvoje
  PocetnaKnjiga <- AutorSve
  Podesivi = {pos}
  NajviseVerzija = 2
  Rez = FALSE
  Smetnje = {"pravilo","rub"}
  NajviseSmetnji = 1
INVARIANTS
  JedanUpis
  RupaJeZapisana
  PotrebnoSeTrazi
PROPERTIES
  PreskokNeSkriva
SYMMETRY Simetrija
CHECK_DEADLOCK FALSE
