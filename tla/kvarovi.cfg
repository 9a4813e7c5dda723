SPECIFICATION Spec
CONSTANTS
  aut = aut
  pos = pos
  pri = pri
  r1 = r1
  r2 = r2
  Beskraj = 3
  Cvor <- TriCvora
  Autor = aut
  Veze <- Lanac
  Razgovori <- JedanRazgovor
  ZadnjaVerzija = 2
  Pravila = {{}, {1}}
  PocetnoPravilo <- ObaOdbijaju
  PocetnaKnjiga <- SamoAutor
  Podesivi = {pri}
  NajviseVerzija = 1
  Rez = TRUE
  Smetnje = {"prekid","upis","suzenje","pad","pravilo","istek","pretplata","brisanje"}
  NajviseSmetnji = 2
INVARIANTS
  TypeOK
  JedanUpis
  RupaJeZapisana
  PotrebnoSeTrazi
PROPERTIES
  DostavaSeDrzi
  PreskokNeSkriva
SYMMETRY Simetrija
CHECK_DEADLOCK FALSE
