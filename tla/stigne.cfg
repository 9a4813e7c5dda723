SPECIFICATION PostenSpec
CONSTANTS
  aut = aut
  pos = pos
  pri = pri
  r1 = r1
  r2 = r2
  Beskraj = 4
  Cvor <- TriCvora
  Autor = aut
  Veze <- Lanac
  Razgovori <- JedanRazgovor
  ZadnjaVerzija = 3
  Pravila = {{}, {2}, {2, 3}}
  PocetnoPravilo <- OdbijajuDrugu
  PocetnaKnjiga <- AutorSve3
  Podesivi = {pri}
  NajviseVerzija = 1
  Rez = FALSE
  Smetnje = {"pravilo","rub natrag","pretplata"}
  NajviseSmetnji = 2
INVARIANTS
  JamstvoDelteIstinito
  RupaJeZapisana
  PotrebnoSeTrazi
PROPERTIES
  StigneSve
CHECK_DEADLOCK FALSE
