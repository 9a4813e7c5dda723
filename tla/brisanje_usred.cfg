SPECIFICATION Spec
CONSTANTS
  aut = aut
  pos = pos
  pri = pri
  r1 = r1
  r2 = r2
  Beskraj = 3
  Cvor <- TriCvora
  Autor = aut
  Veze <- DvaPosiljatelja
  Razgovori <- JedanRazgovor
  ZadnjaVerzija = 2
  Pravila = {{}, {1}}
  PocetnoPravilo <- Svi
  PocetnaKnjiga <- ObaSve
  Podesivi = {pri}
  NajviseVerzija = 1
  Rez = FALSE
  Smetnje = {"pretplata","brisanje","usred razgovora"}
  NajviseSmetnji = 2
INVARIANTS
  PonovnoPracenjeDohvatiSve
SYMMETRY Simetrija
CHECK_DEADLOCK FALSE
