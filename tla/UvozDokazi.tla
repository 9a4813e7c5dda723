----------------------------- MODULE UvozDokazi -----------------------------
(***************************************************************************)
(* Theorems about files carried by hand, for any nodes, versions, rules,   *)
(* failures, exports, imports and sizes of a batch, when no channel is     *)
(* deleted in the middle of a talk or an import and the edge of the kept   *)
(* period does not move back: what a file says of itself is true, and     *)
(* exports and imports keep the promise of the exchange.                   *)
(***************************************************************************)
EXTENDS Uvoz, PotrebnoDokazi

IzvozTip == [faza : {"nema", "pocetak", "procitano"}, nejamci : Rasponi,
             raslo : BOOLEAN, verzije : SUBSET Verzije]
UvozTip == [faza : {"nema", "odluceno", "promjena", "serije", "upisano"},
            verzije : SUBSET Verzije, bacio : SUBSET Verzije, rupe : Rasponi,
            ograda : Ograde, promjena : PromjeneKljuca, novo : BOOLEAN]

TipDatoteka ==
    /\ datoteke \subseteq [verzije : SUBSET Verzije, rupe : Rasponi]
    /\ izvozi \in [Cvor -> IzvozTip]
    /\ uvozi \in [Cvor -> UvozTip]

\* Of the author's versions K, every one up to the largest in V is in V or in R.
Istinito(K, V, R) == \A v \in K : v <= Granica(V) => v \in V \cup R

\* The files that are there.
DatotekeUredne ==
    \A d \in datoteke : /\ d.verzije \subseteq knjiga[Autor]
                        /\ Istinito(knjiga[Autor], d.verzije, Clanovi(d.rupe))

\* An export knows what its node does not vouch for, or that this has grown; and
\* once it has read the versions, those two tell all that it did not read.
IzvozUredan(n) ==
    LET e == izvozi[n] IN
    e.faza # "nema" =>
        /\ n # Autor /\ ~e.raslo =>
              Clanovi(NeJamci(rupe[n])) \subseteq Clanovi(e.nejamci)
        /\ e.verzije \subseteq knjiga[Autor]
        /\ e.faza = "procitano" /\ ~(n # Autor /\ e.raslo) =>
              Istinito(knjiga[Autor], e.verzije, IF n = Autor THEN {} ELSE Clanovi(e.nejamci))

\* What an import is to write, what it refused and what the file does not vouch
\* for cover its range; then the change covers it; and when the writing begins,
\* the record does.
UvozUredan(n) ==
    LET u == uvozi[n] IN
    u.faza # "nema" =>
        /\ n \in Primatelji /\ u.verzije \subseteq knjiga[Autor]
        /\ u.faza = "odluceno" =>
              Istinito(knjiga[Autor], u.verzije, u.bacio \cup Clanovi(u.rupe))
        /\ u.faza = "promjena" =>
              /\ Obuhvaca(u.promjena, knjiga[n], u.verzije)
              /\ u.promjena.fs <= Granica(knjiga[n])
              /\ u.promjena.redovno = Prazno /\ u.promjena.popuna = Prazno
        /\ u.faza \in {"serije", "upisano"} =>
              \A v \in Nema(n) \ u.verzije :
                  v <= Granica(u.verzije) => v \in Zabiljezene(rupe[n])

UrednoDatoteke ==
    /\ TipDatoteka /\ DatotekeUredne
    /\ \A n \in Cvor : IzvozUredan(n) /\ UvozUredan(n)

IInvUvoz == IInv /\ UrednoDatoteke

-----------------------------------------------------------------------------
(* What files rely on while the exchange goes on *)

\* What is true of a range stays true when the author writes above it.
LEMMA IstinitoOstaje ==
    ASSUME NEW K \in SUBSET Verzije, NEW L \in SUBSET Verzije,
           \A v \in L \ K : Granica(K) < v,
           NEW V \in SUBSET K, NEW R, Istinito(K, V, R)
    PROVE  Istinito(L, V, R)
<1>1. /\ Granica(K) \in Nat /\ Granica(V) \in Nat /\ Granica(V) <= Granica(K)
      /\ \A v \in L : v \in Nat
  BY GranicaBroj, GranicaUnije
<1>2. \A v \in L : v <= Granica(V) => v \in K  BY <1>1
<1> QED  BY <1>2 DEF Istinito

\* A step that deletes nothing keeps every ledger, lets the author write only
\* above, and takes nothing a node misses out of its record.
LEMMA PrometCuva ==
    ASSUME IInv, TypeOK', PrometBezBrisanja
    PROVE  /\ AutorDodaje
           /\ \A n \in Primatelji : knjiga[n] \subseteq knjiga'[n] /\ ZapisCuva(n, rupe'[n])
<1> DEFINE F == [c \in Cvor |-> Zabiljezene(rupe[c])]
<1>1. /\ TypeOK /\ Poceci /\ Autor \in Cvor
      /\ knjiga[Autor] \in SUBSET Verzije /\ Granica(knjiga[Autor]) \in Nat
  BY KnjigaTip DEF IInv, Uredno
<1>2. \A n \in Cvor : F[n] = Zabiljezene(rupe[n]) /\ F'[n] = Zabiljezene(rupe'[n])
  OBVIOUS
<1>3. \A n \in Primatelji : n \in Cvor /\ n # Autor  BY DEF Primatelji
<1>4. Promet!Napisane = knjiga[Autor]  BY <1>1 DEF Promet!Napisane, Poceci
<1> HIDE DEF F
<1>5. CASE Promet!Napisi
  <2>1. F' = F /\ knjiga' = [knjiga EXCEPT ![Autor] = @ \cup {Granica(knjiga[Autor]) + 1}]
    BY <1>5 DEF Promet!Napisi, F
  <2>2. /\ knjiga'[Autor] = knjiga[Autor] \cup {Granica(knjiga[Autor]) + 1}
        /\ \A n \in Cvor : n # Autor => knjiga'[n] = knjiga[n]
    BY <1>1, <2>1 DEF TypeOK
  <2>3. AutorDodaje  BY <1>1, <2>2 DEF AutorDodaje
  <2> QED  BY <1>2, <1>3, <2>1, <2>2, <2>3 DEF ZapisCuva
<1>6. ASSUME NEW n \in Cvor \ {Autor}, Promet!Primi(n)
      PROVE  /\ AutorDodaje
             /\ \A c \in Primatelji : knjiga[c] \subseteq knjiga'[c] /\ ZapisCuva(c, rupe'[c])
  <2>1. F' = F  BY <1>6 DEF Promet!Primi, F
  <2>2. PICK V : knjiga' = [knjiga EXCEPT ![n] = @ \cup V]  BY <1>6 DEF Promet!Primi
  <2>3. /\ knjiga'[n] = knjiga[n] \cup V
        /\ \A c \in Cvor : c # n => knjiga'[c] = knjiga[c]
    BY <2>2 DEF TypeOK, IInv
  <2>4. AutorDodaje  BY <1>1, <2>3 DEF AutorDodaje
  <2> QED  BY <1>2, <1>3, <2>1, <2>3, <2>4 DEF ZapisCuva
<1>7. ASSUME NEW n \in Cvor \ {Autor}, Promet!Zabiljezi(n)
      PROVE  /\ AutorDodaje
             /\ \A c \in Primatelji : knjiga[c] \subseteq knjiga'[c] /\ ZapisCuva(c, rupe'[c])
  <2>1. knjiga' = knjiga  BY <1>7 DEF Promet!Zabiljezi
  <2>2. PICK R : /\ (F[n] \ R) \cap Promet!Napisane \subseteq knjiga[n]
                 /\ F' = [F EXCEPT ![n] = R]
    BY <1>7 DEF Promet!Zabiljezi, F
  <2>3. F'[n] = R /\ \A c \in Cvor : c # n => F'[c] = F[c]
    BY <2>2 DEF F
  <2>4. \A c \in Primatelji : ZapisCuva(c, rupe'[c])
    BY <1>2, <1>3, <1>4, <2>2, <2>3 DEF ZapisCuva, Nema
  <2> QED  BY <2>1, <2>4 DEF AutorDodaje
<1>8. ASSUME NEW n \in Cvor \ {Autor}, Promet!Pretplati(n)
      PROVE  knjiga' = knjiga /\ F' = F
  BY <1>8 DEF Promet!Pretplati, F
<1>9. UNCHANGED Promet!vars => knjiga' = knjiga /\ F' = F
  BY DEF Promet!vars, F
<1>10. CASE knjiga' = knjiga /\ F' = F
  BY <1>2, <1>3, <1>10 DEF AutorDodaje, ZapisCuva
<1>11. CASE \E n \in Cvor \ {Autor} : Promet!Primi(n) \/ Promet!Zabiljezi(n)
  BY <1>6, <1>7, <1>11
<1> QED  BY <1>5, <1>8, <1>9, <1>10, <1>11 DEF PrometBezBrisanja

\* Files stay as they are.
LEMMA DatotekeStoje ==
    ASSUME TypeOK, TypeOK', DatotekeUredne, AutorDodaje, UNCHANGED datoteke
    PROVE  DatotekeUredne'
<1>1. knjiga[Autor] \in SUBSET Verzije /\ knjiga'[Autor] \in SUBSET Verzije
  BY RazmjenaPretpostavka DEF TypeOK
<1>2. ASSUME NEW d \in datoteke
      PROVE  d.verzije \subseteq knjiga'[Autor]
             /\ Istinito(knjiga'[Autor], d.verzije, Clanovi(d.rupe))
  BY <1>1, <1>2, IstinitoOstaje DEF DatotekeUredne, AutorDodaje
<1> QED  BY <1>2 DEF DatotekeUredne

\* An export that reads nothing stays in order, when it learns of what its node
\* no longer vouches for.
LEMMA IzvozStoji ==
    ASSUME TypeOK, TypeOK', TipDatoteka, AutorDodaje, NEW n \in Cvor, IzvozUredan(n),
           \/ izvozi'[n] = izvozi[n]
           \/ izvozi'[n] = [izvozi[n] EXCEPT !.raslo = TRUE],
           izvozi[n].faza # "nema" /\ n # Autor =>
               \/ izvozi'[n].raslo
               \/ Clanovi(NeJamci(rupe'[n])) \subseteq Clanovi(NeJamci(rupe[n]))
    PROVE  IzvozUredan(n)'
<1> DEFINE e == izvozi[n]
           f == izvozi'[n]
<1>1. knjiga[Autor] \in SUBSET Verzije /\ knjiga'[Autor] \in SUBSET Verzije
  BY RazmjenaPretpostavka DEF TypeOK
<1>2. e \in IzvozTip  BY DEF TipDatoteka
<1>3. /\ f.faza = e.faza /\ f.nejamci = e.nejamci /\ f.verzije = e.verzije
      /\ e.raslo => f.raslo
  BY <1>2 DEF IzvozTip
<1> SUFFICES ASSUME e.faza # "nema"
             PROVE  /\ n # Autor /\ ~f.raslo =>
                          Clanovi(NeJamci(rupe'[n])) \subseteq Clanovi(e.nejamci)
                    /\ e.verzije \subseteq knjiga'[Autor]
                    /\ e.faza = "procitano" /\ ~(n # Autor /\ f.raslo) =>
                          Istinito(knjiga'[Autor], e.verzije,
                                   IF n = Autor THEN {} ELSE Clanovi(e.nejamci))
  BY <1>3 DEF IzvozUredan
<1>4. e.verzije \subseteq knjiga'[Autor]  BY DEF IzvozUredan, AutorDodaje
<1>5. n # Autor /\ ~f.raslo => Clanovi(NeJamci(rupe'[n])) \subseteq Clanovi(e.nejamci)
  BY <1>3 DEF IzvozUredan
<1>6. ASSUME e.faza = "procitano", ~(n # Autor /\ f.raslo)
      PROVE  Istinito(knjiga'[Autor], e.verzije, IF n = Autor THEN {} ELSE Clanovi(e.nejamci))
  BY <1>1, <1>3, <1>6, IstinitoOstaje DEF IzvozUredan, AutorDodaje
<1> QED  BY <1>4, <1>5, <1>6

\* An import that does nothing stays in order.
LEMMA UvozStoji ==
    ASSUME TypeOK, TypeOK', TipDatoteka, BezTihePraznine', AutorDodaje, NEW n \in Cvor,
           UvozUredan(n), uvozi'[n] = uvozi[n],
           uvozi[n].faza # "nema" => knjiga[n] \subseteq knjiga'[n] /\ ZapisCuva(n, rupe'[n])
    PROVE  UvozUredan(n)'
<1> DEFINE u == uvozi[n]
           K == knjiga[Autor]
           L == knjiga'[Autor]
<1>1. /\ K \in SUBSET Verzije /\ L \in SUBSET Verzije /\ K \subseteq L
      /\ knjiga[n] \in SUBSET Verzije /\ knjiga'[n] \in SUBSET Verzije
      /\ \A v \in L \ K : Granica(K) < v
  BY RazmjenaPretpostavka DEF TypeOK, AutorDodaje
<1>2. u \in UvozTip  BY DEF TipDatoteka
<1> SUFFICES ASSUME u.faza # "nema"
             PROVE  /\ n \in Primatelji /\ u.verzije \subseteq L
                    /\ u.faza = "odluceno" =>
                          Istinito(L, u.verzije, u.bacio \cup Clanovi(u.rupe))
                    /\ u.faza = "promjena" =>
                          /\ Obuhvaca(uvozi[n].promjena, knjiga[n], uvozi[n].verzije)'
                          /\ u.promjena.fs <= Granica(knjiga'[n])
                          /\ u.promjena.redovno = Prazno /\ u.promjena.popuna = Prazno
                    /\ u.faza \in {"serije", "upisano"} =>
                          \A v \in (L \ knjiga'[n]) \ u.verzije :
                              v <= Granica(u.verzije) => v \in Zabiljezene(rupe'[n])
  BY DEF UvozUredan, Nema
<1>3. n \in Primatelji /\ u.verzije \subseteq K /\ knjiga[n] \subseteq knjiga'[n]
      /\ ZapisCuva(n, rupe'[n])
  BY DEF UvozUredan
<1>4. u.faza = "odluceno" => Istinito(L, u.verzije, u.bacio \cup Clanovi(u.rupe))
  BY <1>1, <1>3, IstinitoOstaje DEF UvozUredan
<1>5. /\ Granica(K) \in Nat /\ Granica(u.verzije) \in Nat
      /\ Granica(u.verzije) <= Granica(K) /\ \A v \in L : v \in Nat
      /\ Granica(knjiga[n]) \in Nat /\ Granica(knjiga'[n]) \in Nat
      /\ Granica(knjiga[n]) <= Granica(knjiga'[n])
  BY <1>1, <1>3, GranicaBroj, GranicaUnije
<1>6. \A v \in L : v <= Granica(u.verzije) => v \in K  BY <1>1, <1>5
<1>7. ASSUME u.faza = "promjena"
      PROVE  /\ Obuhvaca(uvozi[n].promjena, knjiga[n], uvozi[n].verzije)'
             /\ u.promjena.fs <= Granica(knjiga'[n])
             /\ u.promjena.redovno = Prazno /\ u.promjena.popuna = Prazno
  <2>1. /\ Obuhvaca(u.promjena, knjiga[n], u.verzije)
        /\ u.promjena.fs <= Granica(knjiga[n])
        /\ u.promjena.redovno = Prazno /\ u.promjena.popuna = Prazno
    BY <1>7 DEF UvozUredan
  <2>2. u.promjena.fs \in Nat
    BY <1>2, BeskrajPretpostavka DEF UvozTip, PromjeneKljuca, Oznake
  <2>3. Clanovi(Prazno) = {}
    BY BeskrajPretpostavka DEF Clanovi, Prazno, Raspon, Oznake
  <2>4. Obuhvaca(uvozi[n].promjena, knjiga[n], uvozi[n].verzije)'
    BY <1>3, <1>6, <2>1, <2>3 DEF Obuhvaca
  <2> QED  BY <1>5, <2>1, <2>2, <2>4
<1>8. ASSUME u.faza \in {"serije", "upisano"}, NEW v \in (L \ knjiga'[n]) \ u.verzije,
             v <= Granica(u.verzije)
      PROVE  v \in Zabiljezene(rupe'[n])
  <2>1. v \in Nema(n) \ u.verzije  BY <1>3, <1>6, <1>8 DEF Nema
  <2>2. v \in Zabiljezene(rupe[n])  BY <1>8, <2>1 DEF UvozUredan
  <2> QED  BY <1>3, <2>1, <2>2 DEF ZapisCuva
<1>9. u.verzije \subseteq L  BY <1>1, <1>3
<1> HIDE DEF u, L
<1> QED  BY <1>3, <1>4, <1>7, <1>8, <1>9

-----------------------------------------------------------------------------
(* The exchange beside files *)

\* Exports under way learn when the node vouches for less (rupe_uvoz.go,
\* javiRast), and those that do not learn of it need not.
LEMMA JavljenoIzvozima ==
    ASSUME TypeOK, TypeOK', TipDatoteka, JaviIzvozima
    PROVE  /\ izvozi' \in [Cvor -> IzvozTip]
           /\ \A n \in Cvor :
                /\ \/ izvozi'[n] = izvozi[n]
                   \/ izvozi'[n] = [izvozi[n] EXCEPT !.raslo = TRUE]
                /\ izvozi[n].faza # "nema" =>
                      \/ izvozi'[n].raslo
                      \/ Clanovi(NeJamci(rupe'[n])) \subseteq Clanovi(NeJamci(rupe[n]))
<1>1. \A n \in Cvor : izvozi[n] \in IzvozTip /\ [izvozi[n] EXCEPT !.raslo = TRUE] \in IzvozTip
                      /\ [izvozi[n] EXCEPT !.raslo = TRUE].raslo
  BY DEF TipDatoteka, IzvozTip
<1>2. \A n \in Cvor : izvozi'[n] = IF izvozi[n].faza # "nema" /\ Raslo(n)
                                   THEN [izvozi[n] EXCEPT !.raslo = TRUE] ELSE izvozi[n]
  BY DEF JaviIzvozima
<1>3. izvozi' \in [Cvor -> IzvozTip]  BY <1>1 DEF JaviIzvozima
<1>4. ASSUME NEW n \in Cvor, ~Raslo(n)
      PROVE  Clanovi(NeJamci(rupe'[n])) \subseteq Clanovi(NeJamci(rupe[n]))
  <2>1. CASE rupe'[n] = rupe[n]  BY <2>1
  <2>2. CASE ~Virtualno(n) /\ ~Raste(rupe'[n], UskladjenoPravilo(n))
    <3>1. rupe'[n] \in RupeKljuca  BY DEF TypeOK
    <3> QED  BY <2>2, <3>1, ZapisTih
  <2> QED  BY <1>4, <2>1, <2>2 DEF Raslo
<1> QED  BY <1>1, <1>2, <1>3, <1>4

\* A step that leaves the ledgers, the records and the exchange alone keeps them
\* in order.
LEMMA RazmjenaStoji ==
    ASSUME MirnoBrisanje, RubNeIdeNatrag, IInv, UNCHANGED vars
    PROVE  /\ IInv' /\ AutorDodaje /\ UNCHANGED Promet!vars
           /\ \A n \in Cvor : /\ knjiga[n] \subseteq knjiga'[n] /\ ZapisCuva(n, rupe'[n])
                              /\ Clanovi(NeJamci(rupe'[n])) \subseteq Clanovi(NeJamci(rupe[n]))
<1>1. IInv'  BY UrednoOcuvano
<1>2. UNCHANGED <<knjiga, rupe, prati>>  BY DEF vars
<1> QED  BY <1>1, <1>2, TihoZaPromet DEF AutorDodaje, ZapisCuva

\* A step of the exchange while files are made and read.
LEMMA RazmjenaUzDatoteke ==
    ASSUME RubNeIdeNatrag, IInvUvoz, KorakRazmjene
    PROVE  IInvUvoz' /\ [Promet!Next]_(Promet!vars)
<1>1. IInv /\ TypeOK /\ Zakljucano /\ UrednoDatoteke
  BY DEF IInvUvoz, IInv
<1>2. BezBrisanja /\ [Next]_vars  BY DEF KorakRazmjene, BezBrisanja, Next
<1>3. TypeOK' /\ Zakljucano'  BY <1>1, <1>2, KorakTip, ZakljucanoOcuvano
<1>4. Uredno' /\ PrometBezBrisanja  BY <1>1, <1>2, <1>3, KorakBezBrisanja
<1>5. /\ AutorDodaje
      /\ \A n \in Primatelji : knjiga[n] \subseteq knjiga'[n] /\ ZapisCuva(n, rupe'[n])
  BY <1>1, <1>3, <1>4, PrometCuva
<1>6. JaviIzvozima /\ UNCHANGED <<datoteke, uvozi>>  BY DEF KorakRazmjene
<1>7. /\ izvozi' \in [Cvor -> IzvozTip]
      /\ \A n \in Cvor :
           /\ \/ izvozi'[n] = izvozi[n]
              \/ izvozi'[n] = [izvozi[n] EXCEPT !.raslo = TRUE]
           /\ izvozi[n].faza # "nema" =>
                 \/ izvozi'[n].raslo
                 \/ Clanovi(NeJamci(rupe'[n])) \subseteq Clanovi(NeJamci(rupe[n]))
  BY <1>1, <1>3, <1>6, JavljenoIzvozima DEF UrednoDatoteke
<1>8. TipDatoteka'  BY <1>1, <1>6, <1>7 DEF UrednoDatoteke, TipDatoteka
<1>9. DatotekeUredne'  BY <1>1, <1>3, <1>5, <1>6, DatotekeStoje DEF UrednoDatoteke
<1>10. ASSUME NEW n \in Cvor  PROVE IzvozUredan(n)' /\ UvozUredan(n)'
  <2>1. IzvozUredan(n)'
    BY <1>1, <1>3, <1>5, <1>7, IzvozStoji DEF UrednoDatoteke
  <2>2. uvozi[n].faza # "nema" => n \in Primatelji
    BY <1>1 DEF UrednoDatoteke, UvozUredan
  <2>3. UvozUredan(n)'
    BY <1>1, <1>3, <1>4, <1>5, <1>6, <2>2, UvozStoji DEF UrednoDatoteke, Uredno
  <2> QED  BY <2>1, <2>3
<1>11. IInvUvoz'
  BY <1>3, <1>4, <1>8, <1>9, <1>10 DEF IInvUvoz, IInv, UrednoDatoteke
<1>12. [Promet!Next]_(Promet!vars)  BY <1>4 DEF PrometBezBrisanja, Promet!Next
<1> QED  BY <1>11, <1>12

\* A talk gives up waiting for the lock an import holds.
LEMMA BravuDrziUvozUredno ==
    ASSUME MirnoBrisanje, IInvUvoz, NEW t \in Razgovori, BravuDrziUvoz(t)
    PROVE  IInvUvoz' /\ UNCHANGED Promet!vars
<1>1. IInv /\ TypeOK /\ Zakljucano /\ UrednoDatoteke
  BY DEF IInvUvoz, IInv
<1>2. /\ Zavrsi({t}) /\ razg[t].faza = "brava"
      /\ UNCHANGED <<knjiga, rupe, zapisano, ograda, prati, brava, odbijeneOd, zaCvor, smetnji,
                     datoteke, izvozi, uvozi>>
  BY DEF BravuDrziUvoz, trajno, postavke, pamcenje, varsDatoteka
<1>3. TypeOK'  BY <1>1, <1>2, ZavrsiTip DEF TypeOK
<1>4. Zakljucano'  BY <1>1, <1>2, ZavrsenTih DEF PodBravom
<1>5. Uredno'  BY <1>1, <1>2, <1>3, TihoZavrsava
<1>6. UrednoDatoteke'
  <2>1. AutorDodaje /\ \A n \in Cvor : ZapisCuva(n, rupe'[n])
    BY <1>2 DEF AutorDodaje, ZapisCuva
  <2>2. TipDatoteka'  BY <1>1, <1>2 DEF UrednoDatoteke, TipDatoteka
  <2>3. DatotekeUredne'
    BY <1>1, <1>2, <1>3, <2>1, DatotekeStoje DEF UrednoDatoteke
  <2>4. ASSUME NEW n \in Cvor  PROVE IzvozUredan(n)' /\ UvozUredan(n)'
    <3>1. IzvozUredan(n)'
      BY <1>1, <1>2, <1>3, <2>1, IzvozStoji DEF UrednoDatoteke
    <3>2. UvozUredan(n)'
      BY <1>1, <1>2, <1>3, <1>5, <2>1, UvozStoji DEF UrednoDatoteke, Uredno
    <3> QED  BY <3>1, <3>2
  <2> QED  BY <2>2, <2>3, <2>4 DEF UrednoDatoteke
<1>7. UNCHANGED Promet!vars  BY <1>2, TihoZaPromet
<1> QED  BY <1>3, <1>4, <1>5, <1>6, <1>7 DEF IInvUvoz, IInv

\* A channel is deleted into which nothing is imported.
LEMMA ObrisanoUzDatoteke ==
    ASSUME MirnoBrisanje, RubNeIdeNatrag, IInvUvoz, NEW n \in Podesivi, ObrisiKanalIzmedjuUvoza(n)
    PROVE  IInvUvoz' /\ [Promet!Next]_(Promet!vars)
<1>1. IInv /\ TypeOK /\ UrednoDatoteke /\ n \in Primatelji /\ n \in Cvor /\ n # Autor
  BY RazmjenaPretpostavka DEF IInvUvoz, IInv, Primatelji
<1>2. ObrisiKanal(n) /\ UNCHANGED <<datoteke, izvozi, uvozi>> /\ uvozi[n].faza = "nema"
  BY DEF ObrisiKanalIzmedjuUvoza, varsDatoteka, MirnoBrisanje
<1>3. [Next]_vars  BY <1>2 DEF Next
<1>4. IInv' /\ [Promet!Next]_(Promet!vars)  BY <1>1, <1>3, UrednoOcuvano
<1>5. TypeOK' /\ BezTihePraznine'  BY <1>4 DEF IInv, Uredno
<1>6. knjiga' = [knjiga EXCEPT ![n] = {}] /\ rupe' = [rupe EXCEPT ![n] = BezRupa]
  BY <1>2 DEF ObrisiKanal
<1>7. /\ rupe'[n] = BezRupa
      /\ \A c \in Cvor : c # n => knjiga'[c] = knjiga[c] /\ rupe'[c] = rupe[c]
  BY <1>1, <1>6 DEF TypeOK
<1>8. AutorDodaje  BY <1>1, <1>7, KnjigaTip DEF AutorDodaje
<1>9. Clanovi(NeJamci(BezRupa)) = {}
  BY BeskrajPretpostavka DEF NeJamci, BezRupa, Uz, Cist, Prazan, Prazno, Raspon, Clanovi, Oznake
<1>10. TipDatoteka'  BY <1>1, <1>2 DEF UrednoDatoteke, TipDatoteka
<1>11. DatotekeUredne'  BY <1>1, <1>2, <1>5, <1>8, DatotekeStoje DEF UrednoDatoteke
<1>12. ASSUME NEW c \in Cvor  PROVE IzvozUredan(c)' /\ UvozUredan(c)'
  <2>1. Clanovi(NeJamci(rupe'[c])) \subseteq Clanovi(NeJamci(rupe[c]))
    BY <1>7, <1>9
  <2>2. IzvozUredan(c)'
    BY <1>1, <1>2, <1>5, <1>8, <2>1, IzvozStoji DEF UrednoDatoteke
  <2>3. uvozi[c].faza # "nema" => knjiga[c] \subseteq knjiga'[c] /\ ZapisCuva(c, rupe'[c])
    BY <1>2, <1>7 DEF ZapisCuva
  <2>4. UvozUredan(c)'
    BY <1>1, <1>2, <1>5, <1>8, <2>3, UvozStoji DEF UrednoDatoteke
  <2> QED  BY <2>2, <2>4
<1> QED  BY <1>4, <1>10, <1>11, <1>12 DEF IInvUvoz, UrednoDatoteke

\* The program stops: the export and the import of the node end.
LEMMA PadUzDatoteke ==
    ASSUME MirnoBrisanje, RubNeIdeNatrag, IInvUvoz, NEW n \in Primatelji, PonovnoPokreniSve(n)
    PROVE  IInvUvoz' /\ [Promet!Next]_(Promet!vars)
<1>1. IInv /\ TypeOK /\ UrednoDatoteke /\ n \in Cvor
  BY DEF IInvUvoz, IInv, Primatelji
<1>2. /\ PonovnoPokreni(n) /\ UNCHANGED datoteke
      /\ izvozi' = [izvozi EXCEPT ![n] = NemaIzvoza]
      /\ uvozi' = [uvozi EXCEPT ![n] = NemaUvoza]
  BY DEF PonovnoPokreniSve, NastaviIzvoz, NastaviUvoz
<1>3. [Next]_vars  BY <1>2 DEF Next
<1>4. IInv' /\ [Promet!Next]_(Promet!vars)  BY <1>1, <1>3, UrednoOcuvano
<1>5. TypeOK' /\ BezTihePraznine'  BY <1>4 DEF IInv, Uredno
<1>6. knjiga' = knjiga /\ rupe' = rupe  BY <1>2 DEF PonovnoPokreni, trajno
<1>7. AutorDodaje /\ \A c \in Cvor : knjiga[c] \subseteq knjiga'[c] /\ ZapisCuva(c, rupe'[c])
  BY <1>6 DEF AutorDodaje, ZapisCuva
<1>8. NemaIzvoza \in IzvozTip /\ NemaUvoza \in UvozTip
      /\ NemaIzvoza.faza = "nema" /\ NemaUvoza.faza = "nema"
  BY SlobodanTip, OznakeTip DEF NemaIzvoza, NemaUvoza, IzvozTip, UvozTip
<1>9. /\ izvozi'[n] = NemaIzvoza /\ uvozi'[n] = NemaUvoza
      /\ \A c \in Cvor : c # n => izvozi'[c] = izvozi[c] /\ uvozi'[c] = uvozi[c]
  BY <1>1, <1>2 DEF UrednoDatoteke, TipDatoteka
<1>10. TipDatoteka'  BY <1>1, <1>2, <1>8 DEF UrednoDatoteke, TipDatoteka
<1>11. DatotekeUredne'  BY <1>1, <1>2, <1>5, <1>7, DatotekeStoje DEF UrednoDatoteke
<1>12. ASSUME NEW c \in Cvor  PROVE IzvozUredan(c)' /\ UvozUredan(c)'
  <2>1. CASE c = n  BY <1>8, <1>9, <2>1 DEF IzvozUredan, UvozUredan
  <2>2. CASE c # n
    <3>1. IzvozUredan(c)'
      BY <1>1, <1>5, <1>6, <1>7, <1>9, <2>2, IzvozStoji DEF UrednoDatoteke
    <3>2. UvozUredan(c)'
      BY <1>1, <1>5, <1>7, <1>9, <2>2, UvozStoji DEF UrednoDatoteke
    <3> QED  BY <3>1, <3>2
  <2> QED  BY <2>1, <2>2
<1> QED  BY <1>4, <1>10, <1>11, <1>12 DEF IInvUvoz, UrednoDatoteke

-----------------------------------------------------------------------------
(* Exports *)

\* A step of files alone.
LEMMA SamoDatoteke ==
    ASSUME MirnoBrisanje, RubNeIdeNatrag, IInvUvoz, UNCHANGED vars,
           TipDatoteka', UNCHANGED datoteke \/ DatotekeUredne',
           \A n \in Cvor : /\ IzvozUredan(n)' \/ izvozi'[n] = izvozi[n]
                           /\ UvozUredan(n)' \/ uvozi'[n] = uvozi[n]
    PROVE  IInvUvoz' /\ [Promet!Next]_(Promet!vars)
<1>1. IInv /\ TypeOK /\ UrednoDatoteke  BY DEF IInvUvoz, IInv
<1>2. /\ IInv' /\ AutorDodaje /\ UNCHANGED Promet!vars
      /\ \A n \in Cvor : /\ knjiga[n] \subseteq knjiga'[n] /\ ZapisCuva(n, rupe'[n])
                         /\ Clanovi(NeJamci(rupe'[n])) \subseteq Clanovi(NeJamci(rupe[n]))
  BY <1>1, RazmjenaStoji
<1>3. TypeOK' /\ BezTihePraznine'  BY <1>2 DEF IInv, Uredno
<1>4. DatotekeUredne'
  BY <1>1, <1>2, <1>3, DatotekeStoje DEF UrednoDatoteke
<1>5. ASSUME NEW n \in Cvor  PROVE IzvozUredan(n)' /\ UvozUredan(n)'
  <2>1. IzvozUredan(n)'
    <3>1. CASE izvozi'[n] = izvozi[n]
      BY <1>1, <1>2, <1>3, <3>1, IzvozStoji DEF UrednoDatoteke
    <3> QED  BY <3>1
  <2>2. UvozUredan(n)'
    <3>1. CASE uvozi'[n] = uvozi[n]
      BY <1>1, <1>2, <1>3, <3>1, UvozStoji DEF UrednoDatoteke
    <3> QED  BY <3>1
  <2> QED  BY <2>1, <2>2
<1> QED  BY <1>2, <1>4, <1>5 DEF IInvUvoz, UrednoDatoteke

\* What an export reads and what it writes is true (archive.go, zaIzvoz): the
\* versions are read after the record, and what left the record meanwhile is in
\* the ledger, or the export learns of it.
LEMMA IzvozUredno ==
    ASSUME MirnoBrisanje, RubNeIdeNatrag, IInvUvoz, NEW n \in Cvor,
           PocniIzvoz(n) \/ ProcitajZaIzvoz(n) \/ ZapisiDatoteku(n)
    PROVE  IInvUvoz' /\ [Promet!Next]_(Promet!vars)
<1> DEFINE e == izvozi[n]
           K == knjiga[Autor]
<1>1. IInv /\ TypeOK /\ Poceci /\ BezTihePraznine /\ UrednoDatoteke /\ IzvozUredan(n)
  BY DEF IInvUvoz, IInv, Uredno, UrednoDatoteke
<1>2. UNCHANGED vars /\ UNCHANGED uvozi
  BY DEF PocniIzvoz, ProcitajZaIzvoz, ZapisiDatoteku
<1>3. UNCHANGED <<knjiga, rupe>>  BY <1>2 DEF vars
<1>4. e \in IzvozTip /\ datoteke \subseteq [verzije : SUBSET Verzije, rupe : Rasponi]
      /\ izvozi \in [Cvor -> IzvozTip] /\ uvozi \in [Cvor -> UvozTip]
  BY <1>1 DEF UrednoDatoteke, TipDatoteka
<1>5. K \in SUBSET Verzije /\ knjiga[n] \in SUBSET Verzije /\ rupe[n] \in RupeKljuca
      /\ NeJamci(rupe[n]) \in Rasponi /\ NeJamciNaPocetku(n) \in Rasponi /\ Autor \in Cvor
  BY <1>1, KnjigaTip, SlobodanTip, ZapisTip, PocetakTip
<1>6. NemaIzvoza \in IzvozTip /\ NemaIzvoza.faza = "nema"
  BY OznakeTip DEF NemaIzvoza, IzvozTip
<1>7. ASSUME NEW novi \in IzvozTip, NastaviIzvoz(n, novi)
      PROVE  /\ izvozi' \in [Cvor -> IzvozTip] /\ izvozi'[n] = novi
             /\ \A c \in Cvor : c # n => izvozi'[c] = izvozi[c]
  BY <1>4, <1>7 DEF NastaviIzvoz
<1>8. CASE PocniIzvoz(n)
  <2> DEFINE novi == [NemaIzvoza EXCEPT !.faza = "pocetak", !.nejamci = NeJamciNaPocetku(n)]
  <2>1. /\ novi \in IzvozTip /\ novi.faza = "pocetak" /\ novi.verzije = {}
        /\ novi.nejamci = NeJamciNaPocetku(n)
    BY <1>5 DEF NemaIzvoza, IzvozTip
  <2>2. NastaviIzvoz(n, novi) /\ UNCHANGED datoteke  BY <1>8 DEF PocniIzvoz
  <2> HIDE DEF novi
  <2>3. /\ izvozi' \in [Cvor -> IzvozTip] /\ izvozi'[n] = novi
        /\ \A c \in Cvor : c # n => izvozi'[c] = izvozi[c]
    BY <1>7, <2>1, <2>2
  <2>4. n # Autor => Clanovi(NeJamci(rupe[n])) \subseteq Clanovi(NeJamciNaPocetku(n))
    BY <1>1, PocetakNeGubi
  <2>5. IzvozUredan(n)'  BY <1>3, <2>1, <2>3, <2>4 DEF IzvozUredan
  <2>6. TipDatoteka'  BY <1>2, <1>4, <2>2, <2>3 DEF TipDatoteka
  <2> QED  BY <1>2, <2>2, <2>3, <2>5, <2>6, SamoDatoteke
<1>9. CASE ProcitajZaIzvoz(n)
  <2> DEFINE novi == [e EXCEPT !.faza = "procitano", !.verzije = knjiga[n]]
  <2>1. e.faza = "pocetak" /\ UNCHANGED datoteke  BY <1>9 DEF ProcitajZaIzvoz
  <2>2. CASE knjiga[n] = {}
    <3>1. NastaviIzvoz(n, NemaIzvoza)  BY <1>9, <2>2 DEF ProcitajZaIzvoz
    <3>2. /\ izvozi' \in [Cvor -> IzvozTip] /\ izvozi'[n] = NemaIzvoza
          /\ \A c \in Cvor : c # n => izvozi'[c] = izvozi[c]
      BY <1>6, <1>7, <3>1
    <3>3. IzvozUredan(n)'  BY <1>6, <3>2 DEF IzvozUredan
    <3>4. TipDatoteka'  BY <1>2, <1>4, <2>1, <3>2 DEF TipDatoteka
    <3> QED  BY <1>2, <2>1, <3>2, <3>3, <3>4, SamoDatoteke
  <2>3. CASE knjiga[n] # {}
    <3>1. NastaviIzvoz(n, novi)  BY <1>9, <2>3 DEF ProcitajZaIzvoz
    <3>2. /\ novi \in IzvozTip /\ novi.faza = "procitano" /\ novi.verzije = knjiga[n]
          /\ novi.nejamci = e.nejamci /\ novi.raslo = e.raslo
      BY <1>4, <1>5 DEF IzvozTip
    <3> HIDE DEF novi
    <3>3. /\ izvozi' \in [Cvor -> IzvozTip] /\ izvozi'[n] = novi
          /\ \A c \in Cvor : c # n => izvozi'[c] = izvozi[c]
      BY <1>7, <3>1, <3>2
    <3>4. n # Autor /\ ~e.raslo => Clanovi(NeJamci(rupe[n])) \subseteq Clanovi(e.nejamci)
      BY <1>1, <2>1 DEF IzvozUredan
    <3>5. knjiga[n] \subseteq K  BY <1>1 DEF Poceci
    <3>6. ASSUME ~(n # Autor /\ e.raslo)
          PROVE  Istinito(K, knjiga[n], IF n = Autor THEN {} ELSE Clanovi(e.nejamci))
      <4>1. CASE n = Autor  BY <4>1 DEF Istinito
      <4>2. CASE n # Autor
        <5>1. ASSUME NEW v \in K, v <= Granica(knjiga[n]), v \notin knjiga[n]
              PROVE  v \in Clanovi(e.nejamci)
          <6>1. v \in Zabiljezene(rupe[n])
            BY <1>1, <4>2, <5>1 DEF BezTihePraznine, Nema, Primatelji
          <6>2. v \in Clanovi(NeJamci(rupe[n]))  BY <1>5, <6>1, SirenjeIsto
          <6> QED  BY <3>4, <3>6, <4>2, <6>2
        <5> QED  BY <4>2, <5>1 DEF Istinito
      <4> QED  BY <4>1, <4>2
    <3>7. IzvozUredan(n)'
      <4> HIDE DEF e
      <4> QED  BY <1>3, <3>2, <3>3, <3>4, <3>5, <3>6 DEF IzvozUredan
    <3>8. TipDatoteka'  BY <1>2, <1>4, <2>1, <3>3 DEF TipDatoteka
    <3> QED  BY <1>2, <2>1, <3>3, <3>7, <3>8, SamoDatoteke
  <2> QED  BY <2>2, <2>3
<1>10. CASE ZapisiDatoteku(n)
  <2> DEFINE V == e.verzije
             g == Granica(V)
             sumnja == IF e.raslo THEN Iznad(0) ELSE Prazno
             ne == IF n = Autor THEN Prazno ELSE Uz(e.nejamci, sumnja)
             r == Presjek(ne, Raspon(0, g))
             d == [verzije |-> V, rupe |-> r]
  <2>1. /\ e.faza = "procitano" /\ NastaviIzvoz(n, NemaIzvoza)
        /\ datoteke' = datoteke \cup {d}
    BY <1>10 DEF ZapisiDatoteku, ZaIzvoz
  <2>2. /\ V \subseteq K
        /\ ~(n # Autor /\ e.raslo) =>
              Istinito(K, V, IF n = Autor THEN {} ELSE Clanovi(e.nejamci))
    BY <1>1, <2>1 DEF IzvozUredan
  <2>3. /\ g \in Nat /\ g \in Oznake /\ 0 \in Oznake
        /\ \A v \in K : v \in Nat /\ 0 < v /\ v \in Oznake
    <3>1. V \in SUBSET Verzije  BY <1>5, <2>2
    <3>2. Granica(V) \in Nat /\ Granica(V) \in Granice  BY <3>1, GranicaBroj, GranicaTip
    <3>3. \A v \in K : v \in Nat /\ 0 < v  BY <1>5, GranicaBroj
    <3> QED  BY <1>5, <3>2, <3>3, OznakeTip
  <2>4. e.nejamci \in Rasponi /\ sumnja \in Rasponi /\ Raspon(0, g) \in Rasponi
    <3>1. Iznad(0) \in Rasponi /\ Raspon(0, g) \in Rasponi  BY <2>3, OznakeTip
    <3>2. e.nejamci \in Rasponi  BY <1>4 DEF IzvozTip
    <3> QED  BY <3>1, <3>2, OznakeTip
  <2> HIDE DEF g
  <2>5. ne \in Rasponi /\ (n # Autor => Clanovi(e.nejamci) \cup Clanovi(sumnja) \subseteq Clanovi(ne))
    BY <2>4, UzDrziOba, AlgebraTip, OznakeTip
  <2>6. r \in Rasponi /\ Clanovi(r) = Clanovi(ne) \cap Clanovi(Raspon(0, g))
    BY <2>4, <2>5, PresjekTocan, AlgebraTip
  <2>7. \A v \in K : v <= g => v \in Clanovi(Raspon(0, g))
    BY <2>3 DEF Raspon, Clanovi
  <2>8. \A v \in K : e.raslo => v \in Clanovi(sumnja)
    BY <2>3, BeskrajPretpostavka DEF Iznad, Raspon, Clanovi, Oznake
  <2> HIDE DEF sumnja, ne, r
  <2>9. Istinito(K, V, Clanovi(r))
    <3> SUFFICES ASSUME NEW v \in K, v <= Granica(V), v \notin V  PROVE v \in Clanovi(r)
      BY DEF Istinito
    <3>1. n # Autor /\ (e.raslo \/ v \in Clanovi(e.nejamci))
      BY <2>2 DEF Istinito
    <3>2. v <= g  BY DEF g
    <3> QED  BY <2>5, <2>6, <2>7, <2>8, <3>1, <3>2
  <2>10. /\ izvozi' \in [Cvor -> IzvozTip] /\ izvozi'[n] = NemaIzvoza
         /\ \A c \in Cvor : c # n => izvozi'[c] = izvozi[c]
    BY <1>6, <1>7, <2>1
  <2>11. IzvozUredan(n)'  BY <1>6, <2>10 DEF IzvozUredan
  <2>12. d \in [verzije : SUBSET Verzije, rupe : Rasponi] /\ d.verzije = V /\ d.rupe = r
    BY <1>4, <2>6 DEF IzvozTip
  <2> HIDE DEF d, V, K
  <2>13. TipDatoteka'  BY <1>2, <1>4, <2>1, <2>10, <2>12 DEF TipDatoteka
  <2>14. DatotekeUredne'
    <3>1. DatotekeUredne  BY <1>1 DEF UrednoDatoteke
    <3> QED  BY <1>3, <2>1, <2>2, <2>9, <2>12, <3>1 DEF DatotekeUredne, K
  <2> QED  BY <1>2, <2>10, <2>11, <2>13, <2>14, SamoDatoteke
<1> QED  BY <1>8, <1>9, <1>10

-----------------------------------------------------------------------------
(* Imports *)

\* The import of n goes on as novi.
LEMMA NastavljenUvoz ==
    ASSUME TipDatoteka, NEW n \in Cvor, NEW novi \in UvozTip, NastaviUvoz(n, novi)
    PROVE  /\ uvozi' \in [Cvor -> UvozTip] /\ uvozi'[n] = novi
           /\ \A c \in Cvor : c # n => uvozi'[c] = uvozi[c]
BY DEF TipDatoteka, NastaviUvoz

\* After a batch, or after the record was widened.
LEMMA DaljeTip ==
    ASSUME NEW u \in UvozTip
    PROVE  /\ DalijeUvozi(u) \in UvozTip
           /\ \/ DalijeUvozi(u).faza = "nema"
              \/ DalijeUvozi(u).faza = "serije" /\ DalijeUvozi(u).verzije = u.verzije
<1>1. NemaUvoza \in UvozTip /\ NemaUvoza.faza = "nema"
  BY SlobodanTip, OznakeTip DEF NemaUvoza, UvozTip
<1>2. /\ [u EXCEPT !.faza = "serije"] \in UvozTip
      /\ [u EXCEPT !.faza = "serije"].faza = "serije"
      /\ [u EXCEPT !.faza = "serije"].verzije = u.verzije
  BY DEF UvozTip
<1> QED  BY <1>1, <1>2 DEF DalijeUvozi

\* What is decided before the lock (zaUvoz, promjenaUvoza): the refused and what
\* the file does not vouch for are in the change with which the record is
\* widened.
LEMMA UvozOdlucen ==
    ASSUME MirnoBrisanje, RubNeIdeNatrag, IInvUvoz, NEW n \in Uvoznici,
           \/ \E d \in datoteke, vrsta \in Vrste : PocniUvoz(n, d, vrsta)
           \/ GranicaUvoza(n)
           \/ UvozPao(n)
    PROVE  IInvUvoz' /\ [Promet!Next]_(Promet!vars)
<1> DEFINE u == uvozi[n]
           K == knjiga[Autor]
           S == knjiga[n]
<1>1. IInv /\ TypeOK /\ UrednoDatoteke /\ TipDatoteka /\ DatotekeUredne /\ UvozUredan(n)
      /\ n \in Primatelji /\ n \in Cvor
  BY UvozPretpostavka DEF IInvUvoz, IInv, UrednoDatoteke, Primatelji
<1>2. UNCHANGED vars /\ UNCHANGED <<datoteke, izvozi>>
  BY DEF PocniUvoz, GranicaUvoza, UvozPao
<1>3. UNCHANGED <<knjiga, rupe, ograda>>  BY <1>2 DEF vars
<1>4. u \in UvozTip /\ datoteke \subseteq [verzije : SUBSET Verzije, rupe : Rasponi]
  BY <1>1 DEF TipDatoteka
<1>5. K \in SUBSET Verzije /\ S \in SUBSET Verzije /\ Granica(S) \in Nat /\ Granica(S) \in Granice
  BY <1>1, KnjigaTip, GranicaBroj, GranicaTip
<1>6. ASSUME NEW novi \in UvozTip, NastaviUvoz(n, novi), uvozi'[n] = novi => UvozUredan(n)'
      PROVE  IInvUvoz' /\ [Promet!Next]_(Promet!vars)
  <2>1. /\ uvozi' \in [Cvor -> UvozTip] /\ uvozi'[n] = novi
        /\ \A c \in Cvor : c # n => uvozi'[c] = uvozi[c]
    BY <1>1, <1>6, NastavljenUvoz
  <2>2. TipDatoteka'  BY <1>1, <1>2, <2>1 DEF TipDatoteka
  <2> QED  BY <1>2, <1>6, <2>1, <2>2, SamoDatoteke
<1>7. ASSUME NEW d \in datoteke, NEW vrsta \in Vrste, PocniUvoz(n, d, vrsta)
      PROVE  IInvUvoz' /\ [Promet!Next]_(Promet!vars)
  <2> DEFINE bacio == IF vrsta = "paket" THEN d.verzije \cap ograda[n].odbija ELSE {}
             V == d.verzije \ bacio
             novi == [NemaUvoza EXCEPT !.faza = "odluceno", !.verzije = V, !.bacio = bacio,
                                       !.rupe = d.rupe, !.ograda = ograda[n]]
  <2>1. /\ d.verzije \in SUBSET Verzije /\ d.rupe \in Rasponi
        /\ d.verzije \subseteq K /\ Istinito(K, d.verzije, Clanovi(d.rupe))
    BY <1>1, <1>4 DEF DatotekeUredne
  <2>2. ograda[n] \in Ograde /\ bacio \subseteq d.verzije  BY <1>1 DEF TypeOK
  <2>3. NastaviUvoz(n, novi)  BY <1>7 DEF PocniUvoz
  <2> HIDE DEF bacio
  <2>4. /\ novi \in UvozTip /\ novi.faza = "odluceno" /\ novi.verzije = V
        /\ novi.bacio = bacio /\ novi.rupe = d.rupe
    BY <2>1, <2>2, SlobodanTip DEF NemaUvoza, UvozTip
  <2>5. Istinito(K, V, bacio \cup Clanovi(d.rupe))
    <3> SUFFICES ASSUME NEW v \in K, v <= Granica(V)
                 PROVE  v \in V \cup (bacio \cup Clanovi(d.rupe))
      BY DEF Istinito
    <3>1. /\ V \in SUBSET Verzije /\ V \subseteq d.verzije
      BY <2>1
    <3>2. /\ Granica(V) \in Nat /\ Granica(d.verzije) \in Nat /\ v \in Nat
          /\ Granica(V) <= Granica(d.verzije)
      BY <1>5, <2>1, <3>1, GranicaBroj, GranicaUnije
    <3>3. v <= Granica(d.verzije)  BY <3>2
    <3> QED  BY <2>1, <3>3 DEF Istinito
  <2> HIDE DEF novi, V
  <2>6. V \subseteq K  BY <2>1 DEF V
  <2>7. uvozi'[n] = novi => UvozUredan(n)'
    BY <1>1, <1>3, <2>4, <2>5, <2>6 DEF UvozUredan
  <2> QED  BY <1>6, <2>3, <2>4, <2>7
<1>8. CASE GranicaUvoza(n)
  <2> DEFINE fs == Granica(S)
             x == [prima |-> [fs |-> fs, moje |-> 0]]
             o == OdbijenoKljuca(x, u.verzije, u.bacio)
             p == PromjenaUvoza(n, fs)
             novi == [u EXCEPT !.faza = "promjena", !.bacio = {}, !.rupe = Prazno,
                               !.promjena = p]
  <2>1. u.faza = "odluceno" /\ NastaviUvoz(n, novi)  BY <1>8 DEF GranicaUvoza
  <2>2. /\ u.verzije \subseteq K
        /\ Istinito(K, u.verzije, u.bacio \cup Clanovi(u.rupe))
    BY <1>1, <2>1 DEF UvozUredan
  <2>3. u.verzije \in SUBSET Verzije /\ u.bacio \in SUBSET Verzije /\ u.rupe \in Rasponi
    BY <1>4 DEF UvozTip
  <2>4. x.prima.fs \in Granice /\ x.prima.moje \in Granice /\ fs \in Oznake
    BY <1>5, OznakeTip
  <2> HIDE DEF x, fs
  <2>5. o \in Rasponi /\ u.bacio \subseteq Clanovi(o)
    BY <2>3, <2>4, OdbijenoTip, OdbijenoSve
  <2>6. p = [PraznaPromjena EXCEPT !.fs = fs, !.nesigurno = u.rupe, !.odbijeno = o]
    BY DEF PromjenaUvoza, x
  <2> HIDE DEF p, o
  <2>7. /\ p \in PromjeneKljuca /\ p.fs = fs /\ p.nesigurno = u.rupe /\ p.odbijeno = o
        /\ p.redovno = Prazno /\ p.popuna = Prazno
    BY <2>3, <2>4, <2>5, <2>6, SlobodanTip DEF PraznaPromjena, PromjeneKljuca
  <2>8. Clanovi(Prazno) = {}
    BY BeskrajPretpostavka DEF Clanovi, Prazno, Raspon, Oznake
  <2>9. Obuhvaca(p, S, u.verzije)
    BY <2>2, <2>5, <2>7, <2>8 DEF Obuhvaca, Istinito
  <2>10. /\ novi \in UvozTip /\ novi.faza = "promjena" /\ novi.verzije = u.verzije
         /\ novi.promjena = p
    BY <1>4, <2>7, OznakeTip DEF UvozTip
  <2>11. fs = Granica(S)  BY DEF fs
  <2> HIDE DEF novi, u
  <2>12. ASSUME uvozi'[n] = novi  PROVE UvozUredan(n)'
    <3>1. Granica(S) <= Granica(S)  BY <1>5
    <3>2. Obuhvaca(uvozi[n].promjena, knjiga[n], uvozi[n].verzije)'
      BY <1>3, <2>9, <2>10, <2>12 DEF Obuhvaca
    <3> QED  BY <1>1, <1>3, <2>2, <2>7, <2>10, <2>11, <2>12, <3>1, <3>2 DEF UvozUredan
  <2> QED  BY <1>6, <2>1, <2>10, <2>12
<1>9. CASE UvozPao(n)
  <2>1. NastaviUvoz(n, NemaUvoza)  BY <1>9 DEF UvozPao
  <2>2. NemaUvoza \in UvozTip /\ NemaUvoza.faza = "nema"
    BY SlobodanTip, OznakeTip DEF NemaUvoza, UvozTip
  <2>3. uvozi'[n] = NemaUvoza => UvozUredan(n)'  BY <2>2 DEF UvozUredan
  <2> QED  BY <1>6, <2>1, <2>2, <2>3
<1> QED  BY <1>7, <1>8, <1>9

\* A step of an import that keeps every ledger and every record leaves the files,
\* the exports and the other imports in order.
LEMMA UvozIde ==
    ASSUME IInvUvoz, IInv', AutorDodaje, NEW n \in Cvor, NEW novi \in UvozTip,
           NastaviUvoz(n, novi), uvozi'[n] = novi => UvozUredan(n)',
           \A c \in Cvor : knjiga[c] \subseteq knjiga'[c] /\ ZapisCuva(c, rupe'[c]),
           UNCHANGED datoteke, UNCHANGED <<izvozi, rupe>> \/ JaviIzvozima
    PROVE  IInvUvoz'
<1>1. /\ TypeOK /\ TypeOK' /\ BezTihePraznine' /\ UrednoDatoteke /\ TipDatoteka
      /\ DatotekeUredne
  BY DEF IInvUvoz, IInv, Uredno, UrednoDatoteke
<1>2. /\ uvozi' \in [Cvor -> UvozTip] /\ uvozi'[n] = novi
      /\ \A c \in Cvor : c # n => uvozi'[c] = uvozi[c]
  BY <1>1, NastavljenUvoz
<1>3. /\ izvozi' \in [Cvor -> IzvozTip]
      /\ \A c \in Cvor :
           /\ \/ izvozi'[c] = izvozi[c]
              \/ izvozi'[c] = [izvozi[c] EXCEPT !.raslo = TRUE]
           /\ izvozi[c].faza # "nema" =>
                 \/ izvozi'[c].raslo
                 \/ Clanovi(NeJamci(rupe'[c])) \subseteq Clanovi(NeJamci(rupe[c]))
  <2>1. CASE UNCHANGED <<izvozi, rupe>>  BY <1>1, <2>1 DEF TipDatoteka
  <2>2. CASE JaviIzvozima  BY <1>1, <2>2, JavljenoIzvozima
  <2> QED  BY <2>1, <2>2
<1>4. TipDatoteka'  BY <1>1, <1>2, <1>3 DEF TipDatoteka
<1>5. DatotekeUredne'  BY <1>1, DatotekeStoje
<1>6. ASSUME NEW c \in Cvor  PROVE IzvozUredan(c)' /\ UvozUredan(c)'
  <2>1. IzvozUredan(c)'  BY <1>1, <1>3, IzvozStoji DEF UrednoDatoteke
  <2>2. UvozUredan(c)'
    <3>1. CASE c = n  BY <1>2, <3>1
    <3>2. CASE c # n  BY <1>1, <1>2, <3>2, UvozStoji DEF UrednoDatoteke
    <3> QED  BY <3>1, <3>2
  <2> QED  BY <2>1, <2>2
<1> QED  BY <1>4, <1>5, <1>6 DEF IInvUvoz, UrednoDatoteke

\* The record is widened under the lock, and the lock let go before the first
\* batch (archive.go, rupePodBravom).
LEMMA RupeUvozaUredno ==
    ASSUME IInvUvoz, NEW n \in Uvoznici, RupeUvoza(n)
    PROVE  IInvUvoz' /\ [Promet!Next]_(Promet!vars)
<1> DEFINE u == uvozi[n]
           K == knjiga[Autor]
           S == knjiga[n]
           V == u.verzije
           staro == UskladjenoPravilo(n)
           x == [r |-> n, prima |-> u, upis |-> u]
           p == UzOgradu(x)
           m == [u EXCEPT !.promjena = PraznaPromjena, !.ograda = BezOgrade]
           novi == DalijeUvozi(m)
<1>1. /\ IInv /\ TypeOK /\ Zakljucano /\ BezTihePraznine /\ UrednoDatoteke /\ UvozUredan(n)
      /\ n \in Primatelji /\ n \in Cvor /\ n # Autor
  BY UvozPretpostavka DEF IInvUvoz, IInv, Uredno, UrednoDatoteke, Primatelji
<1>2. /\ u.faza = "promjena" /\ brava[n] = Slobodna
      /\ IF Ima(u, Prazno) THEN PromijeniRupe(n, staro, Prosiri(p, staro))
         ELSE UNCHANGED <<rupe, zapisano, rastRupa>>
      /\ JaviIzvozima /\ NastaviUvoz(n, novi)
      /\ UNCHANGED <<knjiga, ograda, prati, brava, odbijeneOd, zaCvor, razg, noviUvoz, zaborav,
                     noviZapis, smetnji, datoteke>>
  BY DEF RupeUvoza, postavke, pamcenje
<1>3. u \in UvozTip  BY <1>1 DEF UrednoDatoteke, TipDatoteka
<1>4. u.promjena \in PromjeneKljuca /\ V \in SUBSET Verzije  BY <1>3 DEF UvozTip
<1>5. V \subseteq K /\ Obuhvaca(u.promjena, S, V) /\ u.promjena.fs <= Granica(S)
  BY <1>1, <1>2 DEF UvozUredan
<1>6. /\ K \in SUBSET Verzije /\ S \in SUBSET Verzije
      /\ Granica(S) \in Nat /\ Granica(V) \in Nat /\ u.promjena.fs \in Nat
      /\ \A v \in K : v \in Nat /\ v \in Verzije
  <2>1. K \in SUBSET Verzije /\ S \in SUBSET Verzije  BY <1>1, KnjigaTip
  <2>2. u.promjena.fs \in Nat  BY <1>4, BeskrajPretpostavka DEF PromjeneKljuca, Oznake
  <2> QED  BY <1>4, <2>1, <2>2, GranicaBroj
<1>7. m \in UvozTip /\ m.verzije = V
  BY <1>3, SlobodanTip DEF UvozTip
<1> HIDE DEF m
<1>8. /\ novi \in UvozTip
      /\ novi.faza = "nema" \/ (novi.faza = "serije" /\ novi.verzije = V)
  BY <1>7, DaljeTip
<1> HIDE DEF novi
<1>9. x.upis.promjena = u.promjena /\ x.r = n  OBVIOUS
<1> HIDE DEF x
<1>10. p \in PromjeneKljuca /\ Obuhvaca(p, S, V) /\ p.fs = u.promjena.fs
  BY <1>4, <1>5, <1>9, UzOgraduTip, UzOgraduObuhvaca
<1> HIDE DEF p, u
<1>11. \A t \in Razgovori :
          IstiRazgovor(t) /\ (razg[t].faza \in PodBravom => razg[t].r # n)
  BY <1>1, <1>2, BravaJedina DEF IstiRazgovor
<1>12. Zakljucano'  BY <1>1, <1>2, BezRazgovora
<1>13. AutorDodaje  BY <1>2 DEF AutorDodaje
\* What the import passes over is in the record from now on.
<1>14. ASSUME ZapisCuva(n, rupe'[n]),
              \A v \in K \ (S \cup V) : p.fs < v /\ v <= Granica(V) => v \in Zabiljezene(rupe'[n])
       PROVE  uvozi'[n] = novi => UvozUredan(n)'
  <2> SUFFICES ASSUME uvozi'[n] = novi, novi.faza = "serije", novi.verzije = V,
                      NEW v \in (K \ S) \ V, v <= Granica(V)
               PROVE  v \in Zabiljezene(rupe'[n])
    BY <1>1, <1>2, <1>5, <1>8 DEF UvozUredan, Nema
  <2>1. CASE p.fs < v  BY <1>14, <2>1
  <2>2. CASE ~(p.fs < v)
    <3>1. v <= Granica(S) /\ v \in Nema(n)  BY <1>5, <1>6, <1>10, <2>2 DEF Nema
    <3> QED  BY <1>1, <1>14, <3>1 DEF BezTihePraznine, ZapisCuva
  <2> QED  BY <2>1, <2>2
<1>15. CASE Ima(u, Prazno)
  <2> DEFINE novo == Prosiri(p, staro)
  <2>1. PromijeniRupe(n, staro, novo)  BY <1>2, <1>15
  <2>2. /\ novo \in RupeKljuca /\ ZapisCuva(n, novo)
        /\ Clanovi(p.odbijeno) \subseteq Clanovi(novo.odbijeno)
        /\ Clanovi(p.uTrazi) \subseteq Clanovi(novo.trazi)
        /\ \A v \in Clanovi(p.nesigurno) : p.fs < v => v \in Clanovi(novo.trazi)
    BY <1>1, <1>10, ProsirenZapis
  <2> HIDE DEF novo, staro
  <2>3. /\ rupe'[n] = novo /\ \A c \in Cvor : c # n => rupe'[c] = rupe[c]
    BY <1>1, <2>1 DEF PromijeniRupe, TypeOK
  <2>4. TypeOK'
    <3>1. /\ rupe' \in [Cvor -> RupeKljuca]
          /\ zapisano' \in [Cvor -> [ima : BOOLEAN, odbija : Pravila \cup {{}}]]
          /\ rastRupa' \subseteq Razgovori
      BY <1>1, <2>1, <2>2, PromijeniRupeTip
    <3> QED  BY <1>1, <1>2, <3>1 DEF TypeOK
  <2>5. PromijeniRupe(n, UskladjenoPravilo(n), novo)  BY <2>1 DEF staro
  <2>6. Uredno' /\ Promet!Zabiljezi(n)
    BY <1>1, <1>2, <1>11, <2>2, <2>4, <2>5, ZapisUredan
  <2>7. \A v \in K \ (S \cup V) : p.fs < v /\ v <= Granica(V) => v \in Zabiljezene(rupe'[n])
    BY <1>6, <1>10, <2>2, <2>3 DEF Obuhvaca, Zabiljezene
  <2>8. \A c \in Cvor : knjiga[c] \subseteq knjiga'[c] /\ ZapisCuva(c, rupe'[c])
    BY <1>2, <2>2, <2>3 DEF ZapisCuva
  <2>9. uvozi'[n] = novi => UvozUredan(n)'  BY <1>14, <2>7, <2>8, <1>1
  <2>10. IInv'  BY <1>12, <2>4, <2>6 DEF IInv
  <2>11. IInvUvoz'
    BY <1>1, <1>2, <1>8, <1>13, <2>8, <2>9, <2>10, UvozIde
  <2> QED  BY <1>1, <2>6, <2>11 DEF Promet!Next
<1>16. CASE ~Ima(u, Prazno)
  <2>1. UNCHANGED <<rupe, zapisano, rastRupa>>  BY <1>2, <1>16
  <2>2. /\ Prazan(u.promjena.odbijeno) /\ Prazan(u.promjena.uTrazi)
        /\ Prazan(Nedostaje(u.promjena, Prazno))
    BY <1>16 DEF Ima, MijenjaTrazi
  <2>3. \A a \in Rasponi : Prazan(a) => Clanovi(a) = {}
    BY BeskrajPretpostavka DEF Prazan, Clanovi, Rasponi, Oznake
  <2>4. /\ Clanovi(u.promjena.odbijeno) = {} /\ Clanovi(u.promjena.uTrazi) = {}
        /\ \A v \in Clanovi(u.promjena.nesigurno) : ~(u.promjena.fs < v)
    <3>1. Prazno \in Rasponi  BY OznakeTip
    <3>2. u.promjena.odbijeno \in Rasponi /\ u.promjena.uTrazi \in Rasponi
      BY <1>4 DEF PromjeneKljuca
    <3> QED  BY <1>4, <2>2, <2>3, <3>1, <3>2, NedostajeSve
  <2>5. \A v \in K \ (S \cup V) :
           p.fs < v /\ v <= Granica(V) => v \in Zabiljezene(rupe'[n])
    BY <1>5, <1>10, <2>4 DEF Obuhvaca
  <2>6. \A c \in Cvor : knjiga[c] \subseteq knjiga'[c] /\ ZapisCuva(c, rupe'[c])
    BY <1>2, <2>1 DEF ZapisCuva
  <2>7. uvozi'[n] = novi => UvozUredan(n)'  BY <1>1, <1>14, <2>5, <2>6
  <2>8. TypeOK'  BY <1>1, <1>2, <2>1 DEF TypeOK
  <2>9. Uredno'  BY <1>1, <1>2, <1>11, <2>1, <2>8, TihiKorak
  <2>10. IInvUvoz'
    BY <1>1, <1>2, <1>8, <1>12, <1>13, <2>6, <2>7, <2>8, <2>9, UvozIde DEF IInv
  <2> QED  BY <1>2, <2>1, <2>10, TihoZaPromet
<1> QED  BY <1>15, <1>16

\* A batch enters the ledger, in order of versions: what it passes over is in
\* the record already (archive.go, primijeniPodBravom).
LEMMA SerijaUredno ==
    ASSUME IInvUvoz, NEW n \in Uvoznici, UpisiSeriju(n)
    PROVE  IInvUvoz' /\ [Promet!Next]_(Promet!vars)
<1> DEFINE u == uvozi[n]
           K == knjiga[Autor]
           S == knjiga[n]
           W == u.verzije
           V == PrvihOd(u.verzije, Serija)
           svjeze == ~(V \subseteq S)
           novi == [u EXCEPT !.faza = "upisano", !.verzije = @ \ V, !.novo = svjeze]
<1>1. /\ IInv /\ TypeOK /\ Zakljucano /\ BezTihePraznine /\ UrednoDatoteke /\ UvozUredan(n)
      /\ n \in Primatelji /\ n \in Cvor /\ n # Autor /\ Autor \in Cvor /\ Poceci
  BY UvozPretpostavka, RazmjenaPretpostavka
     DEF IInvUvoz, IInv, Uredno, UrednoDatoteke, Primatelji
<1>2. /\ u.faza = "serije" /\ brava[n] = Slobodna
      /\ knjiga' = [knjiga EXCEPT ![n] = @ \cup V] /\ NastaviUvoz(n, novi)
      /\ UNCHANGED <<rupe, zapisano, ograda, prati, brava, odbijeneOd, zaCvor, razg, rastRupa,
                     noviUvoz, zaborav, noviZapis, smetnji, datoteke, izvozi>>
  BY DEF UpisiSeriju, postavke, pamcenje, oznake
<1>3. u \in UvozTip  BY <1>1 DEF UrednoDatoteke, TipDatoteka
<1>4. /\ W \subseteq K
      /\ \A v \in Nema(n) \ W : v <= Granica(W) => v \in Zabiljezene(rupe[n])
  BY <1>1, <1>2 DEF UvozUredan
<1>5. W \in SUBSET Verzije /\ K \in SUBSET Verzije /\ S \in SUBSET Verzije
  BY <1>1, <1>3, KnjigaTip DEF UvozTip
<1>6. PocetakOd(V, W)
  <2>1. Serija \in Nat  BY UvozPretpostavka
  <2> QED  BY <1>5, <2>1, PrvihJePocetak
<1> HIDE DEF V
<1>7. V \subseteq W /\ V \in SUBSET Verzije /\ V \subseteq K  BY <1>4, <1>5, <1>6 DEF PocetakOd
<1>8. /\ Granica(S) \in Nat /\ Granica(V) \in Nat /\ Granica(W) \in Nat
      /\ Granica(S \cup V) \in Nat /\ Granica(W \ V) \in Nat
      /\ Granica(S \cup V) <= Granica(S) \/ Granica(S \cup V) <= Granica(V)
      /\ Granica(V) <= Granica(W) /\ Granica(W \ V) <= Granica(W)
      /\ Granica(V) # 0 => Granica(V) \in V
      /\ \A v \in K : v \in Nat /\ 0 < v
  <2>1. S \cup V \in SUBSET Verzije /\ W \ V \in SUBSET Verzije /\ W \ V \subseteq W
    BY <1>5, <1>7
  <2> QED  BY <1>5, <1>7, <2>1, GranicaBroj, GranicaUnije
<1> HIDE DEF svjeze
<1>9. /\ novi \in UvozTip /\ novi.faza = "upisano" /\ novi.verzije = W \ V
  <2>1. svjeze \in BOOLEAN  BY DEF svjeze
  <2> QED  BY <1>3, <1>5, <2>1 DEF UvozTip
<1> HIDE DEF novi, u, W
<1>10. knjiga'[n] = S \cup V /\ \A c \in Cvor : c # n => knjiga'[c] = knjiga[c]
  BY <1>1, <1>2 DEF TypeOK
<1>11. TypeOK'
  <2>1. knjiga' \in [Cvor -> SUBSET Verzije]
    BY <1>2, <1>5, <1>7, <1>1 DEF TypeOK
  <2> QED  BY <1>1, <1>2, <2>1 DEF TypeOK
<1>12. \A v \in Nema(n) \ V : v <= Granica(S \cup V) => v \in Zabiljezene(rupe[n])
  <2> SUFFICES ASSUME NEW v \in Nema(n) \ V, v <= Granica(S \cup V)
               PROVE  v \in Zabiljezene(rupe[n])
    OBVIOUS
  <2>1. v \in K /\ v \in Nat /\ 0 < v  BY <1>8 DEF Nema
  <2>2. CASE v <= Granica(S)  BY <1>1, <2>2 DEF BezTihePraznine
  <2>3. CASE v <= Granica(V)
    <3>1. Granica(V) \in V  BY <1>8, <2>1, <2>3
    <3>2. v \notin W  BY <1>6, <2>3, <3>1 DEF PocetakOd
    <3>3. v <= Granica(W)  BY <1>8, <2>1, <2>3
    <3> QED  BY <1>4, <3>2, <3>3
  <2> QED  BY <1>8, <2>1, <2>2, <2>3
<1>13. ASSUME NEW t \in Razgovori
       PROVE  IstiRazgovor(t) /\ (razg[t].faza # "nema" => OkolinaMirna(t))
  <2>1. razg[t].s \in Cvor /\ razg[t].r \in Cvor  BY <1>1, RazgovorBrojevi
  <2>2. razg[t].faza \in PodBravom => razg[t].r # n  BY <1>1, <1>2, BravaJedina
  <2>3. \A c \in Cvor : knjiga[c] \subseteq knjiga'[c]  BY <1>10
  <2>4. IstiRazgovor(t)  BY <1>2 DEF IstiRazgovor
  <2>5. OkolinaMirna(t)  BY <1>2, <1>10, <2>1, <2>2, <2>3 DEF OkolinaMirna
  <2> QED  BY <2>4, <2>5
<1>14. Uredno' /\ Promet!Primi(n)
  <2>1. UNCHANGED <<rupe, prati>>  BY <1>2
  <2> QED  BY <1>1, <1>2, <1>7, <1>11, <1>12, <1>13, <2>1, PrimljenoUredno
<1>15. IInv'  BY <1>1, <1>2, <1>11, <1>14, BezRazgovora DEF IInv
<1>16. AutorDodaje /\ \A c \in Cvor : knjiga[c] \subseteq knjiga'[c] /\ ZapisCuva(c, rupe'[c])
  BY <1>1, <1>2, <1>10 DEF AutorDodaje, ZapisCuva
<1>17. ASSUME uvozi'[n] = novi  PROVE UvozUredan(n)'
  <2>1. knjiga'[Autor] = K  BY <1>1, <1>10
  <2>2. ASSUME NEW v \in (K \ (S \cup V)) \ (W \ V), v <= Granica(W \ V)
        PROVE  v \in Zabiljezene(rupe[n])
    <3>1. v \in Nema(n) \ W /\ v \in Nat  BY <1>8, <2>2 DEF Nema
    <3>2. v <= Granica(W)  BY <1>8, <2>2, <3>1
    <3> QED  BY <1>4, <3>1, <3>2
  <2> QED  BY <1>1, <1>2, <1>4, <1>9, <1>10, <1>17, <2>1, <2>2 DEF UvozUredan, Nema
<1>18. IInvUvoz'
  BY <1>1, <1>2, <1>9, <1>15, <1>16, <1>17, UvozIde
<1> QED  BY <1>1, <1>14, <1>18 DEF Promet!Next

\* A batch is counted, and the lock let go.
LEMMA ZabiljezenaSerijaUredno ==
    ASSUME IInvUvoz, NEW n \in Uvoznici, ZabiljeziSeriju(n)
    PROVE  IInvUvoz' /\ UNCHANGED Promet!vars
<1> DEFINE u == uvozi[n]
           m == [u EXCEPT !.novo = FALSE]
           novi == DalijeUvozi(m)
<1>1. /\ IInv /\ TypeOK /\ Zakljucano /\ UrednoDatoteke /\ UvozUredan(n)
      /\ n \in Primatelji /\ n \in Cvor
  BY UvozPretpostavka DEF IInvUvoz, IInv, UrednoDatoteke, Primatelji
<1>2. /\ u.faza = "upisano" /\ NastaviUvoz(n, novi)
      /\ ZabiljeziUvoz(n) \/ UNCHANGED <<zaCvor, noviUvoz>>
      /\ UNCHANGED <<knjiga, rupe, zapisano, ograda, prati, brava, odbijeneOd, razg, rastRupa,
                     zaborav, noviZapis, smetnji, datoteke, izvozi>>
  BY DEF ZabiljeziSeriju, UvozPodBravom, trajno, postavke
<1>3. u \in UvozTip  BY <1>1 DEF UrednoDatoteke, TipDatoteka
<1>4. m \in UvozTip /\ m.verzije = u.verzije  BY <1>3 DEF UvozTip
<1> HIDE DEF m
<1>5. /\ novi \in UvozTip
      /\ novi.faza = "nema" \/ (novi.faza = "serije" /\ novi.verzije = u.verzije)
  BY <1>4, DaljeTip
<1> HIDE DEF novi, u
<1>6. TypeOK'
  <2>1. zaCvor' \in [Cvor -> [Cvor -> Granice]] /\ noviUvoz' \subseteq Razgovori
    <3>1. CASE ZabiljeziUvoz(n)
      <4>1. [r \in Cvor |-> 0] \in [Cvor -> Granice]  BY OznakeTip
      <4> QED  BY <1>1, <3>1, <4>1 DEF ZabiljeziUvoz, Salje, TypeOK
    <3>2. CASE UNCHANGED <<zaCvor, noviUvoz>>  BY <1>1, <3>2 DEF TypeOK
    <3> QED  BY <1>2, <3>1, <3>2
  <2> QED  BY <1>1, <1>2, <2>1 DEF TypeOK
<1>7. \A t \in Razgovori : IstiRazgovor(t) /\ (t \in rastRupa => t \in rastRupa')
  BY <1>2 DEF IstiRazgovor
<1>8. Uredno'  BY <1>1, <1>2, <1>6, <1>7, TihiKorak
<1>9. IInv'  BY <1>1, <1>2, <1>6, <1>8, BezRazgovora DEF IInv
<1>10. AutorDodaje /\ \A c \in Cvor : knjiga[c] \subseteq knjiga'[c] /\ ZapisCuva(c, rupe'[c])
  BY <1>2 DEF AutorDodaje, ZapisCuva
<1>11. ASSUME uvozi'[n] = novi  PROVE UvozUredan(n)'
  BY <1>1, <1>2, <1>5, <1>11 DEF UvozUredan, Nema, u
<1>12. IInvUvoz'
  BY <1>1, <1>2, <1>5, <1>9, <1>10, <1>11, UvozIde
<1> QED  BY <1>2, <1>12, TihoZaPromet

-----------------------------------------------------------------------------
(* The specification with files *)

LEMMA PocetnoUzDatoteke == InitUvoz => IInvUvoz /\ Promet!Init
<1> SUFFICES ASSUME InitUvoz  PROVE IInvUvoz /\ Promet!Init
  OBVIOUS
<1>1. /\ Init /\ datoteke = {} /\ izvozi = [n \in Cvor |-> NemaIzvoza]
      /\ uvozi = [n \in Cvor |-> NemaUvoza]
  BY DEF InitUvoz
<1>2. TypeOK /\ Uredno /\ Promet!Init  BY <1>1, PocetnoTip, PocetnoUredno
<1>3. Zakljucano  BY <1>1 DEF Init, Zakljucano, Slobodan, PodBravom
<1>4. NemaIzvoza \in IzvozTip /\ NemaUvoza \in UvozTip
      /\ NemaIzvoza.faza = "nema" /\ NemaUvoza.faza = "nema"
  BY SlobodanTip, OznakeTip DEF NemaIzvoza, NemaUvoza, IzvozTip, UvozTip
<1>5. TipDatoteka /\ DatotekeUredne  BY <1>1, <1>4 DEF TipDatoteka, DatotekeUredne
<1>6. \A n \in Cvor : IzvozUredan(n) /\ UvozUredan(n)
  BY <1>1, <1>4 DEF IzvozUredan, UvozUredan
<1> QED  BY <1>2, <1>3, <1>5, <1>6 DEF IInvUvoz, IInv, UrednoDatoteke

\* IInvUvoz is inductive, and every step is a step of the promise or none.
LEMMA UvozOcuvan ==
    ASSUME MirnoBrisanje, RubNeIdeNatrag
    PROVE  IInvUvoz /\ [NextUvoz]_varsUvoz => IInvUvoz' /\ [Promet!Next]_(Promet!vars)
<1> SUFFICES ASSUME IInvUvoz, [NextUvoz]_varsUvoz
             PROVE  IInvUvoz' /\ [Promet!Next]_(Promet!vars)
  OBVIOUS
<1>1. CASE KorakRazmjene  BY <1>1, RazmjenaUzDatoteke
<1>2. CASE \E t \in Razgovori : BravuDrziUvoz(t)  BY <1>2, BravuDrziUvozUredno
<1>3. CASE \E n \in Podesivi : ObrisiKanalIzmedjuUvoza(n)  BY <1>3, ObrisanoUzDatoteke
<1>4. CASE \E n \in Primatelji : PonovnoPokreniSve(n)  BY <1>4, PadUzDatoteke
<1>5. ASSUME NEW n \in Izvoznici, PocniIzvoz(n) \/ ProcitajZaIzvoz(n) \/ ZapisiDatoteku(n)
      PROVE  IInvUvoz' /\ [Promet!Next]_(Promet!vars)
  <2>1. n \in Cvor  BY UvozPretpostavka
  <2> QED  BY <1>5, <2>1, IzvozUredno
<1>6. ASSUME NEW n \in Uvoznici,
             \/ \E d \in datoteke, vrsta \in Vrste : PocniUvoz(n, d, vrsta)
             \/ GranicaUvoza(n) \/ RupeUvoza(n) \/ UpisiSeriju(n)
             \/ ZabiljeziSeriju(n) \/ UvozPao(n)
      PROVE  IInvUvoz' /\ [Promet!Next]_(Promet!vars)
  <2>1. CASE \/ \E d \in datoteke, vrsta \in Vrste : PocniUvoz(n, d, vrsta)
             \/ GranicaUvoza(n) \/ UvozPao(n)
    BY <2>1, UvozOdlucen
  <2>2. CASE RupeUvoza(n)  BY <2>2, RupeUvozaUredno
  <2>3. CASE UpisiSeriju(n)  BY <2>3, SerijaUredno
  <2>4. CASE ZabiljeziSeriju(n)  BY <2>4, ZabiljezenaSerijaUredno
  <2> QED  BY <1>6, <2>1, <2>2, <2>3, <2>4
<1>7. CASE UNCHANGED varsUvoz
  <2>1. UNCHANGED vars /\ UNCHANGED <<datoteke, izvozi, uvozi>>
    BY <1>7 DEF varsUvoz, varsDatoteka
  <2>2. TipDatoteka'  BY <2>1 DEF TipDatoteka, IInvUvoz, UrednoDatoteke
  <2> QED  BY <2>1, <2>2, SamoDatoteke
<1> QED  BY <1>1, <1>2, <1>3, <1>4, <1>5, <1>6, <1>7 DEF NextUvoz

\* Nothing a node misses below its frontier is silent, and no talk, export,
\* import or file makes it so.
THEOREM UvozUrednoStalno ==
    ASSUME MirnoBrisanje, RubNeIdeNatrag
    PROVE  SpecUvoz => []IInvUvoz
BY PocetnoUzDatoteke, UvozOcuvan, PTL DEF SpecUvoz

\* The exchange together with exports and imports implements Dostava: an import
\* too passes over nothing that is not in the durable record (archive.go,
\* rupePodBravom before primijeniPodBravom).
THEOREM UvozDostavlja ==
    ASSUME MirnoBrisanje, RubNeIdeNatrag
    PROVE  SpecUvoz => DostavaSeDrzi
BY PocetnoUzDatoteke, UvozOcuvan, PTL DEF SpecUvoz, DostavaSeDrzi, Promet!Spec

\* What a file says of itself is true (archive.go, zaIzvoz).
THEOREM DatotekaIstinitaOcuvana ==
    ASSUME MirnoBrisanje, RubNeIdeNatrag
    PROVE  SpecUvoz => []DatotekaIstinita
<1>1. IInvUvoz => DatotekaIstinita
  BY DEF IInvUvoz, UrednoDatoteke, DatotekeUredne, Istinito, DatotekaIstinita
<1> QED  BY <1>1, UvozUrednoStalno, PTL

\* The invariant of rupe.go while files are imported.
THEOREM RupaJeZapisanaUzUvoz ==
    ASSUME MirnoBrisanje, RubNeIdeNatrag
    PROVE  SpecUvoz => []RupaJeZapisana
<1>1. IInvUvoz => RupaJeZapisana  BY UrednoZapisano DEF IInvUvoz
<1> QED  BY <1>1, UvozUrednoStalno, PTL

\* What a sender says of its delta is true while files are imported: an import
\* widens the record of gaps in the middle of a talk, and the talk learns of it
\* (razgovor.go, jamstvoDelte).
THEOREM JamstvoDelteUzUvoz ==
    ASSUME MirnoBrisanje, RubNeIdeNatrag
    PROVE  SpecUvoz => []JamstvoDelteIstinito
<1>1. IInvUvoz => JamstvoDelteIstinito
  BY DEF IInvUvoz, IInv, Uredno, RazgovorUredan, DeltaUredna, Jamci, JamstvoDelteIstinito
<1> QED  BY <1>1, UvozUrednoStalno, PTL
-----------------------------------------------------------------------------
(* What an import passes over is asked for *)

\* What an import refused, its fence refuses; while that still holds, what it
\* will pass over and would keep the file did not vouch for; and when the
\* writing begins, the record asks for it.
UvozPotreban(n) ==
    LET u == uvozi[n]
        W == u.verzije
    IN
    /\ u.faza = "odluceno" => u.bacio \subseteq u.ograda.odbija
    /\ u.faza \in {"odluceno", "promjena"} =>
          u.ograda.narastaj <= ograda[n].narastaj /\ Narastajem(u.ograda, ograda[n])
    /\ u.faza = "promjena" /\ JosOdbija(u.ograda, ograda[n]) =>
          \A v \in Nema(n) \ (W \cup ograda[n].odbija) :
              v <= Granica(W) => v <= u.promjena.fs \/ v \in Clanovi(u.promjena.nesigurno)
    /\ u.faza \in {"serije", "upisano"} =>
          \A v \in Nema(n) \ W :
              /\ v <= Granica(W)
              /\ zapisano[n].ima /\ v \notin zapisano[n].odbija
              => v \in Clanovi(rupe[n].trazi)

IInvUvozPotrebno == IInvUvoz /\ Potrebno /\ \A n \in Cvor : UvozPotreban(n)

\* What an import passes over and the node keeps now is asked for.
LEMMA UvozTrazi ==
    ASSUME IInvUvozPotrebno, NEW n \in Cvor, uvozi[n].faza \in {"serije", "upisano"},
           NEW v \in Nema(n) \ uvozi[n].verzije, v <= Granica(uvozi[n].verzije),
           v \notin ograda[n].odbija
    PROVE  v \in Trazeno[n]
<1>1. /\ TypeOK /\ n \in Primatelji /\ v \in Zabiljezene(rupe[n]) /\ ZapisOdPocetka
  BY DEF IInvUvozPotrebno, IInvUvoz, IInv, Potrebno, UrednoDatoteke, UvozUredan
<1>2. zapisano[n].ima
  BY <1>1, BezRupaPrazno DEF ZapisOdPocetka
<1>3. CASE v \in zapisano[n].odbija
  BY <1>1, <1>2, <1>3 DEF Trazeno, Zabiljezene
<1>4. CASE v \notin zapisano[n].odbija
  BY <1>1, <1>2, <1>4 DEF IInvUvozPotrebno, UvozPotreban, Trazeno
<1> QED  BY <1>3, <1>4

\* A step leaves the record of n as it is, or asking for what is needed under
\* the rule it has now.
ZapisNeGubi(n) ==
    \/ rupe'[n] = rupe[n] /\ zapisano'[n] = zapisano[n]
    \/ zapisano'[n].odbija = ograda[n].odbija /\ ZapisTrazi(n, rupe'[n])

\* A rule that refuses less has a new generation.
PraviloRaste(n) ==
    JosOdbija(ograda[n], ograda'[n]) \/ ograda[n].narastaj < ograda'[n].narastaj

\* An import that does nothing keeps what it needs while others make steps.
LEMMA UvozOstajePotreban ==
    ASSUME IInvUvozPotrebno, TypeOK', AutorDodaje, NEW n \in Cvor, uvozi'[n] = uvozi[n],
           uvozi[n].faza # "nema" =>
               knjiga[n] \subseteq knjiga'[n] /\ PraviloRaste(n) /\ ZapisNeGubi(n)
    PROVE  UvozPotreban(n)'
<1> DEFINE u == uvozi[n]
           W == u.verzije
           K == knjiga[Autor]
           L == knjiga'[Autor]
<1>1. /\ TypeOK /\ UvozPotreban(n) /\ u \in UvozTip /\ ograda[n] \in Ograde
      /\ ograda'[n] \in Ograde
  BY DEF IInvUvozPotrebno, IInvUvoz, IInv, UrednoDatoteke, TipDatoteka, TypeOK
<1>2. /\ u.ograda.narastaj \in Nat /\ ograda[n].narastaj \in Nat
      /\ ograda'[n].narastaj \in Nat
  BY <1>1 DEF UvozTip, Ograde
<1> SUFFICES ASSUME u.faza # "nema"  PROVE UvozPotreban(n)'
  BY DEF UvozPotreban
<1>3. /\ W \subseteq K /\ K \in SUBSET Verzije /\ L \in SUBSET Verzije
      /\ knjiga[n] \subseteq knjiga'[n] /\ PraviloRaste(n) /\ ZapisNeGubi(n)
      /\ \A v \in L \ K : Granica(K) < v
  BY RazmjenaPretpostavka
     DEF IInvUvozPotrebno, IInvUvoz, IInv, TypeOK, UrednoDatoteke, UvozUredan, AutorDodaje
<1>4. /\ Granica(K) \in Nat /\ Granica(W) \in Nat /\ Granica(W) <= Granica(K)
      /\ \A v \in L : v \in Nat
  BY <1>3, GranicaBroj, GranicaUnije
<1>5. \A v \in Nema(n)' : v <= Granica(W) => v \in Nema(n)
  BY <1>3, <1>4 DEF Nema
<1>6. u.faza = "odluceno" => u.bacio \subseteq u.ograda.odbija
  BY <1>1 DEF UvozPotreban
<1>7. u.faza \in {"odluceno", "promjena"} =>
          u.ograda.narastaj <= ograda'[n].narastaj /\ Narastajem(u.ograda, ograda'[n])
  BY <1>1, <1>2, <1>3 DEF UvozPotreban, PraviloRaste, Narastajem, JosOdbija
<1>8. ASSUME u.faza = "promjena", JosOdbija(u.ograda, ograda'[n]),
             NEW v \in Nema(n)', v \notin W \cup ograda'[n].odbija, v <= Granica(W)
      PROVE  v <= u.promjena.fs \/ v \in Clanovi(u.promjena.nesigurno)
  <2>1. JosOdbija(u.ograda, ograda[n]) /\ ograda[n].odbija \subseteq ograda'[n].odbija
    BY <1>1, <1>2, <1>3, <1>8 DEF UvozPotreban, PraviloRaste, Narastajem, JosOdbija
  <2>2. v \in Nema(n)  BY <1>5, <1>8
  <2> QED  BY <1>1, <1>8, <2>1, <2>2 DEF UvozPotreban
<1>9. ASSUME u.faza \in {"serije", "upisano"},
             NEW v \in Nema(n)', v \notin W, v <= Granica(W),
             zapisano'[n].ima, v \notin zapisano'[n].odbija
      PROVE  v \in Clanovi(rupe'[n].trazi)
  <2>1. v \in Nema(n)  BY <1>5, <1>9
  <2>2. CASE rupe'[n] = rupe[n] /\ zapisano'[n] = zapisano[n]
    BY <1>1, <1>9, <2>1, <2>2 DEF UvozPotreban
  <2>3. CASE zapisano'[n].odbija = ograda[n].odbija /\ ZapisTrazi(n, rupe'[n])
    <3>1. v \in Trazeno[n]  BY <1>9, <2>1, <2>3, UvozTrazi
    <3> QED  BY <1>9, <2>1, <2>3, <3>1 DEF ZapisTrazi
  <2> QED  BY <1>3, <2>2, <2>3 DEF ZapisNeGubi
<1> HIDE DEF W
<1> QED  BY <1>6, <1>7, <1>8, <1>9 DEF UvozPotreban, W

\* Every step of the exchange that deletes nothing goes on asking for what is
\* needed (rupe_baza.go, uskladiPravilo).
LEMMA KorakNeGubi ==
    ASSUME RubNeIdeNatrag, IInvPotrebno, TypeOK', BezBrisanja, NEW c \in Cvor
    PROVE  PraviloRaste(c) /\ ZapisNeGubi(c)
<1>1. TypeOK /\ ZapisOdPocetka  BY DEF IInvPotrebno, IInv, Potrebno
<1>2. ASSUME NEW n \in Cvor, NEW novo, UNCHANGED ograda,
             PromijeniRupe(n, UskladjenoPravilo(n), novo), ZapisTrazi(n, novo)
      PROVE  PraviloRaste(c) /\ ZapisNeGubi(c)
  <2>1. /\ rupe'[n] = novo /\ zapisano'[n].odbija = ograda[n].odbija
        /\ c # n => rupe'[c] = rupe[c] /\ zapisano'[c] = zapisano[c]
    BY <1>1, <1>2, ZapisanoTrazeno
  <2> QED  BY <1>2, <2>1 DEF PraviloRaste, JosOdbija, ZapisNeGubi
<1>3. CASE UNCHANGED <<rupe, zapisano, ograda>>
  BY <1>3 DEF PraviloRaste, JosOdbija, ZapisNeGubi
<1>4. ASSUME NEW t \in Razgovori, ZapisiRupe(t)
      PROVE  PraviloRaste(c) /\ ZapisNeGubi(c)
  <2> DEFINE x == razg[t]
             p == UzOgradu(x)
  <2>1. x.r \in Cvor /\ p \in PromjeneKljuca /\ UNCHANGED ograda
    BY <1>1, <1>4, UzOgraduTip, RazgovorBrojevi, DijeloviTip DEF ZapisiRupe, postavke, UpisTip
  <2>2. \/ UNCHANGED <<rupe, zapisano>>
        \/ PromijeniRupe(x.r, UskladjenoPravilo(x.r), Prosiri(p, UskladjenoPravilo(x.r)))
    BY <1>4 DEF ZapisiRupe
  <2> HIDE DEF p, x
  <2>3. ZapisTrazi(x.r, Prosiri(p, UskladjenoPravilo(x.r)))  BY <1>1, <2>1, ProsirenTrazi
  <2> QED  BY <1>2, <1>3, <2>1, <2>2, <2>3
<1>5. ASSUME NEW t \in Razgovori, SuziRupe(t)
      PROVE  PraviloRaste(c) /\ ZapisNeGubi(c)
  <2> DEFINE x == razg[t]
             novo == Suzi(UzOgradu(x), UskladjenoPravilo(x.r))
  <2>1. x.r \in Cvor /\ UNCHANGED ograda /\ x.faza = "upisano"
    BY <1>1, <1>5, RazgovorBrojevi DEF SuziRupe, postavke
  <2>2. ZapisTrazi(x.r, novo)  BY <2>1, SuzenTrazi
  <2>3. \/ UNCHANGED <<rupe, zapisano>>
        \/ PromijeniRupe(x.r, UskladjenoPravilo(x.r), novo)
    BY <1>5 DEF SuziRupe
  <2> HIDE DEF novo, x
  <2> QED  BY <1>2, <1>3, <2>1, <2>2, <2>3
<1>6. ASSUME NEW n \in Primatelji, PripremiRupe(n)
      PROVE  PraviloRaste(c) /\ ZapisNeGubi(c)
  <2>1. n \in Cvor  BY DEF Primatelji
  <2>2. ZapisTrazi(n, UskladjenoPravilo(n))  BY <1>1, <2>1, UskladjenoTrazi DEF ZapisTrazi
  <2>3. PromijeniRupe(n, UskladjenoPravilo(n), UskladjenoPravilo(n)) /\ UNCHANGED ograda
    BY <1>6 DEF PripremiRupe, postavke
  <2> QED  BY <1>2, <2>1, <2>2, <2>3
<1>7. ASSUME NEW n \in Podesivi, PromijeniPravilo(n) \/ PomakniRub(n)
      PROVE  PraviloRaste(c) /\ ZapisNeGubi(c)
  <2>1. UNCHANGED <<rupe, zapisano>>  BY <1>7 DEF PromijeniPravilo, PomakniRub, trajno
  <2>2. n \in Cvor  BY RazmjenaPretpostavka DEF Primatelji
  <2> QED
    BY <1>1, <1>7, <2>1, <2>2, PromjenaPravilaRaste DEF PraviloRaste, JosOdbija, ZapisNeGubi
<1>8. ~(\E n \in Podesivi : VratiRub(n))  BY DEF VratiRub, Smetnja, RubNeIdeNatrag
<1>9. ASSUME NEW t \in Razgovori,
             \/ \E v \in Veze : Zapocni(t, v[1], v[2])
             \/ Korak(t) \/ BravaNijeStigla(t) \/ Prekid(t) \/ UpisPao(t)
      PROVE  PraviloRaste(c) /\ ZapisNeGubi(c)
  <2>1. CASE \/ \E v \in Veze : Zapocni(t, v[1], v[2])
             \/ GranicaPosiljatelja(t) \/ RupePosiljatelja(t)
             \/ GranicaPrimatelja(t) \/ NePrati(t) \/ RupePrimatelja(t)
             \/ SloziDeltu(t) \/ Odluci(t) \/ UpisiVerzije(t)
    BY <1>3, <2>1 DEF Zapocni, GranicaPosiljatelja, RupePosiljatelja, GranicaPrimatelja,
       NePrati, RupePrimatelja, SloziDeltu, Odluci, UpisiVerzije, trajno, postavke
  <2>2. CASE \/ ZapamtiOdbijene(t) \/ ZapamtiUvoz(t)
             \/ BravaNijeStigla(t) \/ Prekid(t) \/ UpisPao(t)
    BY <1>3, <2>2 DEF ZapamtiOdbijene, ZapamtiUvoz, BravaNijeStigla, Prekid, UpisPao,
       trajno, postavke
  <2> QED  BY <1>4, <1>5, <1>9, <2>1, <2>2 DEF Korak
<1>10. CASE Napisi  BY <1>3, <1>10 DEF Napisi, postavke
<1>11. ASSUME NEW n, PromijeniPretplatu(n) \/ PonovnoPokreni(n) \/ \E s \in Cvor : Istekne(n, s)
       PROVE  PraviloRaste(c) /\ ZapisNeGubi(c)
  BY <1>3, <1>11 DEF PromijeniPretplatu, PonovnoPokreni, Istekne, trajno, postavke
<1> QED  BY <1>6, <1>7, <1>8, <1>9, <1>10, <1>11 DEF BezBrisanja

\* A step of an import keeps what is needed, when it does so of the exchange and
\* of the import.
LEMMA UvozIdePotreban ==
    ASSUME IInvUvozPotrebno, IInvUvoz', Potrebno', AutorDodaje, UNCHANGED ograda,
           NEW n \in Cvor, UvozPotreban(n)',
           \A c \in Cvor : c # n => uvozi'[c] = uvozi[c],
           \A c \in Cvor : knjiga[c] \subseteq knjiga'[c] /\ ZapisNeGubi(c)
    PROVE  IInvUvozPotrebno'
<1>1. TypeOK'  BY DEF IInvUvoz, IInv
<1>2. ASSUME NEW c \in Cvor, c # n  PROVE UvozPotreban(c)'
  BY <1>1, <1>2, UvozOstajePotreban DEF PraviloRaste, JosOdbija
<1> QED  BY <1>2 DEF IInvUvozPotrebno

\* What a file brings, and what the node decides about it. Of a package it
\* refuses what its fence refuses (zaUvoz).
LEMMA OdlucenPotreban ==
    ASSUME MirnoBrisanje, RubNeIdeNatrag, IInvUvozPotrebno, IInvUvoz', NEW n \in Uvoznici,
           \/ \E d \in datoteke, vrsta \in Vrste : PocniUvoz(n, d, vrsta)
           \/ GranicaUvoza(n)
           \/ UvozPao(n)
    PROVE  IInvUvozPotrebno'
<1> DEFINE u == uvozi[n]
<1>1. /\ TypeOK /\ TypeOK' /\ TipDatoteka /\ UvozUredan(n) /\ UvozPotreban(n)
      /\ IInvPotrebno /\ n \in Cvor /\ u \in UvozTip /\ ograda[n] \in Ograde
  BY UvozPretpostavka DEF IInvUvozPotrebno, IInvPotrebno, IInvUvoz, IInv, UrednoDatoteke,
     TipDatoteka, Primatelji, TypeOK
<1>2. UNCHANGED vars  BY DEF PocniUvoz, GranicaUvoza, UvozPao
<1>3. UNCHANGED <<knjiga, rupe, zapisano, ograda>>  BY <1>2 DEF vars
<1>4. Potrebno'  BY <1>1, <1>2, KorakPotrebno
<1>5. AutorDodaje /\ \A c \in Cvor : knjiga[c] \subseteq knjiga'[c] /\ ZapisNeGubi(c)
  BY <1>3 DEF AutorDodaje, ZapisNeGubi
<1>6. ASSUME NEW novi, NastaviUvoz(n, novi)
      PROVE  uvozi'[n] = novi /\ \A c \in Cvor : c # n => uvozi'[c] = uvozi[c]
  BY <1>1, <1>6 DEF NastaviUvoz, TipDatoteka
<1>7. ASSUME UvozPotreban(n)', NEW novi, NastaviUvoz(n, novi)  PROVE IInvUvozPotrebno'
  BY <1>3, <1>4, <1>5, <1>6, <1>7, <1>1, UvozIdePotreban
<1>8. ASSUME NEW d \in datoteke, NEW vrsta \in Vrste, PocniUvoz(n, d, vrsta)
      PROVE  IInvUvozPotrebno'
  <2> DEFINE bacio == IF vrsta = "paket" THEN d.verzije \cap ograda[n].odbija ELSE {}
             novi == [NemaUvoza EXCEPT !.faza = "odluceno", !.verzije = d.verzije \ bacio,
                                       !.bacio = bacio, !.rupe = d.rupe, !.ograda = ograda[n]]
  <2>1. NastaviUvoz(n, novi)  BY <1>8 DEF PocniUvoz
  <2>2. bacio \subseteq ograda[n].odbija  OBVIOUS
  <2> HIDE DEF bacio
  <2>3. novi.faza = "odluceno" /\ novi.bacio = bacio /\ novi.ograda = ograda[n]
    BY DEF NemaUvoza
  <2> HIDE DEF novi
  <2>4. uvozi'[n] = novi  BY <1>6, <2>1
  <2>5. ograda[n].narastaj <= ograda[n].narastaj /\ Narastajem(ograda[n], ograda[n])
    BY <1>1 DEF Ograde, Narastajem, JosOdbija
  <2>6. UvozPotreban(n)'  BY <1>3, <2>2, <2>3, <2>4, <2>5 DEF UvozPotreban
  <2> QED  BY <1>7, <2>1, <2>6
<1>9. ASSUME GranicaUvoza(n)  PROVE IInvUvozPotrebno'
  <2> DEFINE q == PromjenaUvoza(n, Granica(knjiga[n]))
             novi == [u EXCEPT !.faza = "promjena", !.bacio = {}, !.rupe = Prazno,
                               !.promjena = q]
  <2>1. NastaviUvoz(n, novi) /\ u.faza = "odluceno"  BY <1>9 DEF GranicaUvoza
  <2>2. q.nesigurno = u.rupe  BY DEF PromjenaUvoza, PraznaPromjena
  <2> HIDE DEF q
  <2>3. /\ novi.faza = "promjena" /\ novi.verzije = u.verzije /\ novi.ograda = u.ograda
        /\ novi.promjena = q
    BY <1>1 DEF UvozTip
  <2> HIDE DEF novi
  <2>4. uvozi'[n] = novi  BY <1>6, <2>1
  <2>5. /\ u.bacio \subseteq u.ograda.odbija /\ u.ograda.narastaj <= ograda[n].narastaj
        /\ Narastajem(u.ograda, ograda[n])
        /\ Istinito(knjiga[Autor], u.verzije, u.bacio \cup Clanovi(u.rupe))
    BY <1>1, <2>1 DEF UvozPotreban, UvozUredan
  <2>6. ASSUME JosOdbija(u.ograda, ograda[n]),
               NEW v \in Nema(n) \ (u.verzije \cup ograda[n].odbija), v <= Granica(u.verzije)
        PROVE  v \in Clanovi(q.nesigurno)
    BY <2>2, <2>5, <2>6 DEF Istinito, Nema, JosOdbija
  <2> HIDE DEF u
  <2>7. UvozPotreban(n)'  BY <1>3, <2>3, <2>4, <2>5, <2>6 DEF UvozPotreban, Nema
  <2> QED  BY <1>7, <2>1, <2>7
<1>10. ASSUME UvozPao(n)  PROVE IInvUvozPotrebno'
  <2>1. NastaviUvoz(n, NemaUvoza)  BY <1>10 DEF UvozPao
  <2>2. uvozi'[n].faza = "nema"  BY <1>6, <2>1 DEF NemaUvoza
  <2> QED  BY <1>7, <2>1, <2>2 DEF UvozPotreban
<1> QED  BY <1>8, <1>9, <1>10

\* The record is widened: of what the import passes over and the rule keeps, the
\* file did not vouch for it, or the fence gave way and all that was refused is
\* asked for (rupe_uvoz.go, uzOgradu).
LEMMA RupeUvozaPotrebne ==
    ASSUME IInvUvozPotrebno, IInvUvoz', NEW n \in Uvoznici, RupeUvoza(n)
    PROVE  IInvUvozPotrebno'
<1> DEFINE u == uvozi[n]
           K == knjiga[Autor]
           S == knjiga[n]
           W == u.verzije
           staro == UskladjenoPravilo(n)
           x == [r |-> n, prima |-> u, upis |-> u]
           p == UzOgradu(x)
           m == [u EXCEPT !.promjena = PraznaPromjena, !.ograda = BezOgrade]
           novi == DalijeUvozi(m)
<1>1. /\ TypeOK /\ TypeOK' /\ Zakljucano /\ UvozUredan(n) /\ UvozPotreban(n) /\ IInvPotrebno
      /\ PotrebnoSeTrazi /\ ZapisOdPocetka /\ n \in Primatelji /\ n \in Cvor
      /\ u \in UvozTip /\ TipDatoteka
  BY UvozPretpostavka DEF IInvUvozPotrebno, IInvPotrebno, IInvUvoz, IInv, Potrebno,
     UrednoDatoteke, TipDatoteka, Primatelji
<1>2. /\ u.faza = "promjena" /\ brava[n] = Slobodna
      /\ IF Ima(u, Prazno) THEN PromijeniRupe(n, staro, Prosiri(p, staro))
         ELSE UNCHANGED <<rupe, zapisano, rastRupa>>
      /\ NastaviUvoz(n, novi) /\ UNCHANGED <<knjiga, ograda, odbijeneOd, razg>>
  BY DEF RupeUvoza, postavke, pamcenje
<1>3. /\ u.promjena \in PromjeneKljuca /\ W \in SUBSET Verzije
      /\ Obuhvaca(u.promjena, S, W) /\ u.promjena.fs <= Granica(S)
      /\ u.promjena.redovno = Prazno /\ u.promjena.popuna = Prazno
  BY <1>1, <1>2 DEF UvozTip, UvozUredan
<1>4. /\ S \in SUBSET Verzije /\ Granica(S) \in Nat /\ u.promjena.fs \in Nat
      /\ \A v \in Nema(n) : v \in Nat
  <2>1. K \in SUBSET Verzije /\ S \in SUBSET Verzije  BY <1>1, KnjigaTip
  <2>2. u.promjena.fs \in Nat  BY <1>3, BeskrajPretpostavka DEF PromjeneKljuca, Oznake
  <2> QED  BY <2>1, <2>2, GranicaBroj DEF Nema
<1>5. m \in UvozTip /\ m.verzije = W
  BY <1>1, SlobodanTip DEF UvozTip
<1> HIDE DEF m
<1>6. novi.faza = "nema" \/ (novi.faza = "serije" /\ novi.verzije = W)
  BY <1>5, DaljeTip
<1> HIDE DEF novi
<1>7. uvozi'[n] = novi /\ \A c \in Cvor : c # n => uvozi'[c] = uvozi[c]
  BY <1>1, <1>2 DEF NastaviUvoz, TipDatoteka
<1>8. x.upis.promjena = u.promjena /\ x.r = n /\ x.prima.ograda = u.ograda  OBVIOUS
<1> HIDE DEF x
<1>9. /\ p \in PromjeneKljuca /\ Obuhvaca(p, S, W) /\ p.fs = u.promjena.fs
      /\ p.nesigurno = u.promjena.nesigurno
      /\ \/ Clanovi(p.odbijeno) = {}
         \/ JosOdbija(u.ograda, ograda[n])
  BY <1>3, <1>8, UzOgraduTip, UzOgraduObuhvaca, UzOgraduIsto
<1> HIDE DEF p
<1>10. \A t \in Razgovori :
          IstiRazgovor(t) /\ (razg[t].faza \in PodBravom => razg[t].r # n)
  BY <1>1, <1>2, BravaJedina DEF IstiRazgovor
<1>11. AutorDodaje /\ \A c \in Cvor : knjiga[c] \subseteq knjiga'[c]
  BY <1>2 DEF AutorDodaje
<1>12. TrazenoDo(n, Granica(S))  BY <1>1, GranicaTrazena
\* What the import passes over and the rule keeps lies below the frontier, or
\* the change names it.
<1>13. ASSUME NEW v \in Nema(n) \ W, v <= Granica(W), v \notin ograda[n].odbija
       PROVE  \/ v <= Granica(S)
              \/ v \in Clanovi(p.uTrazi)
              \/ v \in Clanovi(p.nesigurno) /\ p.fs < v
  <2>1. CASE v <= p.fs  BY <1>3, <1>4, <1>9, <2>1
  <2>2. CASE p.fs < v
    <3>1. v \in Clanovi(p.odbijeno) \cup Clanovi(p.uTrazi) \cup Clanovi(p.nesigurno)
      BY <1>9, <1>13, <2>2 DEF Obuhvaca, Nema
    <3>2. v \in Clanovi(p.odbijeno) => v \in Clanovi(p.nesigurno)
      BY <1>1, <1>2, <1>4, <1>9, <1>13, <2>2 DEF UvozPotreban
    <3> QED  BY <2>2, <3>1, <3>2
  <2> QED  BY <1>4, <1>9, <1>13, <2>1, <2>2
<1> HIDE DEF u, W
<1>14. ASSUME \A v \in Nema(n) \ W : v <= Granica(W) /\ zapisano'[n].ima
                                     /\ v \notin zapisano'[n].odbija
                                     => v \in Clanovi(rupe'[n].trazi)
       PROVE  UvozPotreban(n)'
  BY <1>2, <1>6, <1>7, <1>14 DEF UvozPotreban, Nema
<1>15. CASE Ima(u, Prazno)
  <2> DEFINE novo == Prosiri(p, staro)
  <2>1. PromijeniRupe(n, staro, novo)  BY <1>2, <1>15
  <2>2. /\ Clanovi(p.uTrazi) \subseteq Clanovi(novo.trazi)
        /\ \A v \in Clanovi(p.nesigurno) : p.fs < v => v \in Clanovi(novo.trazi)
        /\ ZapisTrazi(n, novo)
    BY <1>1, <1>9, ProsirenZapis, ProsirenTrazi
  <2> HIDE DEF novo, staro
  <2>3. PromijeniRupe(n, UskladjenoPravilo(n), novo)  BY <2>1 DEF staro
  <2>4. /\ rupe'[n] = novo /\ zapisano'[n].odbija = ograda[n].odbija
        /\ \A c \in Cvor : c # n => rupe'[c] = rupe[c] /\ zapisano'[c] = zapisano[c]
    BY <1>1, <1>2, <2>3, ZapisanoTrazeno
  <2>5. \A c \in Cvor : ZapisNeGubi(c)  BY <2>2, <2>4 DEF ZapisNeGubi
  <2>6. Potrebno'  BY <1>1, <1>2, <1>10, <2>2, <2>3, ZapisPotreban
  <2>7. ASSUME NEW v \in Nema(n) \ W, v <= Granica(W), v \notin zapisano'[n].odbija
        PROVE  v \in Clanovi(rupe'[n].trazi)
    <3>1. CASE v <= Granica(S)
      BY <1>12, <2>2, <2>4, <2>7, <3>1 DEF TrazenoDo, ZapisTrazi
    <3> QED  BY <1>13, <2>2, <2>4, <2>7, <3>1
  <2>8. UvozPotreban(n)'  BY <1>14, <2>7
  <2> QED  BY <1>1, <1>2, <1>7, <1>11, <2>5, <2>6, <2>8, UvozIdePotreban
<1>16. CASE ~Ima(u, Prazno)
  <2>1. UNCHANGED <<rupe, zapisano>>  BY <1>2, <1>16
  <2>2. /\ Prazan(u.promjena.odbijeno) /\ Prazan(u.promjena.uTrazi)
        /\ Prazan(Nedostaje(u.promjena, Prazno))
    BY <1>16 DEF Ima, MijenjaTrazi
  <2>3. \A a \in Rasponi : Prazan(a) => Clanovi(a) = {}
    BY BeskrajPretpostavka DEF Prazan, Clanovi, Rasponi, Oznake
  <2>4. /\ Clanovi(u.promjena.odbijeno) = {} /\ Clanovi(u.promjena.uTrazi) = {}
        /\ \A v \in Clanovi(u.promjena.nesigurno) : ~(u.promjena.fs < v)
    <3>1. Prazno \in Rasponi  BY OznakeTip
    <3>2. u.promjena.odbijeno \in Rasponi /\ u.promjena.uTrazi \in Rasponi
      BY <1>3 DEF PromjeneKljuca
    <3> QED  BY <1>3, <2>2, <2>3, <3>1, <3>2, NedostajeSve
  <2>5. Clanovi(Prazno) = {}
    BY BeskrajPretpostavka DEF Clanovi, Prazno, Raspon, Oznake
  <2>6. ASSUME NEW v \in Nema(n) \ W, v <= Granica(W)  PROVE v <= Granica(S)
    <3>1. ~(u.promjena.fs < v)
      BY <1>3, <2>4, <2>6 DEF Obuhvaca, Nema
    <3> QED  BY <1>3, <1>4, <2>6, <3>1
  <2>7. UvozPotreban(n)'
    BY <1>1, <1>14, <2>1, <2>6 DEF PotrebnoSeTrazi
  <2>8. \A c \in Cvor : ZapisNeGubi(c)  BY <2>1 DEF ZapisNeGubi
  <2>9. \A c, s \in Cvor : OdbijeneIste(c, s)  BY <1>2 DEF OdbijeneIste
  <2>10. Potrebno'  BY <1>1, <1>2, <1>10, <2>1, <2>9, TihoPotrebno
  <2> QED  BY <1>1, <1>2, <1>7, <1>11, <2>7, <2>8, <2>10, UvozIdePotreban
<1> QED  BY <1>15, <1>16
\* A batch enters the ledger: what it passes over and the rule keeps is asked
\* for already.
LEMMA SerijaPotrebna ==
    ASSUME IInvUvozPotrebno, IInvUvoz', NEW n \in Uvoznici, UpisiSeriju(n)
    PROVE  IInvUvozPotrebno'
<1> DEFINE u == uvozi[n]
           K == knjiga[Autor]
           S == knjiga[n]
           W == u.verzije
           V == PrvihOd(u.verzije, Serija)
           svjeze == ~(V \subseteq S)
           novi == [u EXCEPT !.faza = "upisano", !.verzije = @ \ V, !.novo = svjeze]
<1>1. /\ TypeOK /\ TypeOK' /\ Zakljucano /\ UvozUredan(n) /\ UvozPotreban(n) /\ IInvPotrebno
      /\ PotrebnoSeTrazi /\ ZapisOdPocetka /\ n \in Primatelji /\ n \in Cvor /\ n # Autor
      /\ Autor \in Cvor /\ u \in UvozTip /\ TipDatoteka
  BY UvozPretpostavka, RazmjenaPretpostavka
     DEF IInvUvozPotrebno, IInvPotrebno, IInvUvoz, IInv, Potrebno, UrednoDatoteke,
     TipDatoteka, Primatelji
<1>2. /\ u.faza = "serije" /\ brava[n] = Slobodna
      /\ knjiga' = [knjiga EXCEPT ![n] = @ \cup V] /\ NastaviUvoz(n, novi)
      /\ UNCHANGED <<rupe, zapisano, ograda, odbijeneOd, razg>>
  BY DEF UpisiSeriju, postavke, pamcenje
<1>3. W \subseteq K /\ W \in SUBSET Verzije /\ K \in SUBSET Verzije /\ S \in SUBSET Verzije
  BY <1>1, <1>2, KnjigaTip DEF UvozUredan, UvozTip
<1>4. PocetakOd(V, W)
  <2>1. Serija \in Nat  BY UvozPretpostavka
  <2> QED  BY <1>3, <2>1, PrvihJePocetak
<1> HIDE DEF V
<1>5. V \subseteq W /\ V \in SUBSET Verzije  BY <1>3, <1>4 DEF PocetakOd
<1>6. /\ Granica(S) \in Nat /\ Granica(V) \in Nat /\ Granica(W) \in Nat
      /\ Granica(S \cup V) \in Nat /\ Granica(W \ V) \in Nat
      /\ Granica(S \cup V) <= Granica(S) \/ Granica(S \cup V) <= Granica(V)
      /\ Granica(V) <= Granica(W) /\ Granica(W \ V) <= Granica(W)
      /\ Granica(V) # 0 => Granica(V) \in V
      /\ \A v \in K : v \in Nat /\ 0 < v
  <2>1. S \cup V \in SUBSET Verzije /\ W \ V \in SUBSET Verzije /\ W \ V \subseteq W
    BY <1>3, <1>5
  <2> QED  BY <1>3, <1>5, <2>1, GranicaBroj, GranicaUnije
<1> HIDE DEF svjeze
<1>7. novi.faza = "upisano" /\ novi.verzije = W \ V  BY <1>1 DEF UvozTip
<1> HIDE DEF novi
<1>8. /\ knjiga'[n] = S \cup V /\ \A c \in Cvor : c # n => knjiga'[c] = knjiga[c]
      /\ uvozi'[n] = novi /\ \A c \in Cvor : c # n => uvozi'[c] = uvozi[c]
  BY <1>1, <1>2 DEF TypeOK, NastaviUvoz, TipDatoteka
<1> HIDE DEF u, W, S
<1>9. AutorDodaje /\ \A c \in Cvor : knjiga[c] \subseteq knjiga'[c] /\ ZapisNeGubi(c)
  BY <1>1, <1>2, <1>8 DEF AutorDodaje, ZapisNeGubi, S
<1>10. OkolinaStoji
  <2>1. \A c \in Cvor : Trazeno'[c] = Trazeno[c]  BY <1>2, IstoTrazeno
  <2> QED  BY <1>2, <1>9, <2>1 DEF OkolinaStoji, TrazenoOstaje, JosOdbija
<1>11. ASSUME NEW v \in Nema(n) \ V, v <= Granica(S \cup V),
              zapisano[n].ima, v \notin zapisano[n].odbija
       PROVE  v \in Clanovi(rupe[n].trazi)
  <2>1. v \in K /\ v \in Nat /\ 0 < v  BY <1>6 DEF Nema
  <2>2. CASE v <= Granica(S)  BY <1>1, <1>11, <2>2 DEF PotrebnoSeTrazi, S
  <2>3. CASE v <= Granica(V)
    <3>1. Granica(V) \in V  BY <1>6, <2>1, <2>3
    <3>2. v \notin W  BY <1>4, <1>11, <2>3, <3>1 DEF PocetakOd
    <3>3. v <= Granica(W)  BY <1>6, <2>1, <2>3
    <3> QED  BY <1>1, <1>2, <1>11, <3>2, <3>3 DEF UvozPotreban, u, W
  <2> QED  BY <1>6, <1>11, <2>1, <2>2, <2>3
<1>12. PotrebnoSeTrazi'
  <2> SUFFICES ASSUME NEW c \in Primatelji, NEW v \in Nema(c)', v <= Granica(knjiga'[c]),
                      zapisano'[c].ima, v \notin zapisano'[c].odbija
               PROVE  v \in Clanovi(rupe'[c].trazi)
    BY DEF PotrebnoSeTrazi
  <2>1. c \in Cvor  BY DEF Primatelji
  <2>2. knjiga'[Autor] = K  BY <1>1, <1>8
  <2>3. CASE c = n
    <3>1. v \in Nema(n) \ V /\ v <= Granica(S \cup V)
      BY <1>8, <2>2, <2>3 DEF Nema, S
    <3> QED  BY <1>2, <1>11, <2>3, <3>1
  <2>4. CASE c # n
    <3>1. v \in Nema(c) /\ v <= Granica(knjiga[c])  BY <1>8, <2>1, <2>2, <2>4 DEF Nema
    <3> QED  BY <1>1, <1>2, <3>1 DEF PotrebnoSeTrazi
  <2> QED  BY <2>3, <2>4
<1>13. ZapisOdPocetka'  BY <1>1, <1>2 DEF ZapisOdPocetka
<1>14. \A c, s \in Cvor : OdbijeneIste(c, s)  BY <1>2 DEF OdbijeneIste
<1>15. ASSUME NEW t \in Razgovori
       PROVE  /\ IstiRazgovor(t)
              /\ razg[t].faza \in PodBravom =>
                    LET r == razg[t].r IN
                    rupe'[r] = rupe[r] /\ zapisano'[r] = zapisano[r] /\ knjiga'[r] = knjiga[r]
  <2>1. razg[t].r \in Cvor  BY <1>1, RazgovorBrojevi
  <2>2. razg[t].faza \in PodBravom => razg[t].r # n  BY <1>1, <1>2, BravaJedina
  <2> QED  BY <1>2, <1>8, <2>1, <2>2 DEF IstiRazgovor
<1>16. Potrebno'  BY <1>1, <1>10, <1>12, <1>13, <1>14, <1>15, KorakPotreban
<1>17. UvozPotreban(n)'
  <2>1. knjiga'[Autor] = K  BY <1>1, <1>8
  <2>2. ASSUME NEW v \in (K \ (S \cup V)) \ (W \ V), v <= Granica(W \ V),
               zapisano[n].ima, v \notin zapisano[n].odbija
        PROVE  v \in Clanovi(rupe[n].trazi)
    <3>1. v \in Nema(n) \ W /\ v \in Nat  BY <1>6, <2>2 DEF Nema, S
    <3>2. v <= Granica(W)  BY <1>6, <2>2, <3>1
    <3> QED  BY <1>1, <1>2, <2>2, <3>1, <3>2 DEF UvozPotreban, u, W
  <2> QED  BY <1>2, <1>7, <1>8, <2>1, <2>2 DEF UvozPotreban, Nema
<1> QED  BY <1>1, <1>2, <1>8, <1>9, <1>16, <1>17, UvozIdePotreban

\* A batch is counted, and the lock let go: what is left to write still passes
\* over nothing that is not asked for.
LEMMA ZabiljezenaSerijaPotrebna ==
    ASSUME IInvUvozPotrebno, IInvUvoz', NEW n \in Uvoznici, ZabiljeziSeriju(n)
    PROVE  IInvUvozPotrebno'
<1> DEFINE u == uvozi[n]
           m == [u EXCEPT !.novo = FALSE]
           novi == DalijeUvozi(m)
<1>1. /\ TypeOK' /\ UvozPotreban(n) /\ IInvPotrebno /\ n \in Cvor /\ u \in UvozTip
      /\ TipDatoteka
  BY UvozPretpostavka DEF IInvUvozPotrebno, IInvPotrebno, IInvUvoz, IInv, UrednoDatoteke,
     TipDatoteka, Primatelji
<1>2. /\ u.faza = "upisano" /\ NastaviUvoz(n, novi)
      /\ UNCHANGED <<knjiga, rupe, zapisano, ograda, odbijeneOd, razg>>
  BY DEF ZabiljeziSeriju, UvozPodBravom, trajno, postavke
<1>3. m \in UvozTip /\ m.verzije = u.verzije  BY <1>1 DEF UvozTip
<1> HIDE DEF m
<1>4. novi.faza = "nema" \/ (novi.faza = "serije" /\ novi.verzije = u.verzije)
  BY <1>3, DaljeTip
<1> HIDE DEF novi
<1>5. uvozi'[n] = novi /\ \A c \in Cvor : c # n => uvozi'[c] = uvozi[c]
  BY <1>1, <1>2 DEF NastaviUvoz, TipDatoteka
<1>6. UvozPotreban(n)'  BY <1>1, <1>2, <1>4, <1>5 DEF UvozPotreban, Nema
<1>7. AutorDodaje /\ \A c \in Cvor : knjiga[c] \subseteq knjiga'[c] /\ ZapisNeGubi(c)
  BY <1>2 DEF AutorDodaje, ZapisNeGubi
<1>8. /\ \A c, s \in Cvor : OdbijeneIste(c, s)
      /\ \A t \in Razgovori : IstiRazgovor(t)
  BY <1>2 DEF OdbijeneIste, IstiRazgovor
<1>9. Potrebno'  BY <1>1, <1>2, <1>8, TihoPotrebno
<1> QED  BY <1>1, <1>2, <1>5, <1>6, <1>7, <1>9, UvozIdePotreban

\* The exchange beside files: a talk that gives up the lock to an import, a
\* deletion, a stop and every other step.
LEMMA RazmjenaUzDatotekePotrebna ==
    ASSUME MirnoBrisanje, RubNeIdeNatrag, IInvUvozPotrebno, IInvUvoz',
           \/ KorakRazmjene
           \/ \E t \in Razgovori : BravuDrziUvoz(t)
           \/ \E n \in Podesivi : ObrisiKanalIzmedjuUvoza(n)
           \/ \E n \in Primatelji : PonovnoPokreniSve(n)
    PROVE  IInvUvozPotrebno'
<1>1. /\ IInv /\ TypeOK /\ TypeOK' /\ IInvPotrebno /\ TipDatoteka /\ Autor \in Cvor
      /\ \A n \in Cvor : UvozUredan(n) /\ UvozPotreban(n)
  BY RazmjenaPretpostavka
     DEF IInvUvozPotrebno, IInvPotrebno, IInvUvoz, IInv, UrednoDatoteke
<1>2. CASE KorakRazmjene
  <2>1. BezBrisanja /\ [Next]_vars /\ uvozi' = uvozi
    BY <1>2 DEF KorakRazmjene, BezBrisanja, Next
  <2>2. Potrebno'  BY <1>1, <2>1, KorakPotrebno
  <2>3. PrometBezBrisanja  BY <1>1, <2>1, KorakBezBrisanja
  <2>4. AutorDodaje /\ \A n \in Primatelji : knjiga[n] \subseteq knjiga'[n]
    BY <1>1, <2>3, PrometCuva
  <2>5. ASSUME NEW n \in Cvor  PROVE UvozPotreban(n)'
    <3>1. PraviloRaste(n) /\ ZapisNeGubi(n)  BY <1>1, <2>1, KorakNeGubi
    <3>2. uvozi[n].faza # "nema" => knjiga[n] \subseteq knjiga'[n]
      BY <1>1, <2>4 DEF UvozUredan
    <3> QED  BY <1>1, <2>1, <2>4, <3>1, <3>2, UvozOstajePotreban
  <2> QED  BY <2>2, <2>5 DEF IInvUvozPotrebno
<1>3. ASSUME NEW t \in Razgovori, BravuDrziUvoz(t)  PROVE IInvUvozPotrebno'
  <2>1. /\ Zavrsi({t}) /\ uvozi' = uvozi
        /\ UNCHANGED <<knjiga, rupe, zapisano, ograda, odbijeneOd>>
    BY <1>3 DEF BravuDrziUvoz, trajno, postavke, pamcenje, varsDatoteka
  <2>2. razg'[t] = Slobodan /\ \A w \in Razgovori : w # t => razg'[w] = razg[w]
    BY <2>1 DEF Zavrsi
  <2>3. RazgovorPotreban(t)'  BY <2>2, SlobodanPotreban
  <2>4. /\ \A w \in Razgovori : RazgovorPotreban(w)' \/ IstiRazgovor(w)
        /\ \A c, s \in Cvor : OdbijeneIste(c, s)
    BY <2>1, <2>2, <2>3 DEF IstiRazgovor, OdbijeneIste
  <2>5. Potrebno'  BY <1>1, <2>1, <2>4, TihoPotrebno
  <2>6. /\ AutorDodaje
        /\ \A n \in Cvor : knjiga[n] \subseteq knjiga'[n] /\ PraviloRaste(n) /\ ZapisNeGubi(n)
    BY <2>1 DEF AutorDodaje, PraviloRaste, JosOdbija, ZapisNeGubi
  <2>7. \A n \in Cvor : UvozPotreban(n)'  BY <1>1, <2>1, <2>6, UvozOstajePotreban
  <2> QED  BY <2>5, <2>7 DEF IInvUvozPotrebno
<1>4. ASSUME NEW n \in Podesivi, ObrisiKanalIzmedjuUvoza(n)  PROVE IInvUvozPotrebno'
  <2>1. n \in Cvor /\ n # Autor  BY RazmjenaPretpostavka DEF Primatelji
  <2>2. ObrisiKanal(n) /\ uvozi' = uvozi /\ uvozi[n].faza = "nema"
    BY <1>4 DEF ObrisiKanalIzmedjuUvoza, varsDatoteka, MirnoBrisanje
  <2>3. [Next]_vars  BY <2>2 DEF Next
  <2>4. Potrebno'  BY <1>1, <2>3, KorakPotrebno
  <2>5. /\ knjiga' = [knjiga EXCEPT ![n] = {}] /\ rupe' = [rupe EXCEPT ![n] = BezRupa]
        /\ UNCHANGED <<zapisano, ograda>>
    BY <2>2 DEF ObrisiKanal, postavke
  <2>6. \A c \in Cvor : c # n => knjiga'[c] = knjiga[c] /\ rupe'[c] = rupe[c]
    BY <1>1, <2>5 DEF TypeOK
  <2>7. AutorDodaje  BY <1>1, <2>1, <2>6 DEF AutorDodaje
  <2>8. ASSUME NEW c \in Cvor  PROVE UvozPotreban(c)'
    <3>1. uvozi[c].faza # "nema" =>
              knjiga[c] \subseteq knjiga'[c] /\ PraviloRaste(c) /\ ZapisNeGubi(c)
      BY <2>2, <2>5, <2>6 DEF PraviloRaste, JosOdbija, ZapisNeGubi
    <3> QED  BY <1>1, <2>2, <2>7, <3>1, UvozOstajePotreban
  <2> QED  BY <2>4, <2>8 DEF IInvUvozPotrebno
<1>5. ASSUME NEW n \in Primatelji, PonovnoPokreniSve(n)  PROVE IInvUvozPotrebno'
  <2>1. n \in Cvor  BY DEF Primatelji
  <2>2. PonovnoPokreni(n) /\ NastaviUvoz(n, NemaUvoza)  BY <1>5 DEF PonovnoPokreniSve
  <2>3. [Next]_vars  BY <2>2 DEF Next
  <2>4. Potrebno'  BY <1>1, <2>3, KorakPotrebno
  <2>5. UNCHANGED <<knjiga, rupe, zapisano, ograda>>
    BY <2>2 DEF PonovnoPokreni, trajno, postavke
  <2>6. AutorDodaje /\ \A c \in Cvor : knjiga[c] \subseteq knjiga'[c] /\ ZapisNeGubi(c)
    BY <2>5 DEF AutorDodaje, ZapisNeGubi
  <2>7. uvozi'[n] = NemaUvoza /\ \A c \in Cvor : c # n => uvozi'[c] = uvozi[c]
    BY <1>1, <2>1, <2>2 DEF NastaviUvoz, TipDatoteka
  <2>8. UvozPotreban(n)'  BY <2>7 DEF UvozPotreban, NemaUvoza
  <2> QED  BY <2>1, <2>4, <2>5, <2>6, <2>7, <2>8, UvozIdePotreban
<1> QED  BY <1>2, <1>3, <1>4, <1>5

\* IInvUvozPotrebno is inductive.
LEMMA UvozPotrebanOcuvan ==
    ASSUME MirnoBrisanje, RubNeIdeNatrag
    PROVE  /\ InitUvoz => IInvUvozPotrebno
           /\ IInvUvozPotrebno /\ [NextUvoz]_varsUvoz => IInvUvozPotrebno'
<1>1. ASSUME InitUvoz  PROVE IInvUvozPotrebno
  <2>1. Init /\ uvozi = [n \in Cvor |-> NemaUvoza]  BY <1>1 DEF InitUvoz
  <2>2. IInvUvoz /\ Potrebno  BY <1>1, <2>1, PocetnoUzDatoteke, PocetnoPotrebno
  <2>3. \A n \in Cvor : UvozPotreban(n)  BY <2>1 DEF UvozPotreban, NemaUvoza
  <2> QED  BY <2>2, <2>3 DEF IInvUvozPotrebno
<1>2. ASSUME IInvUvozPotrebno, [NextUvoz]_varsUvoz  PROVE IInvUvozPotrebno'
  <2>1. IInvUvoz'  BY <1>2, UvozOcuvan DEF IInvUvozPotrebno
  <2>2. CASE \/ KorakRazmjene
             \/ \E t \in Razgovori : BravuDrziUvoz(t)
             \/ \E n \in Podesivi : ObrisiKanalIzmedjuUvoza(n)
             \/ \E n \in Primatelji : PonovnoPokreniSve(n)
    BY <1>2, <2>1, <2>2, RazmjenaUzDatotekePotrebna
  <2>3. ASSUME UNCHANGED <<vars, uvozi>>  PROVE IInvUvozPotrebno'
    <3>1. TypeOK' /\ IInvPotrebno
      BY <1>2, <2>1 DEF IInvUvozPotrebno, IInvPotrebno, IInvUvoz, IInv
    <3>2. Potrebno'  BY <2>3, <3>1, KorakPotrebno
    <3>3. UNCHANGED <<knjiga, rupe, zapisano, ograda>>  BY <2>3 DEF vars
    <3>4. /\ AutorDodaje
          /\ \A n \in Cvor : knjiga[n] \subseteq knjiga'[n] /\ PraviloRaste(n) /\ ZapisNeGubi(n)
      BY <3>3 DEF AutorDodaje, PraviloRaste, JosOdbija, ZapisNeGubi
    <3>5. \A n \in Cvor : UvozPotreban(n)'
      BY <1>2, <2>3, <3>1, <3>4, UvozOstajePotreban
    <3> QED  BY <2>1, <3>2, <3>5 DEF IInvUvozPotrebno
  <2>4. CASE \E n \in Izvoznici : PocniIzvoz(n) \/ ProcitajZaIzvoz(n) \/ ZapisiDatoteku(n)
    <3>1. UNCHANGED <<vars, uvozi>>  BY <2>4 DEF PocniIzvoz, ProcitajZaIzvoz, ZapisiDatoteku
    <3> QED  BY <2>3, <3>1
  <2>5. CASE \E n \in Uvoznici : \/ \E d \in datoteke, vrsta \in Vrste : PocniUvoz(n, d, vrsta)
                                \/ GranicaUvoza(n) \/ RupeUvoza(n) \/ UpisiSeriju(n)
                                \/ ZabiljeziSeriju(n) \/ UvozPao(n)
    BY <1>2, <2>1, <2>5, OdlucenPotreban, RupeUvozaPotrebne, SerijaPotrebna,
       ZabiljezenaSerijaPotrebna
  <2>6. CASE UNCHANGED varsUvoz
    <3>1. UNCHANGED <<vars, uvozi>>  BY <2>6 DEF varsUvoz, varsDatoteka
    <3> QED  BY <2>3, <3>1
  <2> QED  BY <1>2, <2>2, <2>4, <2>5, <2>6 DEF NextUvoz
<1> QED  BY <1>1, <1>2

\* A version a node misses below its frontier and would keep is asked for while
\* files are imported and its rule changes in the middle of an import (archive.go,
\* zaUvoz; rupe_uvoz.go).
THEOREM PotrebnoSeTraziUzUvoz ==
    ASSUME MirnoBrisanje, RubNeIdeNatrag
    PROVE  SpecUvoz => []PotrebnoSeTrazi
<1>1. IInvUvozPotrebno => PotrebnoSeTrazi  BY DEF IInvUvozPotrebno, Potrebno
<1>2. SpecUvoz => []IInvUvozPotrebno  BY UvozPotrebanOcuvan, PTL DEF SpecUvoz
<1> QED  BY <1>1, <1>2, PTL

\* A talk skips nothing silently while batches of an import move the frontier of
\* its receiver (granicaZaDeltu).
THEOREM PreskokUzUvozOcuvan ==
    ASSUME MirnoBrisanje, RubNeIdeNatrag
    PROVE  SpecUvoz => PreskokUzUvoz
<1>1. IInvUvozPotrebno /\ IInvUvozPotrebno' /\ [NextUvoz]_varsUvoz
      => [\A t \in Razgovori : PreskokIskren(t)]_varsUvoz
  <2> SUFFICES ASSUME IInvUvozPotrebno, IInvUvozPotrebno', [NextUvoz]_varsUvoz,
                      NEW t \in Razgovori
               PROVE  PreskokIskren(t)
    OBVIOUS
  <2>1. IInvPotrebno /\ IInv' /\ TypeOK
    BY DEF IInvUvozPotrebno, IInvUvoz, IInvPotrebno, IInv
  <2> SUFFICES ASSUME razg[t].faza = "pocetak", razg'[t].faza = "delta"
               PROVE  PreskokIskren(t)
    BY DEF PreskokIskren
  <2>2. CASE [Next]_vars  BY <2>1, <2>2, SamoSloziDeltu, PreskocenoTrazeno
  <2>3. KorakRazmjene => [Next]_vars  BY DEF KorakRazmjene, Next
  <2>4. (\E n \in Podesivi : ObrisiKanalIzmedjuUvoza(n)) => [Next]_vars
    BY DEF ObrisiKanalIzmedjuUvoza, Next
  <2>5. (\E n \in Primatelji : PonovnoPokreniSve(n)) => [Next]_vars
    BY DEF PonovnoPokreniSve, Next
  <2>6. ASSUME NEW w \in Razgovori, BravuDrziUvoz(w)  PROVE FALSE
    BY <2>6 DEF BravuDrziUvoz, Zavrsi, Slobodan
  <2>7. (\E n \in Izvoznici : PocniIzvoz(n) \/ ProcitajZaIzvoz(n) \/ ZapisiDatoteku(n))
        => UNCHANGED vars
    BY DEF PocniIzvoz, ProcitajZaIzvoz, ZapisiDatoteku
  <2>8. ASSUME NEW n \in Uvoznici,
               \/ \E d \in datoteke, vrsta \in Vrste : PocniUvoz(n, d, vrsta)
               \/ GranicaUvoza(n) \/ RupeUvoza(n) \/ UpisiSeriju(n)
               \/ ZabiljeziSeriju(n) \/ UvozPao(n)
        PROVE  FALSE
    <3>1. \/ UNCHANGED vars
          \/ UNCHANGED razg
      BY <2>8 DEF PocniUvoz, GranicaUvoza, RupeUvoza, UpisiSeriju, ZabiljeziSeriju, UvozPao
    <3> QED  BY <3>1 DEF vars
  <2>9. UNCHANGED varsUvoz => UNCHANGED vars  BY DEF varsUvoz
  <2> QED  BY <2>2, <2>3, <2>4, <2>5, <2>6, <2>7, <2>8, <2>9 DEF NextUvoz
<1>2. SpecUvoz => []IInvUvozPotrebno  BY UvozPotrebanOcuvan, PTL DEF SpecUvoz
<1> QED  BY <1>1, <1>2, PTL DEF SpecUvoz, PreskokUzUvoz
=============================================================================
