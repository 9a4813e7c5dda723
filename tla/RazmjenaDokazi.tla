--------------------------- MODULE RazmjenaDokazi ---------------------------
(***************************************************************************)
(* Theorems about the exchange of one key, for any nodes, links, talks,    *)
(* versions, rules and disturbances: what its interval algebra guarantees, *)
(* the type invariant, that one talk at a time writes into a node, and,    *)
(* when no channel is deleted in the middle of a talk and the edge of the  *)
(* kept period does not move, that the exchange implements Dostava.        *)
(***************************************************************************)
EXTENDS RazmjenaDostava, FiniteSetTheorems, WellFoundedInduction, TLAPS

-----------------------------------------------------------------------------
(* What the interval algebra guarantees, for every bound Beskraj. *)

\* The algebra stays inside Rasponi (rupe.go: uz, presjek, bez, cist).
LEMMA AlgebraTip ==
    ASSUME NEW a \in Rasponi, NEW b \in Rasponi
    PROVE  /\ Cist(a) \in Rasponi
           /\ Uz(a, b) \in Rasponi
           /\ Presjek(a, b) \in Rasponi
           /\ Bez(a, b) \in Rasponi
<1> USE BeskrajPretpostavka DEF Rasponi, Oznake, Cist, Prazan, Prazno, Raspon
<1>1. Cist(a) \in Rasponi  OBVIOUS
<1>2. Uz(a, b) \in Rasponi  BY DEF Uz, Manji, Veci
<1>3. Presjek(a, b) \in Rasponi  BY DEF Presjek, Manji, Veci
<1>4. Bez(a, b) \in Rasponi  BY DEF Bez
<1> QED  BY <1>1, <1>2, <1>3, <1>4

\* uz holds both of its arguments, so merging never forgets a version.
THEOREM UzDrziOba ==
    ASSUME NEW a \in Rasponi, NEW b \in Rasponi
    PROVE  Clanovi(a) \cup Clanovi(b) \subseteq Clanovi(Uz(a, b))
BY BeskrajPretpostavka
   DEF Rasponi, Oznake, Clanovi, Uz, Cist, Prazan, Prazno, Raspon, Manji, Veci

\* presjek is exactly the common part.
THEOREM PresjekTocan ==
    ASSUME NEW a \in Rasponi, NEW b \in Rasponi
    PROVE  Clanovi(Presjek(a, b)) = Clanovi(a) \cap Clanovi(b)
BY BeskrajPretpostavka
   DEF Rasponi, Oznake, Clanovi, Presjek, Cist, Prazan, Prazno, Raspon, Manji, Veci

\* bez takes away only what b covers, and adds nothing: a version of a that
\* b does not cover stays asked for.
THEOREM BezNeGubi ==
    ASSUME NEW a \in Rasponi, NEW b \in Rasponi
    PROVE  /\ Clanovi(a) \ Clanovi(b) \subseteq Clanovi(Bez(a, b))
           /\ Clanovi(Bez(a, b)) \subseteq Clanovi(a)
BY BeskrajPretpostavka
   DEF Rasponi, Oznake, Clanovi, Bez, Presjek, Cist, Prazan, Prazno, Raspon,
       Manji, Veci

\* uz is the smallest such range: whatever range holds both arguments holds
\* their merge, so merging asks for no more than one range must.
THEOREM UzNajmanji ==
    ASSUME NEW a \in Rasponi, NEW b \in Rasponi, NEW c \in Rasponi,
           Clanovi(a) \cup Clanovi(b) \subseteq Clanovi(c)
    PROVE  Clanovi(Uz(a, b)) \subseteq Clanovi(c)
<1> USE BeskrajPretpostavka DEF Rasponi, Oznake, Prazan
\* A range that is not empty holds its first and its last version.
<1>1. ASSUME NEW x \in Rasponi, ~Prazan(x)
      PROVE  x.od + 1 \in Clanovi(x) /\ x.do \in Clanovi(x)
  BY <1>1 DEF Clanovi
<1>2. ASSUME NEW x \in Rasponi, ~Prazan(x), Clanovi(x) \subseteq Clanovi(c)
      PROVE  c.od <= x.od /\ x.do <= c.do
  BY <1>1, <1>2 DEF Clanovi
<1>3. CASE Prazan(a)
  BY <1>3 DEF Uz, Cist, Prazno, Raspon, Clanovi
<1>4. CASE ~Prazan(a) /\ Prazan(b)
  BY <1>4 DEF Uz
<1>5. CASE ~Prazan(a) /\ ~Prazan(b)
  <2>1. c.od <= a.od /\ a.do <= c.do /\ c.od <= b.od /\ b.do <= c.do
    BY <1>2, <1>5
  <2> QED  BY <1>5, <2>1 DEF Uz, Raspon, Manji, Veci, Clanovi
<1> QED  BY <1>3, <1>4, <1>5

\* Merging is monotone in both arguments.
LEMMA UzMonotono ==
    ASSUME NEW a \in Rasponi, NEW b \in Rasponi, NEW c \in Rasponi, NEW d \in Rasponi,
           Clanovi(a) \subseteq Clanovi(c), Clanovi(b) \subseteq Clanovi(d)
    PROVE  Clanovi(Uz(a, b)) \subseteq Clanovi(Uz(c, d))
<1>1. Uz(c, d) \in Rasponi  BY AlgebraTip
<1>2. Clanovi(a) \cup Clanovi(b) \subseteq Clanovi(Uz(c, d))  BY UzDrziOba
<1> QED  BY <1>1, <1>2, UzNajmanji

-----------------------------------------------------------------------------
(* What one write does to the record of a key.                               *)

\* Both steps of a write leave a record of the right shape (rupe.go: prosiri,
\* suzi, and sirenjem of rupe_baza.go).
LEMMA ZapisTip ==
    ASSUME NEW pk \in PromjeneKljuca, NEW k \in RupeKljuca
    PROVE  /\ Nedostaje(pk, k.trazi) \in Rasponi
           /\ Prosiri(pk, k) \in RupeKljuca
           /\ Suzi(pk, k) \in RupeKljuca
           /\ Sirenjem(k) \in RupeKljuca
           /\ NeJamci(k) \in Rasponi
<1>1. /\ k.odbijeno \in Rasponi /\ k.trazi \in Rasponi
      /\ k = [odbijeno |-> k.odbijeno, trazi |-> k.trazi]
      /\ pk.odbijeno \in Rasponi /\ pk.uTrazi \in Rasponi /\ pk.nesigurno \in Rasponi
      /\ pk.redovno \in Rasponi /\ pk.popuna \in Rasponi /\ Prazno \in Rasponi
      /\ Iznad(pk.fs) \in Rasponi
  BY BeskrajPretpostavka DEF RupeKljuca, PromjeneKljuca, Iznad, Rasponi, Raspon, Oznake, Prazno
<1>2. Nedostaje(pk, k.trazi) \in Rasponi  BY <1>1, AlgebraTip DEF Nedostaje
<1>3. Prosiri(pk, k) \in RupeKljuca
  <2>1. Uz(Uz(k.trazi, pk.uTrazi), Nedostaje(pk, k.trazi)) \in Rasponi
    BY <1>1, <1>2, AlgebraTip
  <2> QED  BY <1>1, <2>1, AlgebraTip DEF Prosiri, RupeKljuca
<1>4. Suzi(pk, k) \in RupeKljuca
  <2>1. Bez(Bez(k.trazi, pk.redovno), pk.popuna) \in Rasponi  BY <1>1, AlgebraTip
  <2>2. Uz(Uz(Bez(Bez(k.trazi, pk.redovno), pk.popuna), pk.uTrazi),
           Nedostaje(pk, k.trazi)) \in Rasponi
    BY <1>1, <1>2, <2>1, AlgebraTip
  <2> QED  BY <1>1, <2>2 DEF Suzi, RupeKljuca
<1>5. Sirenjem(k) \in RupeKljuca /\ NeJamci(k) \in Rasponi
  BY <1>1, AlgebraTip DEF Sirenjem, NeJamci, RupeKljuca
<1> QED  BY <1>2, <1>3, <1>4, <1>5

\* Widening the record before the write never starts to vouch for anything:
\* what the node did not vouch for it still does not, and neither for what it
\* refused, nor for what the sender left uncertain. A stop right after it
\* therefore hides nothing.
THEOREM ProsiriNeGubi ==
    ASSUME NEW pk \in PromjeneKljuca, NEW k \in RupeKljuca
    PROVE  Clanovi(NeJamci(k)) \cup Clanovi(pk.odbijeno) \cup Clanovi(pk.uTrazi)
               \cup Clanovi(Nedostaje(pk, k.trazi))
           \subseteq Clanovi(NeJamci(Prosiri(pk, k)))
<1> DEFINE n == Nedostaje(pk, k.trazi)
           o == Uz(k.odbijeno, pk.odbijeno)
           t == Uz(Uz(k.trazi, pk.uTrazi), n)
<1>1. /\ k.odbijeno \in Rasponi /\ k.trazi \in Rasponi
      /\ pk.odbijeno \in Rasponi /\ pk.uTrazi \in Rasponi /\ n \in Rasponi
  BY ZapisTip DEF RupeKljuca, PromjeneKljuca
<1>2. o \in Rasponi /\ Uz(k.trazi, pk.uTrazi) \in Rasponi /\ t \in Rasponi
  BY <1>1, AlgebraTip
<1>3. NeJamci(Prosiri(pk, k)) = Uz(o, t)  BY DEF NeJamci, Prosiri
<1>4. Clanovi(o) \cup Clanovi(t) \subseteq Clanovi(Uz(o, t))  BY <1>2, UzDrziOba
<1>5. /\ Clanovi(k.odbijeno) \subseteq Clanovi(o)
      /\ Clanovi(pk.odbijeno) \subseteq Clanovi(o)
  BY <1>1, UzDrziOba
<1>6. /\ Clanovi(k.trazi) \subseteq Clanovi(t)
      /\ Clanovi(pk.uTrazi) \subseteq Clanovi(t)
      /\ Clanovi(n) \subseteq Clanovi(t)
  <2>1. Clanovi(k.trazi) \cup Clanovi(pk.uTrazi) \subseteq Clanovi(Uz(k.trazi, pk.uTrazi))
    BY <1>1, UzDrziOba
  <2>2. Clanovi(Uz(k.trazi, pk.uTrazi)) \cup Clanovi(n) \subseteq Clanovi(t)
    BY <1>1, <1>2, UzDrziOba
  <2> QED  BY <2>1, <2>2
<1>7. Clanovi(NeJamci(k)) \subseteq Clanovi(Uz(o, t))
  BY <1>1, <1>2, <1>5, <1>6, UzMonotono DEF NeJamci
<1> QED  BY <1>3, <1>4, <1>5, <1>6, <1>7

\* Narrowing the record after the write takes out only what the sender
\* covered: what else was asked for still is, also what it left uncertain,
\* and what was refused stays refused.
THEOREM SuziSamoPokriveno ==
    ASSUME NEW pk \in PromjeneKljuca, NEW k \in RupeKljuca
    PROVE  /\ Suzi(pk, k).odbijeno = k.odbijeno
           /\ (Clanovi(k.trazi) \ (Clanovi(pk.redovno) \cup Clanovi(pk.popuna)))
                  \cup Clanovi(pk.uTrazi) \cup Clanovi(Nedostaje(pk, k.trazi))
              \subseteq Clanovi(Suzi(pk, k).trazi)
<1> DEFINE n == Nedostaje(pk, k.trazi)
           b1 == Bez(k.trazi, pk.redovno)
           b2 == Bez(b1, pk.popuna)
           u == Uz(b2, pk.uTrazi)
<1>1. /\ k.trazi \in Rasponi /\ pk.redovno \in Rasponi /\ pk.popuna \in Rasponi
      /\ pk.uTrazi \in Rasponi /\ n \in Rasponi
  BY ZapisTip DEF RupeKljuca, PromjeneKljuca
<1>2. b1 \in Rasponi  BY <1>1, AlgebraTip
<1>3. b2 \in Rasponi  BY <1>1, <1>2, AlgebraTip
<1>4. u \in Rasponi  BY <1>1, <1>3, AlgebraTip
<1>5. Suzi(pk, k).odbijeno = k.odbijeno /\ Suzi(pk, k).trazi = Uz(u, n)
  BY DEF Suzi, RupeKljuca
<1>6. Clanovi(k.trazi) \ Clanovi(pk.redovno) \subseteq Clanovi(b1)
  BY <1>1, BezNeGubi
<1>7. Clanovi(b1) \ Clanovi(pk.popuna) \subseteq Clanovi(b2)
  BY <1>1, <1>2, BezNeGubi
<1>8. Clanovi(b2) \cup Clanovi(pk.uTrazi) \subseteq Clanovi(u)
  BY <1>1, <1>3, UzDrziOba
<1>9. Clanovi(u) \cup Clanovi(n) \subseteq Clanovi(Uz(u, n))
  BY <1>1, <1>4, UzDrziOba
<1> QED  BY <1>5, <1>6, <1>7, <1>8, <1>9

\* Moving the refused to the asked under a wider rule forgets neither.
THEOREM SirenjemNeGubi ==
    ASSUME NEW k \in RupeKljuca
    PROVE  Clanovi(NeJamci(k)) \subseteq Clanovi(Sirenjem(k).trazi)
<1>1. k.odbijeno \in Rasponi /\ k.trazi \in Rasponi  BY DEF RupeKljuca
<1>2. Clanovi(k.trazi) \cup Clanovi(k.odbijeno) \subseteq Clanovi(Uz(k.trazi, k.odbijeno))
  BY <1>1, UzDrziOba
<1> QED  BY <1>1, <1>2, AlgebraTip, UzNajmanji DEF NeJamci, Sirenjem

-----------------------------------------------------------------------------
(* The exchange. *)

\* The frontier of a set of versions is its largest one, or 0 (ledger.go,
\* Frontier: MAX of the version ids).
LEMMA GranicaTip ==
    ASSUME NEW S \in SUBSET Verzije
    PROVE  /\ Granica(S) \in S \cup {0} /\ Granica(S) \in Granice
           /\ \A v \in S : v <= Granica(S)
<1> DEFINE T == {ZadnjaVerzija - v : v \in S \cup {0}}
           R == OpToRel(<, Nat)
<1>0. /\ IsWellFoundedOn(R, Nat)
      /\ \A x, y \in Nat : x < y => <<x, y>> \in R
  <2>1. IsWellFoundedOn(R, Nat)  BY NatLessThanWellFounded, Zenon
  <2>2. ASSUME NEW x \in Nat, NEW y \in Nat, x < y  PROVE <<x, y>> \in R
    BY <2>2, Zenon DEF OpToRel
  <2> QED  BY <2>1, <2>2
<1> HIDE DEF R
<1>1. T \subseteq Nat /\ T # {}  BY RazmjenaPretpostavka DEF Verzije
<1>2. PICK x \in T : \A y \in T : ~(<<y, x>> \in R)
  <2> HIDE DEF T
  <2>1. IsWellFoundedOn(R, Nat) /\ T \subseteq Nat /\ T # {}  BY <1>0, <1>1
  <2> QED  BY ONLY <2>1, WFMin, Zenon
<1>3. PICK m \in S \cup {0} : x = ZadnjaVerzija - m  OBVIOUS
<1>4. ASSUME NEW v \in S  PROVE v <= m
  <2>1. ZadnjaVerzija - v \in T  OBVIOUS
  <2>2. ~(ZadnjaVerzija - v < x)  BY <1>0, <1>1, <1>2, <2>1
  <2> QED  BY <1>3, <2>2, RazmjenaPretpostavka DEF Verzije
<1> DEFINE G == CHOOSE n \in S \cup {0} : \A v \in S : v <= n
<1>6. G \in S \cup {0} /\ \A v \in S : v <= G  BY <1>4
<1>7. Granica(S) = G  BY DEF Granica
<1> HIDE DEF G
<1>8. G \in Granice  BY <1>6, RazmjenaPretpostavka DEF Granice, Verzije
<1> QED  BY <1>6, <1>7, <1>8

-----------------------------------------------------------------------------
(* Types of what the steps compute *)

SaljeTip == [korak : 0 .. 2, granica : Granice, nejamci : Rasponi, dosad : Granice]
PrimaTip == [korak : 0 .. 2, fs : Granice, moje : Granice, ograda : Ograde,
             trazi : Rasponi, zapisati : BOOLEAN]
DeltaTip == [verzije : SUBSET Verzije, od : Granice, rupe : Rasponi, popuna : Rasponi]
UpisTip == [verzije : SUBSET Verzije, promjena : PromjeneKljuca, pravilo : BOOLEAN,
            odbijeno : Granice, popunjava : BOOLEAN]

\* A version id is a bound of a range, and so is a frontier.
LEMMA OznakeTip ==
    /\ Granice \subseteq Oznake /\ Verzije \subseteq Granice /\ 0 \in Granice
    /\ Prazno \in Rasponi /\ BezRupa \in RupeKljuca
    /\ \A od \in Oznake : Iznad(od) \in Rasponi
    /\ \A od, do \in Oznake : Raspon(od, do) \in Rasponi
    /\ \A x, y \in Granice : Veci(x, y) \in Granice /\ Manji(x, y) \in Granice
    /\ \A x, y \in Oznake : Veci(x, y) \in Oznake /\ Manji(x, y) \in Oznake
BY RazmjenaPretpostavka, BeskrajPretpostavka
   DEF Granice, Oznake, Verzije, Prazno, BezRupa, RupeKljuca, Rasponi, Raspon, Iznad,
       Veci, Manji

LEMMA SlobodanTip ==
    /\ PocetakPosiljatelja \in SaljeTip /\ PocetakPrimatelja \in PrimaTip
    /\ PraznaDelta \in DeltaTip /\ PraznaPromjena \in PromjeneKljuca
    /\ PrazanUpis \in UpisTip /\ BezOgrade \in Ograde
    /\ Slobodan \in RazgovorTip
<1>1. BezOgrade \in Ograde  BY DEF BezOgrade, Ograde
<1>2. PraznaPromjena \in PromjeneKljuca
  BY OznakeTip DEF PraznaPromjena, PromjeneKljuca
<1>3. PocetakPosiljatelja \in SaljeTip  BY OznakeTip DEF PocetakPosiljatelja, SaljeTip
<1>4. PocetakPrimatelja \in PrimaTip
  BY <1>1, OznakeTip DEF PocetakPrimatelja, PrimaTip
<1>5. PraznaDelta \in DeltaTip  BY OznakeTip DEF PraznaDelta, DeltaTip
<1>6. PrazanUpis \in UpisTip  BY <1>2, OznakeTip DEF PrazanUpis, UpisTip
<1>7. Slobodan \in RazgovorTip
  <2>1. Autor \in Cvor  BY RazmjenaPretpostavka
  <2> QED
    BY <1>3, <1>4, <1>5, <1>6, <2>1
    DEF Slobodan, RazgovorTip, Faze, SaljeTip, PrimaTip, DeltaTip, UpisTip
<1> QED  BY <1>1, <1>2, <1>3, <1>4, <1>5, <1>6, <1>7

\* The parts of a talk.
LEMMA DijeloviTip ==
    ASSUME NEW x \in RazgovorTip
    PROVE  /\ x.faza \in Faze /\ x.s \in Cvor /\ x.r \in Cvor /\ x.prekinut \in BOOLEAN
           /\ x.salje \in SaljeTip /\ x.prima \in PrimaTip
           /\ x.delta \in DeltaTip /\ x.upis \in UpisTip
           /\ x = [faza |-> x.faza, s |-> x.s, r |-> x.r, prekinut |-> x.prekinut,
                   salje |-> x.salje, prima |-> x.prima, delta |-> x.delta, upis |-> x.upis]
BY DEF RazgovorTip, SaljeTip, PrimaTip, DeltaTip, UpisTip

\* What a node says at the start of a talk about the part it does not vouch for.
LEMMA PocetakTip ==
    ASSUME TypeOK, NEW n \in Cvor
    PROVE  /\ RupeNaPocetku(n) \in RupeKljuca /\ NeJamciNaPocetku(n) \in Rasponi
           /\ Sire(n) \in BOOLEAN /\ Virtualno(n) \in BOOLEAN
           /\ UskladjenoPravilo(n) \in RupeKljuca
<1>1. rupe[n] \in RupeKljuca /\ knjiga[n] \in SUBSET Verzije
      /\ zapisano[n].ima \in BOOLEAN
  BY DEF TypeOK
<1>2. RupeNaPocetku(n) \in RupeKljuca
  <2>1. Sirenjem(rupe[n]) \in RupeKljuca
    BY <1>1, SlobodanTip, ZapisTip
  <2> QED  BY <1>1, <2>1 DEF RupeNaPocetku
<1>3. NeJamciNaPocetku(n) \in Rasponi
  <2>1. NeJamci(RupeNaPocetku(n)) \in Rasponi  BY <1>2, SlobodanTip, ZapisTip
  <2> QED  BY <2>1, OznakeTip DEF NeJamciNaPocetku
<1>4. Sire(n) \in BOOLEAN /\ Virtualno(n) \in BOOLEAN
  BY <1>1 DEF Sire, Virtualno, SiriOd
<1>5. UskladjenoPravilo(n) \in RupeKljuca
  <2>1. Granica(knjiga[n]) \in Oznake  BY <1>1, GranicaTip, OznakeTip
  <2>2. rupe[n].odbijeno.do \in Oznake  BY <1>1 DEF RupeKljuca, Rasponi
  <2>3. Raspon(0, Veci(rupe[n].odbijeno.do, Granica(knjiga[n]))) \in Rasponi
    BY <2>1, <2>2, OznakeTip
  <2>4. [rupe[n] EXCEPT !.odbijeno = Raspon(0, Veci(rupe[n].odbijeno.do, Granica(knjiga[n])))]
        \in RupeKljuca
    BY <1>1, <2>3 DEF RupeKljuca
  <2> QED  BY <1>2, <2>4 DEF UskladjenoPravilo
<1> QED  BY <1>2, <1>3, <1>4, <1>5

\* What the sender computes from the talk and its ledger.
LEMMA SlozenaDeltaTip ==
    ASSUME NEW x \in RazgovorTip, NEW S \in SUBSET Verzije
    PROVE  /\ GranicaZaDeltu(x) \in Granice
           /\ RedovniDio(x, S) \in SUBSET Verzije
           /\ Procitano(x, S) \in SUBSET Verzije
           /\ Popuna(x, S) \in SUBSET Verzije
           /\ \A pop \in SUBSET Verzije : Pokriva(x, S, pop) \in Rasponi
<1> USE DijeloviTip
<1>1. /\ x.prima.fs \in Granice /\ x.prima.moje \in Granice /\ x.salje.dosad \in Granice
      /\ x.salje.granica \in Granice /\ x.prima.trazi \in Rasponi
      /\ x.prima.trazi.od \in Oznake /\ x.prima.trazi.do \in Oznake
  BY DEF SaljeTip, PrimaTip, Rasponi
<1>2. GranicaZaDeltu(x) \in Granice  BY <1>1, OznakeTip DEF GranicaZaDeltu
<1>3. GranicaPopune(x) \in Oznake  BY <1>1, <1>2, OznakeTip DEF GranicaPopune
<1>4. RedovniDio(x, S) \in SUBSET Verzije  BY DEF RedovniDio, PrvihOd
<1>5. Procitano(x, S) \in SUBSET Verzije  BY DEF Procitano, PrvihOd
<1>6. Popuna(x, S) \in SUBSET Verzije  BY <1>5 DEF Popuna
<1>7. ASSUME NEW pop \in SUBSET Verzije  PROVE Pokriva(x, S, pop) \in Rasponi
  <2>1. Granica(Popuna(x, S)) \in Oznake /\ Granica(pop) \in Oznake
    BY <1>6, GranicaTip, OznakeTip
  <2>2. DokleProcitano(x, S) \in Oznake
    BY <1>1, <1>3, <2>1, OznakeTip DEF DokleProcitano
  <2>3. Cist(Raspon(x.prima.trazi.od, DokleProcitano(x, S))) \in Rasponi
    BY <1>1, <2>2, OznakeTip, AlgebraTip
  <2>4. Raspon(x.prima.trazi.od, Granica(pop)) \in Rasponi
    BY <1>1, <2>1, OznakeTip
  <2> QED  BY <2>3, <2>4, OznakeTip DEF Pokriva
<1> QED  BY <1>2, <1>4, <1>5, <1>6, <1>7

LEMMA RupeDelteTip ==
    ASSUME TypeOK, NEW t \in Razgovori, NEW g \in Granice, NEW popuna \in Rasponi
    PROVE  RupeDelte(t, g, popuna) \in Rasponi
<1> DEFINE x == razg[t]
<1>1. x \in RazgovorTip  BY DEF TypeOK
<1>2. x.salje.nejamci \in Rasponi /\ x.salje.granica \in Oznake
  BY <1>1, DijeloviTip, OznakeTip DEF SaljeTip
<1>3. GranicaZaDeltu(x) \in Oznake /\ g \in Oznake
  BY <1>1, SlozenaDeltaTip, OznakeTip, {} \in SUBSET Verzije
<1>4. Sumnja(t) \in Rasponi  BY <1>2, OznakeTip DEF Sumnja
<1>5. Uz(x.salje.nejamci, Sumnja(t)) \in Rasponi  BY <1>2, <1>4, AlgebraTip
<1>6. Uz(Raspon(GranicaZaDeltu(x), g), popuna) \in Rasponi
  <2>1. Raspon(GranicaZaDeltu(x), g) \in Rasponi  BY <1>3, OznakeTip
  <2> QED  BY <2>1, AlgebraTip
<1> QED  BY <1>5, <1>6, AlgebraTip, OznakeTip DEF RupeDelte

\* What the receiver refuses is a range.
LEMMA OdbijenoTip ==
    ASSUME NEW x, x.prima.fs \in Granice, x.prima.moje \in Granice,
           NEW wanted \in SUBSET Verzije, NEW bacio \in SUBSET Verzije
    PROVE  OdbijenoKljuca(x, wanted, bacio) \in Rasponi
<1> DEFINE fs == x.prima.fs
           najmanja == CHOOSE b \in bacio : \A v \in bacio : b <= v
           ispod == Granica({v \in wanted : v < najmanja})
           sada == IF bacio = {} THEN Prazno
                   ELSE RasponOdbijenog(najmanja, Granica(bacio), fs, ispod)
<1>1. {v \in wanted : v < najmanja} \in SUBSET Verzije  OBVIOUS
<1>2. ispod \in Granice /\ Granica(bacio) \in Granice
  BY <1>1, GranicaTip
<1>3. sada \in Rasponi
  <2>1. ASSUME NEW b, NEW g \in Granice, NEW i \in Granice
        PROVE  RasponOdbijenog(b, g, fs, i) \in Rasponi
    <3>1. (IF b <= fs THEN i ELSE Veci(fs, i)) \in Oznake /\ g \in Oznake
      BY OznakeTip
    <3>2. Raspon(IF b <= fs THEN i ELSE Veci(fs, i), g) \in Rasponi
      BY <3>1, OznakeTip
    <3> QED  BY <3>2, AlgebraTip DEF RasponOdbijenog
  <2> HIDE DEF najmanja, ispod
  <2> QED  BY <1>2, <2>1, OznakeTip
<1>4. Raspon(fs, x.prima.moje) \in Rasponi  BY OznakeTip
<1>5. Uz(sada, Raspon(fs, x.prima.moje)) \in Rasponi
  BY <1>3, <1>4, AlgebraTip
<1>6. OdbijenoKljuca(x, wanted, bacio)
          = IF x.prima.moje = 0 THEN sada ELSE Uz(sada, Raspon(fs, x.prima.moje))
  BY DEF OdbijenoKljuca
<1> QED  BY <1>3, <1>5, <1>6

\* What the receiver decides to write.
LEMMA OdlukaTip ==
    ASSUME TypeOK, NEW t \in Razgovori
    PROVE  OdlukaZaUpis(razg[t]) \in UpisTip
<1> DEFINE x == razg[t]
           bacio == Bacio(x)
           wanted == x.delta.verzije \ bacio
<1>1. x \in RazgovorTip  BY DEF TypeOK
<1>2. /\ x.prima.fs \in Granice /\ x.prima.moje \in Granice /\ x.prima.trazi \in Rasponi
      /\ x.prima.zapisati \in BOOLEAN /\ x.delta.verzije \in SUBSET Verzije
      /\ x.delta.rupe \in Rasponi /\ x.delta.popuna \in Rasponi
      /\ x.delta.popuna.do \in Oznake
  BY <1>1, DijeloviTip DEF PrimaTip, DeltaTip, Rasponi
<1>3. bacio \in SUBSET Verzije /\ wanted \in SUBSET Verzije  BY <1>2 DEF Bacio
<1>4. ValjanaPopuna(x) \in Rasponi /\ ValjanaPopuna(x).do \in Oznake
  BY <1>2, OznakeTip DEF ValjanaPopuna, Rasponi
<1>5. OdbijenoKljuca(x, wanted, bacio) \in Rasponi  BY <1>2, <1>3, OdbijenoTip
<1>6. PromjenaRupa(x, wanted, bacio) \in PromjeneKljuca
  <2> DEFINE g == Granica(wanted \cup bacio)
  <2>1. g \in Granice  BY <1>3, GranicaTip
  <2>2. Raspon(0, Veci(g, ValjanaPopuna(x).do)) \in Rasponi
    BY <1>4, <2>1, OznakeTip
  <2>3. Raspon(Veci(x.prima.fs, x.prima.moje), g) \in Rasponi
    BY <1>2, <2>1, OznakeTip
  <2>4. Presjek(x.delta.rupe, Raspon(0, Veci(g, ValjanaPopuna(x).do))) \in Rasponi
        /\ Cist(Raspon(Veci(x.prima.fs, x.prima.moje), g)) \in Rasponi
    BY <1>2, <2>2, <2>3, AlgebraTip
  <2> HIDE DEF wanted, bacio, x
  <2> QED
    BY <1>2, <1>4, <1>5, <2>4, OznakeTip, SlobodanTip DEF PromjenaRupa, PromjeneKljuca
<1>7. Granica(bacio) \in Granice  BY <1>3, GranicaTip
<1>8. [PrazanUpis EXCEPT !.pravilo = x.prima.zapisati] \in UpisTip
  BY <1>2, SlobodanTip DEF UpisTip
<1>9. [verzije |-> wanted, promjena |-> PromjenaRupa(x, wanted, bacio),
       pravilo |-> x.prima.zapisati, odbijeno |-> Granica(bacio),
       popunjava |-> FALSE] \in UpisTip
  BY <1>2, <1>3, <1>6, <1>7 DEF UpisTip
<1> QED  BY <1>8, <1>9 DEF OdlukaZaUpis

\* The change under the fence of now.
LEMMA UzOgraduTip ==
    ASSUME NEW x, x.upis.promjena \in PromjeneKljuca
    PROVE  UzOgradu(x) \in PromjeneKljuca
<1>1. x.upis.promjena \in PromjeneKljuca  OBVIOUS
<1>2. x.upis.promjena.odbijeno \in Rasponi /\ x.upis.promjena.uTrazi \in Rasponi
  BY <1>1 DEF PromjeneKljuca
<1>3. Uz(x.upis.promjena.uTrazi, x.upis.promjena.odbijeno) \in Rasponi
  BY <1>2, AlgebraTip
<1>4. [x.upis.promjena EXCEPT
          !.uTrazi = Uz(x.upis.promjena.uTrazi, x.upis.promjena.odbijeno),
          !.odbijeno = Prazno] \in PromjeneKljuca
  BY <1>1, <1>3, OznakeTip DEF PromjeneKljuca
<1> QED  BY <1>1, <1>4 DEF UzOgradu

-----------------------------------------------------------------------------
(* The steps keep the types *)

LEMMA NastaviTip ==
    ASSUME TypeOK, NEW t \in Razgovori, NEW novi \in RazgovorTip, Nastavi(t, novi)
    PROVE  /\ razg' \in [Razgovori -> RazgovorTip]
           /\ razg'[t] = novi
           /\ \A u \in Razgovori \ {t} : razg'[u] = razg[u]
BY DEF TypeOK, Nastavi

LEMMA ZavrsiTip ==
    ASSUME TypeOK, NEW T, Zavrsi(T)
    PROVE  /\ razg' \in [Razgovori -> RazgovorTip]
           /\ \A u \in Razgovori : razg'[u] = IF u \in T THEN Slobodan ELSE razg[u]
           /\ rastRupa' \subseteq Razgovori /\ noviUvoz' \subseteq Razgovori
           /\ zaborav' \subseteq Razgovori /\ noviZapis' \subseteq Razgovori
BY SlobodanTip DEF TypeOK, Zavrsi

\* Records of refusals, and of what was sent.
LEMMA OdbijeneTip ==
    ASSUME TypeOK, NEW r \in Cvor, NEW s \in Cvor,
           NEW z \in [granica : Granice, ograda : Ograde], NEW g \in Granice
    PROVE  /\ [odbijeneOd EXCEPT ![r][s] = z]
                \in [Cvor -> [Cvor -> [granica : Granice, ograda : Ograde]]]
           /\ [odbijeneOd[r][s] EXCEPT !.granica = g] \in [granica : Granice, ograda : Ograde]
           /\ [zaCvor EXCEPT ![r][s] = g] \in [Cvor -> [Cvor -> Granice]]
<1>1. odbijeneOd[r] \in [Cvor -> [granica : Granice, ograda : Ograde]]
      /\ zaCvor[r] \in [Cvor -> Granice]
  BY DEF TypeOK
<1>2. [odbijeneOd[r] EXCEPT ![s] = z] \in [Cvor -> [granica : Granice, ograda : Ograde]]
      /\ [zaCvor[r] EXCEPT ![s] = g] \in [Cvor -> Granice]
  BY <1>1
<1>3. odbijeneOd[r][s] \in [granica : Granice, ograda : Ograde]  BY <1>1
<1>4. [odbijeneOd[r][s] EXCEPT !.granica = g] \in [granica : Granice, ograda : Ograde]
  BY <1>3
<1> QED  BY <1>2, <1>4 DEF TypeOK

\* The start of a talk.
LEMMA PocetakKorakTip ==
    ASSUME TypeOK, NEW t \in Razgovori,
           \/ GranicaPosiljatelja(t) \/ RupePosiljatelja(t)
           \/ GranicaPrimatelja(t) \/ NePrati(t) \/ RupePrimatelja(t)
    PROVE  TypeOK'
<1> DEFINE x == razg[t]
<1>1. x \in RazgovorTip  BY DEF TypeOK
<1>2. x.s \in Cvor /\ x.r \in Cvor /\ x.salje \in SaljeTip /\ x.prima \in PrimaTip
  BY <1>1, DijeloviTip
<1>3. Granica(knjiga[x.s]) \in Granice /\ Granica(knjiga[x.r]) \in Granice
  BY <1>2, GranicaTip DEF TypeOK
<1>0. 1 \in 0 .. 2 /\ 2 \in 0 .. 2  OBVIOUS
<1>4. CASE GranicaPosiljatelja(t)
  <2> DEFINE sa == [x.salje EXCEPT !.korak = 1, !.granica = Granica(knjiga[x.s])]
  <2>1. sa \in SaljeTip  BY <1>0, <1>2, <1>3 DEF SaljeTip
  <2>2. [x EXCEPT !.salje = sa] \in RazgovorTip
    BY <1>1, <2>1 DEF RazgovorTip, SaljeTip
  <2>3. Nastavi(t, [x EXCEPT !.salje = sa])  BY <1>4 DEF GranicaPosiljatelja
  <2>4. razg' \in [Razgovori -> RazgovorTip]  BY <2>2, <2>3, NastaviTip
  <2> QED  BY <1>4, <2>4 DEF GranicaPosiljatelja, TypeOK, trajno, postavke, pamcenje, oznake
<1>5. CASE RupePosiljatelja(t)
  <2> DEFINE sa == [x.salje EXCEPT !.korak = 2, !.nejamci = NeJamciNaPocetku(x.s),
                                   !.dosad = zaCvor[x.s][x.r]]
  <2>1. NeJamciNaPocetku(x.s) \in Rasponi /\ zaCvor[x.s][x.r] \in Granice
    BY <1>2, PocetakTip DEF TypeOK
  <2>2. sa \in SaljeTip  BY <1>0, <1>2, <2>1 DEF SaljeTip
  <2>3. [x EXCEPT !.salje = sa] \in RazgovorTip
    BY <1>1, <2>2 DEF RazgovorTip, SaljeTip
  <2>4. Nastavi(t, [x EXCEPT !.salje = sa])  BY <1>5 DEF RupePosiljatelja
  <2>5. razg' \in [Razgovori -> RazgovorTip]  BY <2>3, <2>4, NastaviTip
  <2> QED  BY <1>5, <2>5 DEF RupePosiljatelja, TypeOK, trajno, postavke, pamcenje, oznake
<1>6. CASE GranicaPrimatelja(t)
  <2> DEFINE pr == [x.prima EXCEPT !.korak = 1, !.fs = Granica(knjiga[x.r])]
  <2>1. pr \in PrimaTip  BY <1>0, <1>2, <1>3 DEF PrimaTip
  <2>2. [x EXCEPT !.prima = pr] \in RazgovorTip
    BY <1>1, <2>1 DEF RazgovorTip, PrimaTip
  <2>3. Nastavi(t, [x EXCEPT !.prima = pr])  BY <1>6 DEF GranicaPrimatelja
  <2>4. razg' \in [Razgovori -> RazgovorTip]  BY <2>2, <2>3, NastaviTip
  <2> QED  BY <1>6, <2>4 DEF GranicaPrimatelja, TypeOK, trajno, postavke, pamcenje, oznake
<1>7. CASE NePrati(t)
  BY <1>7, ZavrsiTip DEF NePrati, TypeOK, trajno, postavke, pamcenje
<1>8. CASE RupePrimatelja(t)
  <2> DEFINE z == odbijeneOd[x.r][x.s]
             moje == IF JosOdbija(z.ograda, ograda[x.r]) /\ z.granica > x.prima.fs
                     THEN z.granica ELSE 0
             zap == Sire(x.r) \/ Virtualno(x.r)
             pr == [x.prima EXCEPT !.korak = 2, !.moje = moje, !.ograda = ograda[x.r],
                                   !.trazi = RupeNaPocetku(x.r).trazi, !.zapisati = zap]
  <2>1. moje \in Granice  BY <1>2, OznakeTip DEF TypeOK
  <2>2. ograda[x.r] \in Ograde  BY <1>2 DEF TypeOK
  <2>3. RupeNaPocetku(x.r).trazi \in Rasponi /\ zap \in BOOLEAN
    BY <1>2, PocetakTip DEF RupeKljuca
  <2> HIDE DEF moje, zap, x
  <2>4. pr \in PrimaTip  BY <1>0, <1>2, <2>1, <2>2, <2>3 DEF PrimaTip
  <2>5. [x EXCEPT !.prima = pr] \in RazgovorTip
    BY <1>1, <2>4 DEF RazgovorTip, PrimaTip
  <2>6. Nastavi(t, [x EXCEPT !.prima = pr])  BY <1>8 DEF RupePrimatelja, moje, zap, x
  <2>7. razg' \in [Razgovori -> RazgovorTip]  BY <2>5, <2>6, NastaviTip
  <2> QED  BY <1>8, <2>7 DEF RupePrimatelja, TypeOK, trajno, postavke, pamcenje, oznake
<1> QED  BY <1>4, <1>5, <1>6, <1>7, <1>8

\* The delta, and what the receiver decides.
LEMMA DeltaKorakTip ==
    ASSUME TypeOK, NEW t \in Razgovori, SloziDeltu(t) \/ Odluci(t)
    PROVE  TypeOK'
<1> DEFINE x == razg[t]
           S == knjiga[x.s]
<1>1. x \in RazgovorTip  BY DEF TypeOK
<1>2. x.s \in Cvor /\ x.r \in Cvor /\ x.delta \in DeltaTip
  BY <1>1, DijeloviTip
<1>3. S \in SUBSET Verzije  BY <1>2 DEF TypeOK
<1>4. CASE SloziDeltu(t)
  <2>1. PICK red \in IF Rez THEN Pocetci(RedovniDio(x, S)) ELSE {RedovniDio(x, S)},
             pop \in IF Rez THEN Pocetci(Popuna(x, S)) ELSE {Popuna(x, S)} :
          Nastavi(t, [x EXCEPT !.faza = "delta",
                               !.delta = [verzije |-> red \cup pop, od |-> GranicaZaDeltu(x),
                                          rupe |-> RupeDelte(t, Granica(red), Pokriva(x, S, pop)),
                                          popuna |-> Pokriva(x, S, pop)],
                               !.salje = PocetakPosiljatelja])
    BY <1>4 DEF SloziDeltu
  <2>2. red \in SUBSET Verzije /\ pop \in SUBSET Verzije
    BY <1>1, <1>3, SlozenaDeltaTip DEF Pocetci
  <2>3. GranicaZaDeltu(x) \in Granice /\ Pokriva(x, S, pop) \in Rasponi
    BY <1>1, <1>3, <2>2, SlozenaDeltaTip
  <2>4. RupeDelte(t, Granica(red), Pokriva(x, S, pop)) \in Rasponi
    BY <2>2, <2>3, GranicaTip, RupeDelteTip
  <2> DEFINE d == [verzije |-> red \cup pop, od |-> GranicaZaDeltu(x),
                   rupe |-> RupeDelte(t, Granica(red), Pokriva(x, S, pop)),
                   popuna |-> Pokriva(x, S, pop)]
             f == "delta"
             novi == [x EXCEPT !.faza = f, !.delta = d, !.salje = PocetakPosiljatelja]
  <2>5. d \in DeltaTip  BY <2>2, <2>3, <2>4 DEF DeltaTip
  <2>6. Nastavi(t, novi)  BY <2>1
  <2>7. f \in Faze  BY DEF Faze
  <2> HIDE DEF d, f
  <2>8. novi \in RazgovorTip
    BY <1>1, <2>5, <2>7, SlobodanTip DEF RazgovorTip, SaljeTip, DeltaTip
  <2> HIDE DEF novi
  <2>9. razg' \in [Razgovori -> RazgovorTip]  BY <2>6, <2>8, NastaviTip
  <2> QED  BY <1>4, <2>9 DEF SloziDeltu, TypeOK, trajno, postavke, pamcenje, oznake
<1>5. CASE Odluci(t)
  <2> DEFINE u == OdlukaZaUpis(x)
             f == IF Nista(u, x.prima.trazi) THEN "zapamti" ELSE "brava"
             d == [PraznaDelta EXCEPT !.verzije = x.delta.verzije]
             novi == [x EXCEPT !.faza = f, !.delta = d, !.upis = u]
  <2>1. u \in UpisTip  BY OdlukaTip
  <2>2. d \in DeltaTip  BY <1>2, SlobodanTip DEF DeltaTip
  <2>3. f \in Faze  BY DEF Faze
  <2>4. Nastavi(t, novi)  BY <1>5 DEF Odluci
  <2> HIDE DEF u, d, f
  <2>5. novi \in RazgovorTip
    BY <1>1, <2>1, <2>2, <2>3 DEF RazgovorTip, UpisTip, DeltaTip
  <2> HIDE DEF novi
  <2>6. razg' \in [Razgovori -> RazgovorTip]  BY <2>4, <2>5, NastaviTip
  <2>7. odbijeneOd' \in [Cvor -> [Cvor -> [granica : Granice, ograda : Ograde]]]
    <3>1. CASE Preskoceno(x)
      <4>1. odbijeneOd[x.r][x.s] \in [granica : Granice, ograda : Ograde]
        BY <1>2 DEF TypeOK
      <4>2. [odbijeneOd[x.r][x.s] EXCEPT !.granica = 0] \in [granica : Granice, ograda : Ograde]
        BY <1>2, <4>1, OznakeTip, OdbijeneTip
      <4>3. odbijeneOd' = [odbijeneOd EXCEPT ![x.r][x.s] = [@ EXCEPT !.granica = 0]]
        BY <1>5, <3>1 DEF Odluci
      <4> QED  BY <1>2, <4>2, <4>3, OznakeTip, OdbijeneTip
    <3>2. CASE ~Preskoceno(x)
      BY <1>5, <3>2 DEF Odluci, TypeOK
    <3> QED  BY <3>1, <3>2
  <2>8. noviZapis' \subseteq Razgovori
    BY <1>5 DEF Odluci, TypeOK, Zapisi, Prima
  <2> QED  BY <1>5, <2>6, <2>7, <2>8 DEF Odluci, TypeOK, trajno, postavke
<1> QED  BY <1>4, <1>5

\* One transaction on the record of gaps.
LEMMA PromijeniRupeTip ==
    ASSUME TypeOK, NEW n \in Cvor, NEW staro, NEW novo \in RupeKljuca,
           PromijeniRupe(n, staro, novo)
    PROVE  /\ rupe' \in [Cvor -> RupeKljuca]
           /\ zapisano' \in [Cvor -> [ima : BOOLEAN, odbija : Pravila \cup {{}}]]
           /\ rastRupa' \subseteq Razgovori
<1>1. rupe' \in [Cvor -> RupeKljuca]  BY DEF PromijeniRupe, TypeOK
<1>2. zapisano' \in [Cvor -> [ima : BOOLEAN, odbija : Pravila \cup {{}}]]
  <2>1. ograda[n].odbija \in Pravila \cup {{}}  BY DEF TypeOK, Ograde
  <2>2. [ima |-> TRUE, odbija |-> ograda[n].odbija] \in [ima : BOOLEAN, odbija : Pravila \cup {{}}]
    BY <2>1
  <2> QED  BY <2>2 DEF PromijeniRupe, TypeOK
<1>3. rastRupa' \subseteq Razgovori  BY DEF PromijeniRupe, TypeOK, Salje
<1> QED  BY <1>1, <1>2, <1>3

\* The write under the lock.
LEMMA UpisKorakTip ==
    ASSUME TypeOK, NEW t \in Razgovori,
           ZapisiRupe(t) \/ UpisiVerzije(t) \/ SuziRupe(t)
    PROVE  TypeOK'
<1> DEFINE x == razg[t]
<1>1. x \in RazgovorTip  BY DEF TypeOK
<1>2. x.r \in Cvor /\ x.upis \in UpisTip /\ x.upis.promjena \in PromjeneKljuca
      /\ x.upis.verzije \in SUBSET Verzije /\ x.upis.odbijeno \in Granice
  BY <1>1, DijeloviTip DEF UpisTip
<1>3. UskladjenoPravilo(x.r) \in RupeKljuca /\ UzOgradu(x) \in PromjeneKljuca
  BY <1>1, <1>2, PocetakTip, UzOgraduTip
<1>4. CASE ZapisiRupe(t)
  <2> DEFINE mijenja == x.upis.pravilo \/ Ima(x.upis, x.prima.trazi)
             staro == UskladjenoPravilo(x.r)
             promjena == IF mijenja THEN UzOgradu(x) ELSE x.upis.promjena
             pop == PopunjavaRupu(x.r, x.upis.verzije)
             f == "prosireno"
             u == [x.upis EXCEPT !.promjena = promjena, !.pravilo = FALSE, !.popunjava = pop]
             novi == [x EXCEPT !.faza = f, !.upis = u]
  <2>1. promjena \in PromjeneKljuca  BY <1>2, <1>3
  <2>2. pop \in BOOLEAN  BY DEF PopunjavaRupu
  <2>3. f \in Faze  BY DEF Faze
  <2>4. Prosiri(promjena, staro) \in RupeKljuca  BY <1>3, <2>1, ZapisTip
  <2>5. Nastavi(t, novi)  BY <1>4 DEF ZapisiRupe
  <2>6. /\ rupe' \in [Cvor -> RupeKljuca]
        /\ zapisano' \in [Cvor -> [ima : BOOLEAN, odbija : Pravila \cup {{}}]]
        /\ rastRupa' \subseteq Razgovori
    <3>1. CASE mijenja
      <4>1. PromijeniRupe(x.r, staro, Prosiri(promjena, staro))
        BY <1>4, <3>1 DEF ZapisiRupe
      <4> HIDE DEF promjena, staro, x
      <4> QED  BY <1>2, <2>4, <4>1, PromijeniRupeTip
    <3>2. CASE ~mijenja
      BY <1>4, <3>2 DEF ZapisiRupe, TypeOK
    <3> QED  BY <3>1, <3>2
  <2>7. brava' \in [Cvor -> Razgovori \cup {Slobodna}]
    BY <1>2, <1>4 DEF ZapisiRupe, TypeOK
  <2> HIDE DEF promjena, pop, f
  <2>8. u \in UpisTip  BY <1>2, <2>1, <2>2 DEF UpisTip
  <2> HIDE DEF u
  <2>9. novi \in RazgovorTip  BY <1>1, <2>3, <2>8 DEF RazgovorTip, UpisTip
  <2> HIDE DEF novi
  <2>10. razg' \in [Razgovori -> RazgovorTip]  BY <2>5, <2>9, NastaviTip
  <2> QED  BY <1>4, <2>6, <2>7, <2>10 DEF ZapisiRupe, TypeOK, postavke, pamcenje
<1>5. CASE UpisiVerzije(t)
  <2> DEFINE f == "upisano"
             pop == x.upis.popunjava /\ ~(x.upis.verzije \subseteq knjiga[x.r])
             u == [x.upis EXCEPT !.popunjava = pop]
             novi == [x EXCEPT !.faza = f, !.upis = u]
  <2>1. f \in Faze /\ pop \in BOOLEAN  BY <1>2 DEF Faze, UpisTip
  <2>2. Nastavi(t, novi)  BY <1>5 DEF UpisiVerzije
  <2>3. knjiga' \in [Cvor -> SUBSET Verzije]  BY <1>2, <1>5 DEF UpisiVerzije, TypeOK
  <2> HIDE DEF f, pop
  <2>4. u \in UpisTip  BY <1>2, <2>1 DEF UpisTip
  <2> HIDE DEF u
  <2>5. novi \in RazgovorTip  BY <1>1, <2>1, <2>4 DEF RazgovorTip, UpisTip
  <2> HIDE DEF novi
  <2>6. razg' \in [Razgovori -> RazgovorTip]  BY <2>2, <2>5, NastaviTip
  <2> QED  BY <1>5, <2>3, <2>6 DEF UpisiVerzije, TypeOK, postavke, pamcenje, oznake
<1>6. CASE SuziRupe(t)
  <2> DEFINE staro == UskladjenoPravilo(x.r)
             promjena == UzOgradu(x)
             f == "zapamti"
             u == [PrazanUpis EXCEPT !.odbijeno = x.upis.odbijeno]
             novi == [x EXCEPT !.faza = f, !.upis = u]
  <2>1. f \in Faze  BY DEF Faze
  <2>2. u \in UpisTip  BY <1>2, SlobodanTip DEF UpisTip
  <2>3. Nastavi(t, novi)  BY <1>6 DEF SuziRupe
  <2>4. Suzi(promjena, staro) \in RupeKljuca  BY <1>3, ZapisTip
  <2>5. /\ rupe' \in [Cvor -> RupeKljuca]
        /\ zapisano' \in [Cvor -> [ima : BOOLEAN, odbija : Pravila \cup {{}}]]
        /\ rastRupa' \subseteq Razgovori
    <3>1. CASE PromijeniRupe(x.r, staro, Suzi(promjena, staro))
      <4> HIDE DEF promjena, staro, x
      <4> QED  BY <1>2, <2>4, <3>1, PromijeniRupeTip
    <3>2. CASE UNCHANGED <<rupe, zapisano, rastRupa>>
      BY <3>2 DEF TypeOK
    <3> QED  BY <1>6, <3>1, <3>2 DEF SuziRupe
  <2>6. brava' \in [Cvor -> Razgovori \cup {Slobodna}]
    BY <1>2, <1>6 DEF SuziRupe, TypeOK
  <2>7. zaCvor' \in [Cvor -> [Cvor -> Granice]] /\ noviUvoz' \subseteq Razgovori
    <3>1. CASE ZabiljeziUvoz(x.r)
      BY <1>2, <3>1, OznakeTip DEF ZabiljeziUvoz, TypeOK, Salje
    <3>2. CASE UNCHANGED <<zaCvor, noviUvoz>>
      BY <3>2 DEF TypeOK
    <3> QED  BY <1>6, <3>1, <3>2 DEF SuziRupe
  <2> HIDE DEF f, u
  <2>8. novi \in RazgovorTip  BY <1>1, <2>1, <2>2 DEF RazgovorTip, UpisTip
  <2> HIDE DEF novi
  <2>9. razg' \in [Razgovori -> RazgovorTip]  BY <2>3, <2>8, NastaviTip
  <2> QED  BY <1>6, <2>5, <2>6, <2>7, <2>9 DEF SuziRupe, TypeOK, postavke
<1> QED  BY <1>4, <1>5, <1>6

\* What is remembered after the write.
LEMMA PamtiKorakTip ==
    ASSUME TypeOK, NEW t \in Razgovori, ZapamtiOdbijene(t) \/ ZapamtiUvoz(t)
    PROVE  TypeOK'
<1> DEFINE x == razg[t]
<1>1. x \in RazgovorTip  BY DEF TypeOK
<1>2. /\ x.s \in Cvor /\ x.r \in Cvor /\ x.upis.odbijeno \in Granice
      /\ x.delta.verzije \in SUBSET Verzije
  BY <1>1, DijeloviTip DEF UpisTip, DeltaTip
<1>3. CASE ZapamtiOdbijene(t)
  <2> DEFINE z == odbijeneOd[x.r][x.s]
             vrijedi == z.granica # 0 /\ JosOdbija(z.ograda, ograda[x.r])
             g == IF vrijedi THEN Veci(z.granica, x.upis.odbijeno) ELSE x.upis.odbijeno
             nz == [granica |-> g, ograda |-> ograda[x.r]]
             f == "zelje"
             novi == [x EXCEPT !.faza = f, !.prima = PocetakPrimatelja, !.upis = PrazanUpis]
  <2>1. z.granica \in Granice /\ ograda[x.r] \in Ograde  BY <1>2 DEF TypeOK
  <2>2. g \in Granice  BY <1>2, <2>1, OznakeTip
  <2>3. nz \in [granica : Granice, ograda : Ograde]  BY <2>1, <2>2
  <2>4. odbijeneOd' \in [Cvor -> [Cvor -> [granica : Granice, ograda : Ograde]]]
        /\ noviZapis' \subseteq Razgovori
    <3>1. CASE x.upis.odbijeno # 0 /\ SmijeUpisati(t)
      <4>1. odbijeneOd' = [odbijeneOd EXCEPT ![x.r][x.s] = nz]
        BY <1>3, <3>1 DEF ZapamtiOdbijene
      <4>2. noviZapis' \subseteq Razgovori
        BY <1>3, <3>1 DEF ZapamtiOdbijene, TypeOK, Zapisi, Prima
      <4> HIDE DEF nz, x
      <4> QED  BY <1>2, <2>3, <4>1, <4>2, OznakeTip, OdbijeneTip
    <3>2. CASE ~(x.upis.odbijeno # 0 /\ SmijeUpisati(t))
      BY <1>3, <3>2 DEF ZapamtiOdbijene, TypeOK
    <3> QED  BY <3>1, <3>2
  <2>5. Nastavi(t, novi)  BY <1>3 DEF ZapamtiOdbijene
  <2>6. f \in Faze  BY DEF Faze
  <2> HIDE DEF f
  <2>7. novi \in RazgovorTip
    BY <1>1, <2>6, SlobodanTip DEF RazgovorTip, PrimaTip, UpisTip
  <2> HIDE DEF novi
  <2>8. razg' \in [Razgovori -> RazgovorTip]  BY <2>5, <2>7, NastaviTip
  <2> QED  BY <1>3, <2>4, <2>8 DEF ZapamtiOdbijene, TypeOK, trajno, postavke
<1>4. CASE ZapamtiUvoz(t)
  <2> DEFINE g == IF t \in noviUvoz THEN 0
                  ELSE Veci(zaCvor[x.s][x.r], Granica(x.delta.verzije))
  <2>1. g \in Granice
    BY <1>2, GranicaTip, OznakeTip DEF TypeOK
  <2>2. zaCvor' = [zaCvor EXCEPT ![x.s][x.r] = g]
    BY <1>4 DEF ZapamtiUvoz
  <2>3. zaCvor' \in [Cvor -> [Cvor -> Granice]]
    <3>1. zaCvor[x.s] \in [Cvor -> Granice]  BY <1>2 DEF TypeOK
    <3> HIDE DEF g, x
    <3> QED  BY <1>2, <2>1, <2>2, <3>1 DEF TypeOK
  <2>4. Zavrsi({t})  BY <1>4 DEF ZapamtiUvoz
  <2> QED  BY <1>4, <2>3, <2>4, ZavrsiTip DEF ZapamtiUvoz, TypeOK, trajno, postavke
<1> QED  BY <1>3, <1>4

\* A talk that begins, and a talk that ends before its time.
LEMMA KrajTip ==
    ASSUME TypeOK, NEW t \in Razgovori,
           \/ \E v \in Veze : Zapocni(t, v[1], v[2])
           \/ BravaNijeStigla(t) \/ Prekid(t) \/ UpisPao(t)
    PROVE  TypeOK'
<1>1. ASSUME NEW v \in Veze, Zapocni(t, v[1], v[2])  PROVE TypeOK'
  <2> DEFINE f == "pocetak"
             novi == [Slobodan EXCEPT !.faza = f, !.s = v[1], !.r = v[2]]
  <2>1. v[1] \in Cvor /\ v[2] \in Cvor
    BY RazmjenaPretpostavka DEF Primatelji
  <2>2. f \in Faze  BY DEF Faze
  <2>3. Nastavi(t, novi)  BY <1>1 DEF Zapocni
  <2> HIDE DEF f
  <2>4. novi \in RazgovorTip  BY <2>1, <2>2, SlobodanTip DEF RazgovorTip
  <2> HIDE DEF novi
  <2>5. razg' \in [Razgovori -> RazgovorTip]  BY <2>3, <2>4, NastaviTip
  <2> QED  BY <1>1, <2>5 DEF Zapocni, TypeOK, trajno, postavke, pamcenje, oznake
<1>2. CASE BravaNijeStigla(t)
  BY <1>2, ZavrsiTip DEF BravaNijeStigla, TypeOK, trajno, postavke, pamcenje
<1>3. CASE Prekid(t)
  BY <1>3, ZavrsiTip DEF Prekid, TypeOK, trajno, postavke, pamcenje
<1>4. CASE UpisPao(t)
  <2>1. brava' \in [Cvor -> Razgovori \cup {Slobodna}]  BY <1>4 DEF UpisPao, TypeOK
  <2> QED  BY <1>4, <2>1, ZavrsiTip DEF UpisPao, TypeOK, trajno, postavke, pamcenje
<1> QED  BY <1>1, <1>2, <1>3, <1>4

\* What happens to a node outside the talks.
LEMMA CvorTip ==
    ASSUME TypeOK, NEW n \in Cvor,
           \/ PromijeniPravilo(n) \/ PomakniRub(n) \/ VratiRub(n) \/ PromijeniPretplatu(n)
           \/ ObrisiKanal(n) \/ PonovnoPokreni(n) \/ PripremiRupe(n)
           \/ \E s \in Cvor : Istekne(n, s)
    PROVE  TypeOK'
<1> DEFINE Z == [granica : Granice, ograda : Ograde]
           prazno == [s \in Cvor |-> [granica |-> 0, ograda |-> BezOgrade]]
<1>1. prazno \in [Cvor -> Z]  BY OznakeTip, SlobodanTip
<1>2. [odbijeneOd EXCEPT ![n] = prazno] \in [Cvor -> [Cvor -> Z]]
      /\ [zaCvor EXCEPT ![n] = [r \in Cvor |-> 0]] \in [Cvor -> [Cvor -> Granice]]
  BY <1>1, OznakeTip DEF TypeOK
<1>3. ASSUME NEW vrsta, Smetnja(vrsta)  PROVE smetnji' \in 0 .. NajviseSmetnji
  BY <1>3, RazmjenaPretpostavka DEF Smetnja, TypeOK
<1>4. CASE PromijeniPravilo(n)
  <2>1. PICK p \in Pravila :
            ograda' = [ograda EXCEPT ![n] = [narastaj |-> @.narastaj + 1, odbija |-> p]]
    BY <1>4 DEF PromijeniPravilo
  <2>2. [narastaj |-> ograda[n].narastaj + 1, odbija |-> p] \in Ograde
    BY DEF TypeOK, Ograde
  <2>3. ograda' \in [Cvor -> Ograde]  BY <2>1, <2>2 DEF TypeOK
  <2>4. smetnji' \in 0 .. NajviseSmetnji  BY <1>3, <1>4 DEF PromijeniPravilo
  <2> QED  BY <1>4, <2>3, <2>4 DEF PromijeniPravilo, TypeOK, trajno, pamcenje, oznake
<1>5. CASE PomakniRub(n) \/ VratiRub(n)
  <2>1. PICK p \in Pravila : ograda' = [ograda EXCEPT ![n] = [@ EXCEPT !.odbija = p]]
    BY <1>5 DEF PomakniRub, VratiRub
  <2>2. ograda[n] \in Ograde  BY DEF TypeOK
  <2>3. [ograda[n] EXCEPT !.odbija = p] \in Ograde  BY <2>2 DEF Ograde
  <2>4. ograda' \in [Cvor -> Ograde]  BY <2>1, <2>3 DEF TypeOK
  <2>5. smetnji' \in 0 .. NajviseSmetnji  BY <1>3, <1>5 DEF PomakniRub, VratiRub
  <2> QED  BY <1>5, <2>4, <2>5 DEF PomakniRub, VratiRub, TypeOK, trajno, pamcenje, oznake
<1>6. CASE PromijeniPretplatu(n)
  <2>1. odbijeneOd' \in [Cvor -> [Cvor -> Z]] /\ zaborav' \subseteq Razgovori
    BY <1>2, <1>6 DEF PromijeniPretplatu, ZaboraviOdbijene, TypeOK, Prima
  <2>2. prati' \in [Cvor -> BOOLEAN]  BY <1>6 DEF PromijeniPretplatu, TypeOK
  <2>3. smetnji' \in 0 .. NajviseSmetnji  BY <1>3, <1>6 DEF PromijeniPretplatu
  <2> QED  BY <1>6, <2>1, <2>2, <2>3 DEF PromijeniPretplatu, TypeOK, trajno
<1>7. CASE ObrisiKanal(n)
  <2>1. odbijeneOd' \in [Cvor -> [Cvor -> Z]] /\ zaborav' \subseteq Razgovori
    BY <1>2, <1>7 DEF ObrisiKanal, ZaboraviOdbijene, TypeOK, Prima
  <2>2. knjiga' \in [Cvor -> SUBSET Verzije]  BY <1>7 DEF ObrisiKanal, TypeOK
  <2>3. rupe' \in [Cvor -> RupeKljuca]  BY <1>7, OznakeTip DEF ObrisiKanal, TypeOK
  <2>4. zaCvor' \in [Cvor -> [Cvor -> Granice]] /\ noviUvoz' \subseteq Razgovori
    <3>1. CASE ZabiljeziUvoz(n)
      BY <1>2, <3>1 DEF ZabiljeziUvoz, TypeOK, Salje
    <3>2. CASE UNCHANGED <<zaCvor, noviUvoz>>
      BY <3>2 DEF TypeOK
    <3> QED  BY <1>7, <3>1, <3>2 DEF ObrisiKanal
  <2> QED  BY <1>7, <2>1, <2>2, <2>3, <2>4 DEF ObrisiKanal, TypeOK, postavke
<1>8. CASE PonovnoPokreni(n)
  <2>1. odbijeneOd' \in [Cvor -> [Cvor -> Z]] /\ zaCvor' \in [Cvor -> [Cvor -> Granice]]
    BY <1>2, <1>8 DEF PonovnoPokreni, NoviZivot
  <2>2. brava' \in [Cvor -> Razgovori \cup {Slobodna}]
    BY <1>8 DEF PonovnoPokreni, TypeOK
  <2>3. ASSUME NEW u \in Razgovori
        PROVE  [razg[u] EXCEPT !.prekinut = TRUE] \in RazgovorTip
    <3>1. razg[u] \in RazgovorTip  BY DEF TypeOK
    <3> QED  BY <3>1 DEF RazgovorTip
  <2>4. razg' \in [Razgovori -> RazgovorTip]
    BY <1>8, <2>3, SlobodanTip DEF PonovnoPokreni, TypeOK
  <2>5. rastRupa' \subseteq Razgovori /\ noviUvoz' \subseteq Razgovori
        /\ zaborav' \subseteq Razgovori /\ noviZapis' \subseteq Razgovori
    BY <1>8 DEF PonovnoPokreni, TypeOK
  <2> QED  BY <1>8, <2>1, <2>2, <2>4, <2>5 DEF PonovnoPokreni, TypeOK, trajno, postavke
<1>9. CASE PripremiRupe(n)
  <2>1. UskladjenoPravilo(n) \in RupeKljuca  BY PocetakTip
  <2>2. /\ rupe' \in [Cvor -> RupeKljuca]
        /\ zapisano' \in [Cvor -> [ima : BOOLEAN, odbija : Pravila \cup {{}}]]
        /\ rastRupa' \subseteq Razgovori
    BY <1>9, <2>1, PromijeniRupeTip DEF PripremiRupe
  <2> QED  BY <1>9, <2>2 DEF PripremiRupe, TypeOK, postavke, pamcenje
<1>10. ASSUME NEW s \in Cvor, Istekne(n, s)  PROVE TypeOK'
  <2>1. odbijeneOd[n][s] \in Z  BY DEF TypeOK
  <2>2. [odbijeneOd[n][s] EXCEPT !.granica = 0] \in Z
    BY <2>1, OznakeTip, OdbijeneTip
  <2>3. odbijeneOd' = [odbijeneOd EXCEPT ![n][s] = [@ EXCEPT !.granica = 0]]
    BY <1>10 DEF Istekne
  <2>4. odbijeneOd' \in [Cvor -> [Cvor -> Z]]
    BY <2>2, <2>3, OznakeTip, OdbijeneTip
  <2> QED  BY <1>10, <2>4 DEF Istekne, TypeOK, trajno, postavke, oznake
<1> QED  BY <1>4, <1>5, <1>6, <1>7, <1>8, <1>9, <1>10

LEMMA PocetnoTip == Init => TypeOK
<1> SUFFICES ASSUME Init PROVE TypeOK  OBVIOUS
<1>1. \A n \in Cvor : PocetnaKnjiga[n] \in SUBSET Verzije
  BY RazmjenaPretpostavka DEF Verzije
<1>2. knjiga \in [Cvor -> SUBSET Verzije]  BY <1>1, RazmjenaPretpostavka DEF Init
<1>3. ograda \in [Cvor -> Ograde]  BY RazmjenaPretpostavka DEF Init, Ograde
<1>4. odbijeneOd \in [Cvor -> [Cvor -> [granica : Granice, ograda : Ograde]]]
      /\ zaCvor \in [Cvor -> [Cvor -> Granice]]
  BY OznakeTip, SlobodanTip DEF Init
<1>5. smetnji \in 0 .. NajviseSmetnji  BY RazmjenaPretpostavka DEF Init
<1> QED  BY <1>2, <1>3, <1>4, <1>5, OznakeTip, SlobodanTip DEF Init, TypeOK

LEMMA KorakTip == TypeOK /\ [Next]_vars => TypeOK'
<1> SUFFICES ASSUME TypeOK, [Next]_vars PROVE TypeOK'  OBVIOUS
<1>1. CASE Napisi
  <2>1. Autor \in Cvor /\ knjiga[Autor] \in SUBSET Verzije
    BY RazmjenaPretpostavka DEF TypeOK
  <2>2. Granica(knjiga[Autor]) + 1 \in Verzije
    BY <1>1, <2>1, GranicaTip, RazmjenaPretpostavka DEF Napisi, Granice, Verzije
  <2>3. knjiga' \in [Cvor -> SUBSET Verzije]  BY <1>1, <2>1, <2>2 DEF Napisi, TypeOK
  <2> QED  BY <1>1, <2>3 DEF Napisi, TypeOK, postavke, pamcenje, oznake
<1>2. ASSUME NEW t \in Razgovori,
             \/ \E v \in Veze : Zapocni(t, v[1], v[2])
             \/ Korak(t) \/ BravaNijeStigla(t) \/ Prekid(t) \/ UpisPao(t)
      PROVE  TypeOK'
  BY <1>2, PocetakKorakTip, DeltaKorakTip, UpisKorakTip, PamtiKorakTip, KrajTip DEF Korak
<1>3. ASSUME NEW n \in Podesivi,
             \/ PromijeniPravilo(n) \/ PomakniRub(n) \/ VratiRub(n)
             \/ PromijeniPretplatu(n) \/ ObrisiKanal(n)
      PROVE  TypeOK'
  <2>1. n \in Cvor  BY RazmjenaPretpostavka DEF Primatelji
  <2> QED  BY <1>3, <2>1, CvorTip
<1>4. ASSUME NEW n \in Primatelji,
             PonovnoPokreni(n) \/ PripremiRupe(n) \/ \E s \in Cvor : Istekne(n, s)
      PROVE  TypeOK'
  BY <1>4, CvorTip DEF Primatelji
<1>5. CASE UNCHANGED vars
  BY <1>5 DEF vars, TypeOK
<1> QED  BY <1>1, <1>2, <1>3, <1>4, <1>5 DEF Next

\* Every state of the exchange is well typed, for any nodes, rules and talks.
THEOREM TipOcuvan == Spec => []TypeOK
BY PocetnoTip, KorakTip, PTL DEF Spec

-----------------------------------------------------------------------------
(* One write at a time. JedanUpis alone is not inductive: a lock held by a  *)
(* talk that is not writing into that node would let it be broken later, so *)
(* the second conjunct says that a lock that is held is held for a write.   *)

Zakljucano ==
    /\ \A t \in Razgovori : razg[t].faza \in PodBravom => brava[razg[t].r] = t
    /\ \A n \in Cvor : brava[n] # Slobodna =>
            razg[brava[n]].faza \in PodBravom /\ razg[brava[n]].r = n

\* A talk that is not writing before the step and not after it, and the locks
\* do not change.
LEMMA TihKorak ==
    ASSUME TypeOK, Zakljucano, NEW t \in Razgovori, UNCHANGED brava,
           \A u \in Razgovori \ {t} : razg'[u] = razg[u],
           razg[t].faza \notin PodBravom, razg'[t].faza \notin PodBravom
    PROVE  Zakljucano'
<1>1. ASSUME NEW u \in Razgovori, razg'[u].faza \in PodBravom
      PROVE  brava'[razg'[u].r] = u
  BY <1>1 DEF Zakljucano, TypeOK
<1>2. ASSUME NEW n \in Cvor, brava'[n] # Slobodna
      PROVE  razg'[brava'[n]].faza \in PodBravom /\ razg'[brava'[n]].r = n
  <2>1. brava[n] \in Razgovori /\ brava[n] # t
    BY <1>2 DEF Zakljucano, TypeOK
  <2> QED  BY <1>2, <2>1 DEF Zakljucano
<1> QED  BY <1>1, <1>2 DEF Zakljucano, PodBravom

\* The write ends, and its lock is released.
LEMMA PustenaBrava ==
    ASSUME TypeOK, Zakljucano, NEW t \in Razgovori,
           razg[t].faza \in PodBravom, razg'[t].faza \notin PodBravom,
           \A u \in Razgovori \ {t} : razg'[u] = razg[u],
           brava' = [brava EXCEPT ![razg[t].r] = Slobodna]
    PROVE  Zakljucano'
<1>0. razg[t].r \in Cvor /\ \A u \in Razgovori : razg[u].r \in Cvor
  BY DijeloviTip DEF TypeOK
<1>1. ASSUME NEW u \in Razgovori, razg'[u].faza \in PodBravom
      PROVE  brava'[razg'[u].r] = u
  <2>1. u # t /\ razg'[u] = razg[u] /\ razg[u].faza \in PodBravom  BY <1>1
  <2>2. brava[razg[u].r] = u /\ brava[razg[t].r] = t  BY <2>1 DEF Zakljucano
  <2> QED  BY <1>0, <2>1, <2>2 DEF TypeOK
<1>2. ASSUME NEW n \in Cvor, brava'[n] # Slobodna
      PROVE  razg'[brava'[n]].faza \in PodBravom /\ razg'[brava'[n]].r = n
  <2>1. n # razg[t].r /\ brava'[n] = brava[n]  BY <1>0, <1>2 DEF TypeOK
  <2>2. brava[n] \in Razgovori /\ razg[brava[n]].faza \in PodBravom /\ razg[brava[n]].r = n
    BY <1>2, <2>1 DEF Zakljucano, TypeOK
  <2> QED  BY <2>1, <2>2
<1> QED  BY <1>1, <1>2 DEF Zakljucano, PodBravom

LEMMA ZavrsenTih ==
    ASSUME TypeOK, Zakljucano, NEW t \in Razgovori, Zavrsi({t}), UNCHANGED brava,
           razg[t].faza \notin PodBravom
    PROVE  Zakljucano'
<1>1. razg'[t].faza \notin PodBravom  BY ZavrsiTip DEF Slobodan, PodBravom
<1>2. \A u \in Razgovori \ {t} : razg'[u] = razg[u]  BY ZavrsiTip
<1> QED  BY <1>1, <1>2, TihKorak

LEMMA NastavljenTih ==
    ASSUME TypeOK, Zakljucano, NEW t \in Razgovori, NEW novi, Nastavi(t, novi),
           UNCHANGED brava, razg[t].faza \notin PodBravom, novi.faza \notin PodBravom
    PROVE  Zakljucano'
<1>1. razg'[t] = novi /\ \A u \in Razgovori \ {t} : razg'[u] = razg[u]
  BY DEF Nastavi, TypeOK
<1> QED  BY <1>1, TihKorak

\* A step that changes neither the talks nor the locks.
LEMMA BezRazgovora ==
    ASSUME Zakljucano, UNCHANGED <<razg, brava>>
    PROVE  Zakljucano'
BY DEF Zakljucano, PodBravom

LEMMA BravaKorak ==
    ASSUME TypeOK, Zakljucano, NEW t \in Razgovori,
           \/ \E v \in Veze : Zapocni(t, v[1], v[2])
           \/ Korak(t) \/ BravaNijeStigla(t) \/ Prekid(t) \/ UpisPao(t)
    PROVE  Zakljucano'
<1> DEFINE x == razg[t]
<1>0. x \in RazgovorTip /\ x.r \in Cvor  BY DijeloviTip DEF TypeOK
<1>1. ASSUME NEW v \in Veze, Zapocni(t, v[1], v[2])  PROVE Zakljucano'
  <2> DEFINE novi == [Slobodan EXCEPT !.faza = "pocetak", !.s = v[1], !.r = v[2]]
  <2>1. Nastavi(t, novi) /\ x.faza \notin PodBravom /\ UNCHANGED brava
    BY <1>1 DEF Zapocni, PodBravom
  <2>2. novi.faza \notin PodBravom  BY DEF Slobodan, PodBravom
  <2> HIDE DEF novi, x
  <2> QED  BY <2>1, <2>2, NastavljenTih DEF x
<1>2. ASSUME NEW sa
      PROVE  /\ [x EXCEPT !.salje = sa].faza = x.faza
             /\ [x EXCEPT !.prima = sa].faza = x.faza
  BY <1>0 DEF RazgovorTip
<1>3. CASE \/ GranicaPosiljatelja(t) \/ RupePosiljatelja(t)
           \/ GranicaPrimatelja(t) \/ RupePrimatelja(t)
  <2>1. x.faza \notin PodBravom /\ UNCHANGED brava
    BY <1>3 DEF GranicaPosiljatelja, RupePosiljatelja, GranicaPrimatelja, RupePrimatelja, PodBravom
  <2>2. \E sa : Nastavi(t, [x EXCEPT !.salje = sa]) \/ Nastavi(t, [x EXCEPT !.prima = sa])
    BY <1>3 DEF GranicaPosiljatelja, RupePosiljatelja, GranicaPrimatelja, RupePrimatelja
  <2>3. PICK sa : Nastavi(t, [x EXCEPT !.salje = sa]) \/ Nastavi(t, [x EXCEPT !.prima = sa])
    BY <2>2
  <2> QED  BY <1>2, <2>1, <2>3, NastavljenTih
<1>4. CASE NePrati(t) \/ BravaNijeStigla(t) \/ ZapamtiUvoz(t) \/ Prekid(t)
  BY <1>4, ZavrsenTih DEF NePrati, BravaNijeStigla, ZapamtiUvoz, Prekid, PodBravom
<1>5. CASE SloziDeltu(t)
  <2>1. PICK d : Nastavi(t, [x EXCEPT !.faza = "delta", !.delta = d,
                                      !.salje = PocetakPosiljatelja])
    BY <1>5 DEF SloziDeltu
  <2>2. [x EXCEPT !.faza = "delta", !.delta = d, !.salje = PocetakPosiljatelja].faza = "delta"
    BY <1>0 DEF RazgovorTip
  <2>3. x.faza \notin PodBravom /\ "delta" \notin PodBravom /\ UNCHANGED brava
    BY <1>5 DEF SloziDeltu, PodBravom
  <2> HIDE DEF x
  <2> QED  BY <2>1, <2>2, <2>3, NastavljenTih DEF x
<1>6. CASE Odluci(t)
  <2>1. PICK f \in {"zapamti", "brava"} : \E d, u :
            Nastavi(t, [x EXCEPT !.faza = f, !.delta = d, !.upis = u])
    <3> DEFINE upis == OdlukaZaUpis(x)
               f0 == IF Nista(upis, x.prima.trazi) THEN "zapamti" ELSE "brava"
               d0 == [PraznaDelta EXCEPT !.verzije = x.delta.verzije]
    <3>1. Nastavi(t, [x EXCEPT !.faza = f0, !.delta = d0, !.upis = upis])
      BY <1>6 DEF Odluci
    <3>2. f0 \in {"zapamti", "brava"}
      OBVIOUS
    <3> HIDE DEF f0, d0, upis, x
    <3> QED  BY <3>1, <3>2
  <2>2. PICK d, u : Nastavi(t, [x EXCEPT !.faza = f, !.delta = d, !.upis = u])
    BY <2>1
  <2>3. [x EXCEPT !.faza = f, !.delta = d, !.upis = u].faza = f
    BY <1>0 DEF RazgovorTip
  <2>4. x.faza \notin PodBravom /\ f \notin PodBravom /\ UNCHANGED brava
    BY <1>6, <2>1 DEF Odluci, PodBravom
  <2> HIDE DEF x
  <2> QED  BY <2>2, <2>3, <2>4, NastavljenTih DEF x
<1>7. CASE ZapamtiOdbijene(t)
  <2> DEFINE novi == [x EXCEPT !.faza = "zelje", !.prima = PocetakPrimatelja,
                               !.upis = PrazanUpis]
  <2>1. Nastavi(t, novi) /\ x.faza \notin PodBravom /\ UNCHANGED brava
    BY <1>7 DEF ZapamtiOdbijene, PodBravom
  <2>2. novi.faza = "zelje"  BY <1>0 DEF RazgovorTip
  <2>3. novi.faza \notin PodBravom  BY <2>2 DEF PodBravom
  <2> HIDE DEF novi, x
  <2> QED  BY <2>1, <2>3, NastavljenTih DEF x
<1>8. CASE ZapisiRupe(t)
  <2>1. PICK u : Nastavi(t, [x EXCEPT !.faza = "prosireno", !.upis = u])
    BY <1>8 DEF ZapisiRupe
  <2>2. /\ razg'[t] = [x EXCEPT !.faza = "prosireno", !.upis = u]
        /\ \A w \in Razgovori \ {t} : razg'[w] = razg[w]
    BY <2>1 DEF Nastavi, TypeOK
  <2>3. razg'[t].faza \in PodBravom /\ razg'[t].r = x.r
    BY <1>0, <2>2 DEF RazgovorTip, PodBravom
  <2>4. brava[x.r] = Slobodna /\ brava' = [brava EXCEPT ![x.r] = t]
    BY <1>8 DEF ZapisiRupe
  <2>5. ASSUME NEW w \in Razgovori, razg'[w].faza \in PodBravom
        PROVE  brava'[razg'[w].r] = w
    <3>1. CASE w = t  BY <1>0, <2>3, <2>4, <3>1 DEF TypeOK
    <3>2. CASE w # t
      <4>1. brava[razg[w].r] = w /\ razg[w].r \in Cvor /\ w # Slobodna
        BY <2>2, <2>5, <3>2, DijeloviTip, RazmjenaPretpostavka DEF Zakljucano, TypeOK, Slobodna
      <4> QED  BY <2>2, <2>4, <3>2, <4>1 DEF TypeOK
    <3> QED  BY <3>1, <3>2
  <2>6. ASSUME NEW n \in Cvor, brava'[n] # Slobodna
        PROVE  razg'[brava'[n]].faza \in PodBravom /\ razg'[brava'[n]].r = n
    <3>1. CASE n = x.r  BY <1>0, <2>3, <2>4, <3>1 DEF TypeOK
    <3>2. CASE n # x.r
      <4>1. brava'[n] = brava[n] /\ brava[n] \in Razgovori
            /\ razg[brava[n]].faza \in PodBravom /\ razg[brava[n]].r = n
        BY <2>4, <2>6, <3>2 DEF Zakljucano, TypeOK
      <4>2. brava[n] # t  BY <3>2, <4>1
      <4> QED  BY <2>2, <4>1, <4>2
    <3> QED  BY <3>1, <3>2
  <2> QED  BY <2>5, <2>6 DEF Zakljucano, PodBravom
<1>9. CASE UpisiVerzije(t)
  <2>1. PICK u : Nastavi(t, [x EXCEPT !.faza = "upisano", !.upis = u])
    BY <1>9 DEF UpisiVerzije
  <2>2. /\ razg'[t] = [x EXCEPT !.faza = "upisano", !.upis = u]
        /\ \A w \in Razgovori \ {t} : razg'[w] = razg[w]
    BY <2>1 DEF Nastavi, TypeOK
  <2>3. razg'[t].faza \in PodBravom /\ razg'[t].r = x.r
    BY <1>0, <2>2 DEF RazgovorTip, PodBravom
  <2>4. x.faza \in PodBravom /\ brava' = brava  BY <1>9 DEF UpisiVerzije, PodBravom
  <2>5. \A w \in Razgovori : /\ razg'[w].r = razg[w].r
                             /\ razg'[w].faza \in PodBravom <=> razg[w].faza \in PodBravom
    BY <2>2, <2>3, <2>4
  <2>6. ASSUME NEW n \in Cvor, brava[n] # Slobodna  PROVE brava[n] \in Razgovori
    BY <2>6 DEF TypeOK
  <2> QED  BY <2>4, <2>5, <2>6 DEF Zakljucano, PodBravom
<1>10. CASE SuziRupe(t)
  <2>1. PICK u : Nastavi(t, [x EXCEPT !.faza = "zapamti", !.upis = u])
    BY <1>10 DEF SuziRupe
  <2>2. /\ razg'[t] = [x EXCEPT !.faza = "zapamti", !.upis = u]
        /\ \A w \in Razgovori \ {t} : razg'[w] = razg[w]
    BY <2>1 DEF Nastavi, TypeOK
  <2>3. razg'[t].faza \notin PodBravom  BY <1>0, <2>2 DEF RazgovorTip, PodBravom
  <2>4. x.faza \in PodBravom /\ brava' = [brava EXCEPT ![x.r] = Slobodna]
    BY <1>10 DEF SuziRupe, PodBravom
  <2> QED  BY <2>2, <2>3, <2>4, PustenaBrava
<1>11. CASE UpisPao(t)
  <2>1. brava' = [brava EXCEPT ![x.r] = Slobodna] /\ Zavrsi({t})
    BY <1>11 DEF UpisPao
  <2>2. razg'[t].faza \notin PodBravom  BY <2>1, ZavrsiTip DEF Slobodan, PodBravom
  <2>3. \A w \in Razgovori \ {t} : razg'[w] = razg[w]  BY <2>1, ZavrsiTip
  <2>4. CASE x.faza \in PodBravom  BY <2>1, <2>2, <2>3, <2>4, PustenaBrava
  <2>5. CASE x.faza \notin PodBravom
    <3>1. brava[x.r] = Slobodna  BY <1>11, <2>5 DEF UpisPao, PodBravom
    <3>2. brava' = brava  BY <1>0, <2>1, <3>1 DEF TypeOK
    <3> QED  BY <2>1, <2>5, <3>2, ZavrsenTih
  <2> QED  BY <2>4, <2>5
<1> QED
  BY <1>1, <1>3, <1>4, <1>5, <1>6, <1>7, <1>8, <1>9, <1>10, <1>11 DEF Korak

\* The node stops: its lock is gone, and so are the talks that write into it;
\* a talk that writes what it sent into another node goes on.
LEMMA BravaPad ==
    ASSUME TypeOK, Zakljucano, NEW n \in Cvor, PonovnoPokreni(n)
    PROVE  Zakljucano'
<1> DEFINE dovrsavaju == {t \in Razgovori : razg[t].s = n /\ razg[t].r # n
                              /\ razg[t].faza \in {"brava", "zapamti"} \cup PodBravom}
           gotovi == {t \in Razgovori \ dovrsavaju : n \in {razg[t].s, razg[t].r}}
<1>1. \A u \in Razgovori : razg'[u] = IF u \in gotovi THEN Slobodan
                                      ELSE IF u \in dovrsavaju
                                           THEN [razg[u] EXCEPT !.prekinut = TRUE]
                                           ELSE razg[u]
  BY DEF PonovnoPokreni
<1>2. brava' = [brava EXCEPT ![n] = Slobodna]  BY DEF PonovnoPokreni
<1>3. Slobodan.faza \notin PodBravom  BY DEF Slobodan, PodBravom
<1>4. ASSUME NEW u \in Razgovori
      PROVE  /\ razg[u].r \in Cvor
             /\ razg'[u].faza \in PodBravom =>
                    razg[u].faza \in PodBravom /\ razg[u].r # n /\ razg'[u].r = razg[u].r
             /\ razg[u].faza \in PodBravom /\ razg[u].r # n =>
                    razg'[u].faza \in PodBravom /\ razg'[u].r = razg[u].r
  <2>1. razg[u] \in RazgovorTip  BY DEF TypeOK
  <2>2. /\ [razg[u] EXCEPT !.prekinut = TRUE].faza = razg[u].faza
        /\ [razg[u] EXCEPT !.prekinut = TRUE].r = razg[u].r
        /\ razg[u].r \in Cvor
    BY <2>1 DEF RazgovorTip
  <2>3. CASE u \in gotovi
    BY <1>1, <1>3, <2>2, <2>3
  <2>4. CASE u \in dovrsavaju
    BY <1>1, <2>2, <2>4
  <2>5. CASE u \notin gotovi \cup dovrsavaju
    BY <1>1, <2>2, <2>5
  <2> QED  BY <2>3, <2>4, <2>5
<1>5. ASSUME NEW u \in Razgovori, razg'[u].faza \in PodBravom
      PROVE  brava'[razg'[u].r] = u
  <2> HIDE DEF gotovi, dovrsavaju
  <2>1. razg[u].faza \in PodBravom /\ razg[u].r # n /\ razg'[u].r = razg[u].r
        /\ razg[u].r \in Cvor
    BY <1>4, <1>5
  <2>2. brava[razg[u].r] = u  BY <2>1 DEF Zakljucano
  <2> QED  BY <1>2, <2>1, <2>2 DEF TypeOK
<1>6. ASSUME NEW c \in Cvor, brava'[c] # Slobodna
      PROVE  razg'[brava'[c]].faza \in PodBravom /\ razg'[brava'[c]].r = c
  <2>1. c # n /\ brava'[c] = brava[c]  BY <1>2, <1>6 DEF TypeOK
  <2>2. brava[c] \in Razgovori /\ razg[brava[c]].faza \in PodBravom /\ razg[brava[c]].r = c
    BY <1>6, <2>1 DEF Zakljucano, TypeOK
  <2> QED  BY <1>4, <2>1, <2>2
<1> QED  BY <1>5, <1>6 DEF Zakljucano, PodBravom

LEMMA ZakljucanoOcuvano == TypeOK /\ Zakljucano /\ [Next]_vars => Zakljucano'
<1> SUFFICES ASSUME TypeOK, Zakljucano, [Next]_vars PROVE Zakljucano'  OBVIOUS
<1>1. CASE Napisi
  BY <1>1, BezRazgovora DEF Napisi
<1>2. ASSUME NEW t \in Razgovori,
             \/ \E v \in Veze : Zapocni(t, v[1], v[2])
             \/ Korak(t) \/ BravaNijeStigla(t) \/ Prekid(t) \/ UpisPao(t)
      PROVE  Zakljucano'
  BY <1>2, BravaKorak
<1>3. ASSUME NEW n \in Podesivi,
             \/ PromijeniPravilo(n) \/ PomakniRub(n) \/ VratiRub(n)
             \/ PromijeniPretplatu(n) \/ ObrisiKanal(n)
      PROVE  Zakljucano'
  BY <1>3, BezRazgovora DEF PromijeniPravilo, PomakniRub, VratiRub, PromijeniPretplatu,
     ObrisiKanal
<1>4. ASSUME NEW n \in Primatelji,
             PonovnoPokreni(n) \/ PripremiRupe(n) \/ \E s \in Cvor : Istekne(n, s)
      PROVE  Zakljucano'
  <2>1. CASE PonovnoPokreni(n)  BY <2>1, BravaPad DEF Primatelji
  <2>2. CASE PripremiRupe(n) \/ \E s \in Cvor : Istekne(n, s)
    BY <2>2, BezRazgovora DEF PripremiRupe, Istekne
  <2> QED  BY <1>4, <2>1, <2>2
<1>5. CASE UNCHANGED vars
  BY <1>5, BezRazgovora DEF vars
<1> QED  BY <1>1, <1>2, <1>3, <1>4, <1>5 DEF Next

\* One talk at a time writes into a node, whatever fails or restarts: the lock
\* is held exactly by the talk that is writing (upis.go, bravaUpisa).
THEOREM JedanUpisOcuvan == Spec => []JedanUpis
<1>1. Init => Zakljucano
  BY DEF Init, Zakljucano, Slobodan, PodBravom
<1>2. TypeOK /\ Zakljucano => JedanUpis
  <2> SUFFICES ASSUME TypeOK, Zakljucano, NEW t \in Razgovori
               PROVE  razg[t].faza \in PodBravom <=> brava[razg[t].r] = t
    BY DEF JedanUpis
  <2>1. razg[t].r \in Cvor /\ t # Slobodna
    BY DijeloviTip, RazmjenaPretpostavka DEF TypeOK, Slobodna
  <2> QED  BY <2>1 DEF Zakljucano
<1> QED  BY <1>1, <1>2, ZakljucanoOcuvano, TipOcuvan, PTL DEF Spec

-----------------------------------------------------------------------------
(* The exchange implements Dostava, when no channel is deleted in the       *)
(* middle of a talk and the edge of the kept period does not move back.    *)

\* Everybody holds a part of the start the author wrote.
Poceci ==
    /\ knjiga[Autor] = 1 .. Granica(knjiga[Autor])
    /\ \A n \in Cvor : knjiga[n] \subseteq knjiga[Autor]

\* What a node misses below its frontier is in its record.
BezTihePraznine ==
    \A n \in Primatelji : \A v \in Nema(n) :
        v <= Granica(knjiga[n]) => v \in Zabiljezene(rupe[n])

\* What the sender read at the start tells all it misses up to the frontier it
\* read, and above it as long as its record did not grow.
SaljeUredno(t) ==
    LET x == razg[t] IN
    x.faza = "pocetak" =>
        /\ x.salje.granica <= Granica(knjiga[x.s])
        /\ x.salje.korak = 2 /\ x.s # Autor =>
              /\ \A v \in Nema(x.s) : v <= x.salje.granica => v \in Clanovi(x.salje.nejamci)
              /\ t \in rastRupa \/ Clanovi(NeJamci(rupe[x.s])) \subseteq Clanovi(x.salje.nejamci)

\* What the receiver read at the start is behind what it holds and refuses now.
PrimaUredno(t) ==
    LET x == razg[t] IN
    x.faza # "nema" =>
        /\ x.r \in Primatelji
        /\ x.prima.fs <= Granica(knjiga[x.r])
        /\ x.prima.ograda.narastaj <= ograda[x.r].narastaj

\* The guarantee of a delta.
Jamci(d) ==
    \A v \in knjiga[Autor] :
        (d.od < v /\ v <= Granica(d.verzije)) \/ v \in Clanovi(d.popuna)
        => v \in d.verzije \cup Clanovi(d.rupe)

DeltaUredna(t) ==
    LET x == razg[t] IN
    x.faza = "delta" =>
        /\ x.delta.verzije \subseteq knjiga[Autor]
        /\ x.delta.popuna.do <= Granica(knjiga[Autor])
        /\ x.delta.od <= Veci(x.prima.fs, x.prima.moje)
        /\ Jamci(x.delta)

Pise == {"brava"} \cup PodBravom

\* What a write V with the change p passes over or takes for covered, and does
\* not bring, is in the change: refused, wanted, or uncertain. S is what the
\* receiver holds.
Obuhvaca(p, S, V) ==
    \A v \in knjiga[Autor] \ (S \cup V) :
        /\ (p.fs < v /\ v <= Granica(V)) \/ v \in Clanovi(p.redovno)
           => v \in Clanovi(p.odbijeno) \cup Clanovi(p.uTrazi)
              \/ (v \in Clanovi(p.nesigurno) /\ p.fs < v)
        /\ v \in Clanovi(p.popuna)
           => v \in Clanovi(p.odbijeno) \cup Clanovi(p.uTrazi) \cup Clanovi(p.nesigurno)

UpisUredan(t) ==
    LET x == razg[t]
        p == x.upis.promjena
    IN
    x.faza \in Pise =>
        /\ x.upis.verzije \subseteq knjiga[Autor]
        /\ p.redovno.do <= Granica(knjiga[Autor])
        /\ p.popuna.do <= Granica(knjiga[Autor])
        /\ p.fs <= Granica(knjiga[x.r])
        /\ Obuhvaca(p, knjiga[x.r], x.upis.verzije)
        /\ x.faza = "upisano" => x.upis.verzije \subseteq knjiga[x.r]

\* Before the versions are written, the record already holds all they will pass
\* over.
ProsirenoUredno(t) ==
    LET x == razg[t] IN
    x.faza = "prosireno" =>
        \A v \in Nema(x.r) \ x.upis.verzije :
            v <= Granica(knjiga[x.r] \cup x.upis.verzije) => v \in Zabiljezene(rupe[x.r])

\* What this write refuses stays refused in the record until it is narrowed,
\* or the fence gave way and the narrowing will ask for it.
OdbijenoUredno(t) ==
    LET x == razg[t]
        o == Clanovi(x.upis.promjena.odbijeno)
    IN
    x.faza \in PodBravom =>
        \/ o = {}
        \/ /\ o \subseteq Clanovi(rupe[x.r].odbijeno)
           /\ \/ zapisano[x.r].odbija \subseteq ograda[x.r].odbija
              \/ x.prima.ograda.narastaj < ograda[x.r].narastaj

RazgovorUredan(t) ==
    /\ SaljeUredno(t) /\ PrimaUredno(t) /\ DeltaUredna(t)
    /\ UpisUredan(t) /\ ProsirenoUredno(t) /\ OdbijenoUredno(t)

Uredno ==
    /\ Poceci /\ BezTihePraznine
    /\ \A t \in Razgovori : RazgovorUredan(t)

IInv == TypeOK /\ Zakljucano /\ Uredno

-----------------------------------------------------------------------------
(* Frontiers and starts of sets of versions *)

\* What the frontier of a set is, as numbers (ledger.go, Frontier).
LEMMA GranicaBroj ==
    ASSUME NEW S \in SUBSET Verzije
    PROVE  /\ Granica(S) \in Nat /\ Granica(S) <= ZadnjaVerzija
           /\ Granica(S) # 0 => Granica(S) \in S
           /\ \A v \in S : v \in Nat /\ 0 < v /\ v <= Granica(S)
BY GranicaTip, RazmjenaPretpostavka DEF Granice, Verzije

\* A larger set has no smaller frontier, and the frontier of a union is that of
\* one of the parts.
LEMMA GranicaUnije ==
    ASSUME NEW S \in SUBSET Verzije, NEW T \in SUBSET Verzije
    PROVE  /\ Granica(S) <= Granica(S \cup T) /\ Granica(T) <= Granica(S \cup T)
           /\ Granica(S \cup T) <= Granica(S) \/ Granica(S \cup T) <= Granica(T)
           /\ S \subseteq T => Granica(S) <= Granica(T)
<1> DEFINE U == S \cup T
<1>1. U \in SUBSET Verzije  OBVIOUS
<1>2. /\ Granica(U) \in Nat /\ (Granica(U) # 0 => Granica(U) \in U)
      /\ \A v \in U : v \in Nat /\ 0 < v /\ v <= Granica(U)
  BY <1>1, GranicaBroj
<1>3. /\ Granica(S) \in Nat /\ (Granica(S) # 0 => Granica(S) \in S)
      /\ \A v \in S : v \in Nat /\ 0 < v /\ v <= Granica(S)
  BY GranicaBroj
<1>4. /\ Granica(T) \in Nat /\ (Granica(T) # 0 => Granica(T) \in T)
      /\ \A v \in T : v \in Nat /\ 0 < v /\ v <= Granica(T)
  BY GranicaBroj
<1> QED  BY <1>2, <1>3, <1>4

\* A version that is not in the set is below its frontier when one above it is.
LEMMA IspodGranice ==
    ASSUME NEW S \in SUBSET Verzije, NEW v \in Verzije, v \notin S
    PROVE  v <= Granica(S) <=> \E w \in S : v < w
<1>1. /\ Granica(S) \in Nat /\ (Granica(S) # 0 => Granica(S) \in S)
      /\ \A w \in S : w \in Nat /\ 0 < w /\ w <= Granica(S)
  BY GranicaBroj
<1>2. v \in Nat /\ 0 < v  BY RazmjenaPretpostavka DEF Verzije
<1> QED  BY <1>1, <1>2

\* T is a start of S.
PocetakOd(T, S) ==
    /\ T \subseteq S
    /\ \A v \in S, w \in T : v <= w => v \in T

\* What a read under a limit returns is a start of what it could read
\* (ledger.go, SinceByNode: ORDER BY version LIMIT).
LEMMA PrvihJePocetak ==
    ASSUME NEW S \in SUBSET Verzije, NEW n \in Nat
    PROVE  PocetakOd(PrvihOd(S, n), S)
<1>1. IsFiniteSet(Verzije)
  BY FS_Interval, RazmjenaPretpostavka DEF Verzije
<1>2. SUFFICES ASSUME NEW v \in S, NEW w \in PrvihOd(S, n), v <= w
               PROVE  v \in PrvihOd(S, n)
  BY DEF PocetakOd, PrvihOd
<1> DEFINE A == {u \in S : u <= v}
           B == {u \in S : u <= w}
<1>3. w \in S /\ Cardinality(B) <= n  BY DEF PrvihOd
<1>4. A \subseteq B
  <2>1. v \in Int /\ w \in Int /\ \A u \in S : u \in Int
    BY <1>3, RazmjenaPretpostavka DEF Verzije
  <2>2. \A u \in S : u <= v => u <= w  BY <1>2, <2>1
  <2> QED  BY <2>2
<1>5. IsFiniteSet(B)  BY <1>1, FS_Subset
<1>6. Cardinality(A) \in Nat /\ Cardinality(B) \in Nat /\ Cardinality(A) <= Cardinality(B)
  BY <1>4, <1>5, FS_Subset, FS_CardinalityType
<1>7. Cardinality(A) <= n  BY <1>3, <1>6
<1> QED  BY <1>7 DEF PrvihOd

\* A cut leaves a start (razgovor.go: the size of a message).
LEMMA RezJePocetak ==
    ASSUME NEW S \in SUBSET Verzije,
           NEW T \in IF Rez THEN Pocetci(S) ELSE {S}
    PROVE  PocetakOd(T, S)
<1>1. CASE T = S  BY <1>1 DEF PocetakOd
<1>2. CASE T \in Pocetci(S)
  <2>1. PICK c \in S \cup {0} : T = {v \in S : v <= c}  BY <1>2 DEF Pocetci
  <2>2. \A v \in S : v \in Nat /\ c \in Nat  BY RazmjenaPretpostavka DEF Verzije
  <2> QED  BY <2>1, <2>2 DEF PocetakOd
<1> QED  BY <1>1, <1>2

-----------------------------------------------------------------------------
(* The delta: what the sender says of it *)

\* The numbers and sets of a talk and of the ledgers it is about.
LEMMA RazgovorBrojevi ==
    ASSUME TypeOK, NEW t \in Razgovori
    PROVE  /\ razg[t] \in RazgovorTip /\ razg[t].s \in Cvor /\ razg[t].r \in Cvor
           /\ razg[t].salje.granica \in Nat /\ razg[t].salje.dosad \in Nat
           /\ razg[t].salje.nejamci \in Rasponi
           /\ razg[t].prima.fs \in Nat /\ razg[t].prima.moje \in Nat
           /\ razg[t].prima.trazi \in Rasponi
           /\ razg[t].prima.ograda.narastaj \in Nat
           /\ razg[t].delta.verzije \in SUBSET Verzije /\ razg[t].delta.od \in Nat
           /\ razg[t].delta.rupe \in Rasponi /\ razg[t].delta.popuna \in Rasponi
           /\ razg[t].upis.verzije \in SUBSET Verzije
           /\ razg[t].upis.promjena \in PromjeneKljuca
<1>1. razg[t] \in RazgovorTip  BY DEF TypeOK
<1>2. /\ razg[t].salje \in SaljeTip /\ razg[t].prima \in PrimaTip
      /\ razg[t].delta \in DeltaTip /\ razg[t].upis \in UpisTip
      /\ razg[t].s \in Cvor /\ razg[t].r \in Cvor
  BY <1>1, DijeloviTip
<1>3. Granice \subseteq Nat  BY RazmjenaPretpostavka DEF Granice
<1>4. razg[t].prima.ograda.narastaj \in Nat  BY <1>2 DEF PrimaTip, Ograde
<1> QED  BY <1>1, <1>2, <1>3, <1>4 DEF SaljeTip, PrimaTip, DeltaTip, UpisTip

\* Every node's ledger is a set of versions, and its record a pair of ranges.
LEMMA KnjigaTip ==
    ASSUME TypeOK
    PROVE  /\ Autor \in Cvor /\ Primatelji \subseteq Cvor
           /\ \A n \in Cvor : /\ knjiga[n] \in SUBSET Verzije
                              /\ rupe[n] \in RupeKljuca
                              /\ rupe[n].odbijeno \in Rasponi /\ rupe[n].trazi \in Rasponi
                              /\ ograda[n].narastaj \in Nat
                              /\ Granica(knjiga[n]) \in Nat
<1>1. \A n \in Cvor : knjiga[n] \in SUBSET Verzije /\ rupe[n] \in RupeKljuca
                      /\ ograda[n] \in Ograde
  BY DEF TypeOK
<1>2. \A n \in Cvor : Granica(knjiga[n]) \in Nat  BY <1>1, GranicaBroj
<1> QED  BY <1>1, <1>2, RazmjenaPretpostavka DEF Primatelji, RupeKljuca, Ograde

\* The bounds of a talk that composes its delta (razgovor.go, granicaPopune).
LEMMA GranicePopune ==
    ASSUME TypeOK, NEW t \in Razgovori
    PROVE  LET x == razg[t] IN
           /\ GranicaZaDeltu(x) \in Nat /\ GranicaPopune(x) \in Nat
           /\ GranicaPopune(x) <= GranicaZaDeltu(x)
           /\ GranicaPopune(x) <= x.salje.granica
           /\ GranicaZaDeltu(x) <= Veci(x.prima.fs, x.prima.moje)
           /\ x.prima.trazi.od \in Nat /\ x.prima.trazi.do \in Nat
<1> DEFINE x == razg[t]
<1>1. /\ x.salje.granica \in Nat /\ x.salje.dosad \in Nat
      /\ x.prima.fs \in Nat /\ x.prima.moje \in Nat
  BY RazgovorBrojevi
<1>2. x.prima.trazi.od \in Nat /\ x.prima.trazi.do \in Nat
  BY RazgovorBrojevi, BeskrajPretpostavka DEF Rasponi, Oznake
<1> HIDE DEF x
<1>3. /\ GranicaZaDeltu(x) \in Nat
      /\ GranicaZaDeltu(x) <= Veci(x.prima.fs, x.prima.moje)
  BY <1>1 DEF GranicaZaDeltu, Veci, Manji
<1>4. /\ GranicaPopune(x) \in Nat /\ GranicaPopune(x) <= GranicaZaDeltu(x)
      /\ GranicaPopune(x) <= x.salje.granica
  BY <1>1, <1>2, <1>3 DEF GranicaPopune, Manji
<1> QED  BY <1>2, <1>3, <1>4 DEF x

\* What the sender vouches to have filled is bounded, and it sends every version
\* it holds there (razgovor.go, pokriva).
LEMMA PokrivaPosteno ==
    ASSUME TypeOK, NEW t \in Razgovori, NEW S \in SUBSET Verzije,
           NEW pop, PocetakOd(pop, Popuna(razg[t], S))
    PROVE  /\ pop \in SUBSET S
           /\ \A v \in pop : v <= GranicaPopune(razg[t])
           /\ Pokriva(razg[t], S, pop).do <= GranicaPopune(razg[t])
           /\ \A v \in S : v \in Clanovi(Pokriva(razg[t], S, pop)) => v \in pop
<1> DEFINE x == razg[t]
           p == Pokriva(x, S, pop)
           od == x.prima.trazi.od
           g == GranicaPopune(x)
           iznad == {v \in S : v > od}
<1>1. od \in Nat /\ g \in Nat  BY GranicePopune
<1>2. NajviseVerzija \in Nat /\ iznad \in SUBSET Verzije  BY RazmjenaPretpostavka
<1>3. PocetakOd(PrvihOd(iznad, NajviseVerzija), iznad)  BY <1>2, PrvihJePocetak
<1>4. pop \subseteq Popuna(x, S) /\ Popuna(x, S) \subseteq Procitano(x, S)
      /\ Procitano(x, S) \subseteq iznad
  BY <1>3 DEF PocetakOd, Popuna, Procitano
<1>5. pop \in SUBSET S /\ \A v \in pop : v <= g  BY <1>4 DEF Popuna
<1>6. pop \in SUBSET Verzije /\ Popuna(x, S) \in SUBSET Verzije
      /\ Procitano(x, S) \in SUBSET Verzije
  BY <1>2, <1>4
<1>7. /\ Granica(pop) \in Nat /\ (Granica(pop) # 0 => Granica(pop) \in pop)
      /\ Granica(Popuna(x, S)) \in Nat
      /\ (Granica(Popuna(x, S)) # 0 => Granica(Popuna(x, S)) \in Popuna(x, S))
      /\ \A v \in S : v \in Nat /\ 0 < v
  BY <1>6, GranicaBroj
<1>8. CASE ~Popunjava(x)
  <2>1. p = Prazno  BY <1>8 DEF Pokriva
  <2>2. p.do <= g /\ Clanovi(p) = {}  BY <1>1, <2>1 DEF Prazno, Raspon, Clanovi, Oznake
  <2> QED  BY <1>5, <2>2
<1>9. CASE Popunjava(x)
  <2>0. g > od  BY <1>9 DEF Popunjava
  <2>1. Procitano(x, S) = PrvihOd(iznad, NajviseVerzija)  BY <1>9 DEF Procitano
  <2>2. ASSUME NEW v \in S, v > od, NEW w \in Procitano(x, S), v <= w
        PROVE  v \in Procitano(x, S)
    BY <1>3, <2>1, <2>2 DEF PocetakOd
  <2>3. CASE pop = Popuna(x, S)
    <3> DEFINE d == DokleProcitano(x, S)
    <3>1. p = Cist(Raspon(od, d))  BY <1>9, <2>3 DEF Pokriva
    <3>2. d \in Nat /\ d <= g
      BY <1>1, <1>4, <1>5, <1>7, <2>0, <2>3 DEF DokleProcitano, Veci
    <3>3. ASSUME NEW v \in S, od < v, v <= d  PROVE v \in pop
      <4>1. v \in Nat /\ v <= g  BY <1>1, <1>7, <3>2, <3>3
      <4>2. v \in Procitano(x, S)
        <5>1. CASE Procitano(x, S) # Popuna(x, S)
          <6>1. PICK w \in Procitano(x, S) : ~(w <= g)  BY <5>1 DEF Popuna
          <6>2. w \in Nat  BY <1>4, <1>7, <6>1
          <6>3. v <= w  BY <1>1, <4>1, <6>1, <6>2
          <6> QED  BY <2>2, <3>3, <6>3, <1>1, <4>1
        <5>2. CASE Procitano(x, S) = Popuna(x, S)
          <6>1. d = Veci(Granica(Popuna(x, S)), od)  BY <5>2 DEF DokleProcitano
          <6>2. v <= Granica(Popuna(x, S)) /\ Granica(Popuna(x, S)) # 0
            BY <1>1, <1>7, <3>3, <4>1, <6>1 DEF Veci
          <6>3. Granica(Popuna(x, S)) \in Procitano(x, S)  BY <1>7, <5>2, <6>2
          <6> QED  BY <1>1, <2>2, <3>3, <4>1, <6>2, <6>3
        <5> QED  BY <5>1, <5>2
      <4> QED  BY <2>3, <4>1, <4>2 DEF Popuna
    <3> HIDE DEF d, od, g, x
    <3>4. p.do <= g  BY <1>1, <3>1, <3>2 DEF Cist, Prazno, Raspon
    <3>5. \A v \in S : v \in Clanovi(p) => od < v /\ v <= d
      BY <1>1, <1>7, <3>1, <3>2 DEF Cist, Prazan, Prazno, Raspon, Clanovi
    <3> QED  BY <1>5, <3>3, <3>4, <3>5 DEF x, g
  <2>4. CASE pop # Popuna(x, S) /\ pop # {}
    <3>1. p = Raspon(od, Granica(pop))  BY <1>9, <2>4 DEF Pokriva
    <3>2. PICK w \in pop : TRUE  BY <2>4
    <3>3. Granica(pop) # 0 /\ Granica(pop) \in pop
      <4>1. w \in Nat /\ 0 < w /\ w <= Granica(pop)  BY <1>6, <3>2, GranicaBroj
      <4> QED  BY <1>7, <4>1
    <3>4. p.do = Granica(pop) /\ Granica(pop) <= g  BY <1>5, <3>1, <3>3 DEF Raspon
    <3>5. ASSUME NEW v \in S, v \in Clanovi(p)  PROVE v \in pop
      <4>1. v \in Nat /\ od < v /\ v <= Granica(pop)
        BY <1>7, <3>1, <3>5 DEF Raspon, Clanovi
      <4>2. v \in Procitano(x, S)  BY <1>1, <1>4, <2>2, <3>3, <4>1
      <4>3. v <= g  BY <1>1, <1>7, <3>4, <4>1
      <4>4. v \in Popuna(x, S)  BY <4>2, <4>3 DEF Popuna
      <4> QED  BY <3>3, <4>1, <4>4 DEF PocetakOd
    <3> QED  BY <1>5, <3>4, <3>5
  <2>5. CASE pop # Popuna(x, S) /\ pop = {}
    <3>1. p = Prazno  BY <1>9, <2>5 DEF Pokriva
    <3>2. p.do <= g /\ Clanovi(p) = {}  BY <1>1, <3>1 DEF Prazno, Raspon, Clanovi, Oznake
    <3> QED  BY <1>5, <3>2
  <2> QED  BY <2>3, <2>4, <2>5
<1> QED  BY <1>8, <1>9

\* The regular part of a delta leaves out no version of the sender up to its
\* last one (razgovor.go, SinceByNode from the frontier of the delta).
LEMMA RedovnoPosteno ==
    ASSUME TypeOK, NEW t \in Razgovori, NEW S \in SUBSET Verzije,
           NEW red, PocetakOd(red, RedovniDio(razg[t], S))
    PROVE  /\ red \in SUBSET S
           /\ \A v \in S : GranicaZaDeltu(razg[t]) < v /\ v <= Granica(red) => v \in red
<1> DEFINE od == GranicaZaDeltu(razg[t])
           iznad == {v \in S : v > od}
<1>1. od \in Nat  BY GranicePopune
<1>2. NajviseVerzija \in Nat /\ iznad \in SUBSET Verzije  BY RazmjenaPretpostavka
<1>3. PocetakOd(PrvihOd(iznad, NajviseVerzija), iznad)  BY <1>2, PrvihJePocetak
<1>4. RedovniDio(razg[t], S) = PrvihOd(iznad, NajviseVerzija)  BY DEF RedovniDio
<1>5. red \subseteq RedovniDio(razg[t], S) /\ RedovniDio(razg[t], S) \subseteq iznad
  BY <1>3, <1>4 DEF PocetakOd
<1>6. red \in SUBSET Verzije /\ red \in SUBSET S  BY <1>2, <1>5
<1>7. /\ Granica(red) \in Nat /\ (Granica(red) # 0 => Granica(red) \in red)
      /\ \A v \in S : v \in Nat /\ 0 < v
  BY <1>6, GranicaBroj
<1>8. ASSUME NEW v \in S, od < v, v <= Granica(red)  PROVE v \in red
  <2>1. Granica(red) \in red /\ v \in iznad  BY <1>1, <1>7, <1>8
  <2>2. v \in RedovniDio(razg[t], S)  BY <1>3, <1>4, <1>5, <1>8, <2>1 DEF PocetakOd
  <2> QED  BY <1>8, <2>1, <2>2 DEF PocetakOd
<1> QED  BY <1>6, <1>8

\* Widening the rule keeps what the node does not vouch for, as a whole, and
\* either range of the record stays in one of the two (rupe.go, sirenjem).
LEMMA SirenjeIsto ==
    ASSUME NEW k \in RupeKljuca
    PROVE  /\ Clanovi(NeJamci(Sirenjem(k))) = Clanovi(NeJamci(k))
           /\ Zabiljezene(k) \subseteq Zabiljezene(Sirenjem(k))
           /\ Zabiljezene(k) \subseteq Clanovi(NeJamci(k))
<1>1. k.odbijeno \in Rasponi /\ k.trazi \in Rasponi /\ Prazno \in Rasponi
  BY OznakeTip DEF RupeKljuca
<1> DEFINE a == Uz(k.trazi, k.odbijeno)
           b == Uz(k.odbijeno, k.trazi)
<1>2. a \in Rasponi /\ b \in Rasponi  BY <1>1, AlgebraTip
<1>3. Clanovi(k.odbijeno) \cup Clanovi(k.trazi) \subseteq Clanovi(a)
      /\ Clanovi(k.odbijeno) \cup Clanovi(k.trazi) \subseteq Clanovi(b)
  BY <1>1, UzDrziOba
<1>4. Clanovi(a) \subseteq Clanovi(b) /\ Clanovi(b) \subseteq Clanovi(a)
  BY <1>1, <1>2, <1>3, UzNajmanji
<1>5. Clanovi(Uz(Prazno, a)) = Clanovi(a)
  <2> HIDE DEF a
  <2> QED
    BY <1>2, BeskrajPretpostavka
    DEF Uz, Cist, Prazan, Prazno, Raspon, Clanovi, Rasponi, Oznake
<1>6. NeJamci(Sirenjem(k)) = Uz(Prazno, a) /\ NeJamci(k) = b /\ Sirenjem(k).trazi = a
  BY DEF NeJamci, Sirenjem
<1> QED  BY <1>3, <1>4, <1>5, <1>6 DEF Zabiljezene

\* What the start of a talk and the transaction on the record make of it keeps
\* what is recorded (rupe_baza.go, uskladiPravilo).
LEMMA PocetakNeGubi ==
    ASSUME TypeOK, NEW n \in Cvor
    PROVE  /\ Zabiljezene(rupe[n]) \subseteq Zabiljezene(UskladjenoPravilo(n))
           /\ ~Virtualno(n) => Clanovi(NeJamci(UskladjenoPravilo(n))) = Clanovi(NeJamci(rupe[n]))
           /\ n # Autor => /\ Zabiljezene(rupe[n]) \subseteq Clanovi(NeJamciNaPocetku(n))
                           /\ Clanovi(NeJamci(rupe[n])) \subseteq Clanovi(NeJamciNaPocetku(n))
<1>1. rupe[n] \in RupeKljuca /\ rupe[n].odbijeno \in Rasponi
      /\ Granica(knjiga[n]) \in Nat
  BY KnjigaTip
<1>2. \/ RupeNaPocetku(n) = rupe[n]
      \/ RupeNaPocetku(n) = Sirenjem(rupe[n])
  BY DEF RupeNaPocetku
<1>3. /\ Clanovi(NeJamci(RupeNaPocetku(n))) = Clanovi(NeJamci(rupe[n]))
      /\ Zabiljezene(rupe[n]) \subseteq Zabiljezene(RupeNaPocetku(n))
      /\ Zabiljezene(rupe[n]) \subseteq Clanovi(NeJamci(rupe[n]))
  BY <1>1, <1>2, SirenjeIsto
<1>4. CASE Virtualno(n)
  <2> DEFINE g == Veci(rupe[n].odbijeno.do, Granica(knjiga[n]))
             k == [rupe[n] EXCEPT !.odbijeno = Raspon(0, g)]
  <2>1. k.odbijeno = Raspon(0, g) /\ k.trazi = rupe[n].trazi  BY <1>1 DEF RupeKljuca
  <2>2. Clanovi(rupe[n].odbijeno) \subseteq Clanovi(Raspon(0, g))
    BY <1>1, BeskrajPretpostavka DEF Rasponi, Oznake, Clanovi, Raspon, Veci
  <2>3. Zabiljezene(rupe[n]) \subseteq Zabiljezene(k)
    BY <2>1, <2>2 DEF Zabiljezene
  <2>4. Zabiljezene(rupe[n]) \subseteq Zabiljezene(UskladjenoPravilo(n))
    BY <1>3, <2>3 DEF UskladjenoPravilo
  <2>5. NeJamci(rupe[n]) \in Rasponi  BY <1>1, SlobodanTip, ZapisTip
  <2>6. Clanovi(NeJamci(rupe[n])) \subseteq Clanovi(Iznad(0))
    BY <2>5, BeskrajPretpostavka DEF Rasponi, Oznake, Clanovi, Raspon, Iznad
  <2> QED  BY <1>3, <1>4, <2>4, <2>6 DEF NeJamciNaPocetku
<1>5. CASE ~Virtualno(n)
  BY <1>3, <1>5 DEF UskladjenoPravilo, NeJamciNaPocetku
<1> QED  BY <1>4, <1>5

\* What the sender says of the delta it composes is true (rupe_razgovor.go,
\* rupeDelte): a version in the covered range that is not sent was missing
\* already when the sender read its record, or its record grew since.
LEMMA SlozenaDeltaJamci ==
    ASSUME TypeOK, Poceci, BezTihePraznine, NEW t \in Razgovori, SaljeUredno(t),
           razg[t].faza = "pocetak", razg[t].salje.korak = 2,
           NEW red, PocetakOd(red, RedovniDio(razg[t], knjiga[razg[t].s])),
           NEW pop, PocetakOd(pop, Popuna(razg[t], knjiga[razg[t].s]))
    PROVE  LET x == razg[t]
               p == Pokriva(x, knjiga[x.s], pop)
           IN Jamci([verzije |-> red \cup pop, od |-> GranicaZaDeltu(x),
                     rupe |-> RupeDelte(t, Granica(red), p), popuna |-> p])
<1> DEFINE x == razg[t]
           S == knjiga[x.s]
           K == knjiga[Autor]
           p == Pokriva(x, S, pop)
           od == GranicaZaDeltu(x)
           ne == Uz(x.salje.nejamci, Sumnja(t))
           ov == Uz(Raspon(od, Granica(red)), p)
<1>1. x.s \in Cvor /\ S \in SUBSET Verzije /\ K \in SUBSET Verzije /\ S \subseteq K
      /\ x \in RazgovorTip
  BY RazgovorBrojevi, KnjigaTip DEF Poceci
<1>2. /\ red \in SUBSET S /\ pop \in SUBSET S
      /\ \A v \in S : od < v /\ v <= Granica(red) => v \in red
      /\ \A v \in S : v \in Clanovi(p) => v \in pop
      /\ \A v \in pop : v <= GranicaPopune(x)
      /\ p.do <= GranicaPopune(x)
  <2>1. /\ red \in SUBSET S
        /\ \A v \in S : od < v /\ v <= Granica(red) => v \in red
    BY <1>1, RedovnoPosteno
  <2>2. /\ pop \in SUBSET S
        /\ \A v \in S : v \in Clanovi(p) => v \in pop
        /\ \A v \in pop : v <= GranicaPopune(x)
        /\ p.do <= GranicaPopune(x)
    <3>1. S \in SUBSET Verzije /\ PocetakOd(pop, Popuna(x, S))  BY <1>1
    <3> HIDE DEF S
    <3>2. /\ pop \in SUBSET S
          /\ \A v \in pop : v <= GranicaPopune(razg[t])
          /\ Pokriva(razg[t], S, pop).do <= GranicaPopune(razg[t])
          /\ \A v \in S : v \in Clanovi(Pokriva(razg[t], S, pop)) => v \in pop
      BY <3>1, PokrivaPosteno, Zenon
    <3> QED  BY <3>2
  <2> QED  BY <2>1, <2>2
<1>3. red \in SUBSET Verzije /\ pop \in SUBSET Verzije  BY <1>1, <1>2
<1>4. /\ Granica(red) \in Nat /\ Granica(pop) \in Nat /\ Granica(S) \in Nat
      /\ Granica(red \cup pop) \in Nat
      /\ (Granica(pop) # 0 => Granica(pop) \in pop)
      /\ Granica(red) <= Granica(S)
      /\ Granica(red \cup pop) <= Granica(red) \/ Granica(red \cup pop) <= Granica(pop)
      /\ Granica(red) \in Oznake /\ Granica(red) <= Beskraj
  <2>1. red \cup pop \in SUBSET Verzije  BY <1>3
  <2>2. /\ Granica(red) \in Nat /\ Granica(pop) \in Nat /\ Granica(S) \in Nat
        /\ Granica(red \cup pop) \in Nat
        /\ (Granica(pop) # 0 => Granica(pop) \in pop)
        /\ Granica(red) <= ZadnjaVerzija
    BY <1>1, <1>3, <2>1, GranicaBroj
  <2>3. Granica(red) <= Granica(S)  BY <1>1, <1>2, <1>3, GranicaUnije
  <2>4. Granica(red \cup pop) <= Granica(red) \/ Granica(red \cup pop) <= Granica(pop)
    BY <1>3, GranicaUnije
  <2>5. Granica(red) \in Oznake /\ Granica(red) <= Beskraj
    BY <2>2, RazmjenaPretpostavka, BeskrajPretpostavka DEF Oznake
  <2> QED  BY <2>2, <2>3, <2>4, <2>5
<1>5. /\ od \in Nat /\ od \in Oznake /\ GranicaPopune(x) \in Nat
      /\ GranicaPopune(x) <= od /\ GranicaPopune(x) <= x.salje.granica
      /\ x.salje.granica \in Nat
  BY <1>1, GranicePopune, RazgovorBrojevi, SlozenaDeltaTip, OznakeTip
<1>6. Granica(pop) <= od
  BY <1>2, <1>4, <1>5
<1>7. p \in Rasponi /\ p.do \in Nat
  <2>1. p \in Rasponi  BY <1>1, <1>3, SlozenaDeltaTip
  <2> QED  BY <2>1, BeskrajPretpostavka DEF Rasponi, Oznake
<1>8. SUFFICES ASSUME NEW v \in K,
                      (od < v /\ v <= Granica(red \cup pop)) \/ v \in Clanovi(p),
                      v \notin S
               PROVE  v \in Clanovi(RupeDelte(t, Granica(red), p))
  <2>1. ASSUME NEW v \in K, (od < v /\ v <= Granica(red \cup pop)) \/ v \in Clanovi(p),
               v \in S
        PROVE  v \in red \cup pop
    <3>1. v \in Nat  BY <1>1, GranicaBroj
    <3>2. od < v /\ v <= Granica(red \cup pop) => v <= Granica(red)
      BY <1>4, <1>5, <1>6, <3>1
    <3> QED  BY <1>2, <2>1, <3>2
  <2> HIDE DEF K, S, p, od, x
  <2>2. ASSUME NEW v \in K, (od < v /\ v <= Granica(red \cup pop)) \/ v \in Clanovi(p)
        PROVE  v \in red \cup pop \cup Clanovi(RupeDelte(t, Granica(red), p))
    BY <1>8, <2>1, <2>2
  <2>3. \A v \in K : (od < v /\ v <= Granica(red \cup pop)) \/ v \in Clanovi(p)
                     => v \in red \cup pop \cup Clanovi(RupeDelte(t, Granica(red), p))
    BY <2>2
  <2> QED  BY <2>3 DEF Jamci, K, S, p, od, x
<1>9. x.s # Autor  BY <1>8
<1>10. v \in Nat /\ 0 < v /\ v \in Oznake /\ v \in Verzije
  <2>1. v \in Verzije  BY <1>1
  <2> QED  BY <2>1, RazmjenaPretpostavka, BeskrajPretpostavka DEF Verzije, Oznake
<1>11. (od < v /\ v <= Granica(red)) \/ v \in Clanovi(p)
  BY <1>4, <1>5, <1>6, <1>8, <1>10
<1>12. v \in Clanovi(p) => v <= x.salje.granica
  BY <1>2, <1>5, <1>7, <1>10 DEF Clanovi
<1>13. x.salje.nejamci \in Rasponi /\ Sumnja(t) \in Rasponi
  <2>1. x.salje.nejamci \in Rasponi /\ x.salje.granica \in Oznake
    BY <1>1, RazgovorBrojevi, DijeloviTip, OznakeTip DEF SaljeTip
  <2> QED  BY <2>1, OznakeTip DEF Sumnja
<1>14. Clanovi(x.salje.nejamci) \cup Clanovi(Sumnja(t)) \subseteq Clanovi(ne)
  BY <1>13, UzDrziOba
<1>15. v \in Clanovi(ne)
  <2>1. CASE v <= x.salje.granica
    BY <1>8, <1>9, <1>14, <2>1 DEF SaljeUredno, Nema
  <2>2. CASE ~(v <= x.salje.granica)
    <3>1. v <= Granica(S)  BY <1>4, <1>11, <1>12, <1>10, <2>2
    <3>2. v \in Zabiljezene(rupe[x.s])
      BY <1>1, <1>8, <1>9, <3>1 DEF BezTihePraznine, Nema, Primatelji
    <3>3. CASE t \in rastRupa
      <4>1. v \in Clanovi(Sumnja(t))
        BY <1>5, <1>10, <2>2, <3>3, BeskrajPretpostavka DEF Sumnja, Iznad, Raspon, Clanovi, Oznake
      <4> QED  BY <1>14, <4>1
    <3>4. CASE t \notin rastRupa
      <4>1. Clanovi(NeJamci(rupe[x.s])) \subseteq Clanovi(x.salje.nejamci)
        BY <1>9, <3>4 DEF SaljeUredno
      <4>2. v \in Clanovi(NeJamci(rupe[x.s]))
        BY <1>1, <3>2, KnjigaTip, SirenjeIsto
      <4> QED  BY <1>14, <4>1, <4>2
    <3> QED  BY <3>3, <3>4
  <2> QED  BY <2>1, <2>2
<1>16. Raspon(od, Granica(red)) \in Rasponi  BY <1>4, <1>5, OznakeTip
<1>17. v \in Clanovi(ov)
  <2>1. Clanovi(Raspon(od, Granica(red))) \cup Clanovi(p) \subseteq Clanovi(ov)
    BY <1>7, <1>16, UzDrziOba
  <2>2. od < v /\ v <= Granica(red) => v \in Clanovi(Raspon(od, Granica(red)))
    BY <1>10 DEF Raspon, Clanovi
  <2> QED  BY <1>11, <2>1, <2>2
<1>18. RupeDelte(t, Granica(red), p) = Presjek(ne, ov)  BY <1>9 DEF RupeDelte
<1>19. ne \in Rasponi /\ ov \in Rasponi  BY <1>7, <1>13, <1>16, AlgebraTip
<1> QED  BY <1>15, <1>17, <1>18, <1>19, PresjekTocan

-----------------------------------------------------------------------------
(* What a step leaves in order for a talk it is not a step of *)

\* A talk whose parts stay as they are.
IstiRazgovor(u) ==
    /\ razg'[u].faza = razg[u].faza /\ razg'[u].s = razg[u].s /\ razg'[u].r = razg[u].r
    /\ razg'[u].salje = razg[u].salje /\ razg'[u].prima = razg[u].prima
    /\ razg'[u].delta = razg[u].delta /\ razg'[u].upis = razg[u].upis

\* What the step may do to the two nodes of the talk: their ledgers grow, a
\* record that grows is told to the talks the node sends in, a rule that
\* refuses less has a new generation, and under the lock of the talk nothing of
\* the receiver changes.
OkolinaMirna(u) ==
    LET s == razg[u].s
        r == razg[u].r
    IN
    /\ knjiga[s] \subseteq knjiga'[s] /\ knjiga[r] \subseteq knjiga'[r]
    /\ \/ ograda[r].narastaj < ograda'[r].narastaj
       \/ ograda[r].narastaj = ograda'[r].narastaj /\ ograda[r].odbija \subseteq ograda'[r].odbija
    /\ razg[u].faza \in PodBravom =>
          rupe'[r] = rupe[r] /\ zapisano'[r] = zapisano[r] /\ knjiga'[r] = knjiga[r]
    /\ razg[u].faza = "pocetak" /\ razg[u].salje.korak = 2 =>
          \/ u \in rastRupa'
          \/ u \notin rastRupa /\ Clanovi(NeJamci(rupe'[s])) \subseteq Clanovi(NeJamci(rupe[s]))

\* The author only writes above what was written.
AutorDodaje ==
    /\ knjiga[Autor] \subseteq knjiga'[Autor]
    /\ \A v \in knjiga'[Autor] \ knjiga[Autor] : Granica(knjiga[Autor]) < v

\* A talk stays in order while others make steps.
LEMMA TudjiRazgovor ==
    ASSUME TypeOK, TypeOK', Poceci, NEW u \in Razgovori, RazgovorUredan(u),
           IstiRazgovor(u), razg[u].faza # "nema" => OkolinaMirna(u), AutorDodaje
    PROVE  RazgovorUredan(u)'
<1> DEFINE x == razg[u]
           y == razg'[u]
           K == knjiga[Autor]
           L == knjiga'[Autor]
<1>1. /\ x.s \in Cvor /\ x.r \in Cvor /\ Autor \in Cvor
      /\ K \in SUBSET Verzije /\ L \in SUBSET Verzije
      /\ knjiga[x.s] \in SUBSET Verzije /\ knjiga'[x.s] \in SUBSET Verzije
      /\ knjiga[x.r] \in SUBSET Verzije /\ knjiga'[x.r] \in SUBSET Verzije
      /\ knjiga[x.s] \subseteq K /\ knjiga[x.r] \subseteq K
      /\ ograda[x.r].narastaj \in Nat /\ ograda'[x.r].narastaj \in Nat
  <2>1. x.s \in Cvor /\ x.r \in Cvor /\ Autor \in Cvor  BY RazgovorBrojevi, KnjigaTip
  <2>2. \A n \in Cvor : /\ knjiga[n] \in SUBSET Verzije /\ knjiga'[n] \in SUBSET Verzije
                        /\ ograda[n] \in Ograde /\ ograda'[n] \in Ograde
    BY DEF TypeOK
  <2> QED  BY <2>1, <2>2 DEF Poceci, Ograde
<1>2. /\ Granica(K) \in Nat /\ Granica(L) \in Nat /\ Granica(K) <= Granica(L)
      /\ Granica(knjiga[x.s]) \in Nat /\ Granica(knjiga'[x.s]) \in Nat
      /\ Granica(knjiga[x.r]) \in Nat /\ Granica(knjiga'[x.r]) \in Nat
      /\ Granica(knjiga[x.s]) <= Granica(K)
  BY <1>1, GranicaBroj, GranicaUnije DEF AutorDodaje
<1>3. /\ x.salje.granica \in Nat /\ x.prima.fs \in Nat /\ x.prima.ograda.narastaj \in Nat
      /\ x.delta.verzije \in SUBSET Verzije /\ x.upis.verzije \in SUBSET Verzije
      /\ x.delta.popuna \in Rasponi /\ x.delta.popuna.do \in Nat
      /\ x.upis.promjena.redovno.do \in Nat /\ x.upis.promjena.popuna.do \in Nat
      /\ x.upis.promjena.fs \in Nat
  <2>1. x.delta.popuna.do \in Nat
    BY RazgovorBrojevi, BeskrajPretpostavka DEF Rasponi, Oznake
  <2>2. x.upis.promjena \in PromjeneKljuca  BY RazgovorBrojevi
  <2>3. /\ x.upis.promjena.redovno.do \in Nat /\ x.upis.promjena.popuna.do \in Nat
        /\ x.upis.promjena.fs \in Nat
    BY <2>2, BeskrajPretpostavka DEF PromjeneKljuca, Rasponi, Oznake
  <2> QED  BY <2>1, <2>3, RazgovorBrojevi
<1>4. /\ y.faza = x.faza /\ y.s = x.s /\ y.r = x.r /\ y.salje = x.salje
      /\ y.prima = x.prima /\ y.delta = x.delta /\ y.upis = x.upis
  BY DEF IstiRazgovor
<1>5. x.faza # "nema" =>
         /\ knjiga[x.s] \subseteq knjiga'[x.s] /\ knjiga[x.r] \subseteq knjiga'[x.r]
         /\ Granica(knjiga[x.s]) <= Granica(knjiga'[x.s])
         /\ Granica(knjiga[x.r]) <= Granica(knjiga'[x.r])
  BY <1>1, GranicaUnije DEF OkolinaMirna
<1>6. \A v \in L : v \in Nat /\ (v \notin K => Granica(K) < v)
  BY <1>1, GranicaBroj DEF AutorDodaje
<1>7. K \subseteq L  BY DEF AutorDodaje
<1>8. SaljeUredno(u)'
  <2> SUFFICES ASSUME x.faza = "pocetak"
               PROVE  /\ x.salje.granica <= Granica(knjiga'[x.s])
                      /\ x.salje.korak = 2 /\ x.s # Autor =>
                            /\ \A v \in L \ knjiga'[x.s] :
                                  v <= x.salje.granica => v \in Clanovi(x.salje.nejamci)
                            /\ \/ u \in rastRupa'
                               \/ Clanovi(NeJamci(rupe'[x.s])) \subseteq Clanovi(x.salje.nejamci)
    BY <1>4 DEF SaljeUredno, Nema
  <2>1. SaljeUredno(u)  BY DEF RazgovorUredan
  <2>2. x.salje.granica <= Granica(knjiga[x.s])  BY <2>1 DEF SaljeUredno
  <2>3. x.salje.granica <= Granica(knjiga'[x.s])  BY <1>2, <1>3, <1>5, <2>2
  <2>4. ASSUME x.salje.korak = 2, x.s # Autor, NEW v \in L \ knjiga'[x.s],
               v <= x.salje.granica
        PROVE  v \in Clanovi(x.salje.nejamci)
    <3>1. v \in K  BY <1>2, <1>3, <1>6, <2>2, <2>4
    <3>2. v \in Nema(x.s)  BY <1>5, <2>4, <3>1 DEF Nema
    <3> QED  BY <2>1, <2>4, <3>2 DEF SaljeUredno
  <2>5. ASSUME x.salje.korak = 2, x.s # Autor, u \notin rastRupa'
        PROVE  Clanovi(NeJamci(rupe'[x.s])) \subseteq Clanovi(x.salje.nejamci)
    BY <2>1, <2>5 DEF SaljeUredno, OkolinaMirna
  <2> QED  BY <2>3, <2>4, <2>5
<1>9. PrimaUredno(u)'
  <2> SUFFICES ASSUME x.faza # "nema"
               PROVE  /\ x.r \in Primatelji /\ x.prima.fs <= Granica(knjiga'[x.r])
                      /\ x.prima.ograda.narastaj <= ograda'[x.r].narastaj
    BY <1>4 DEF PrimaUredno
  <2>1. /\ x.r \in Primatelji /\ x.prima.fs <= Granica(knjiga[x.r])
        /\ x.prima.ograda.narastaj <= ograda[x.r].narastaj
    BY DEF RazgovorUredan, PrimaUredno
  <2>2. x.prima.fs <= Granica(knjiga'[x.r])  BY <1>2, <1>3, <1>5, <2>1
  <2>3. x.prima.ograda.narastaj <= ograda'[x.r].narastaj
    BY <1>1, <1>3, <2>1 DEF OkolinaMirna
  <2> QED  BY <2>1, <2>2, <2>3
<1>10. DeltaUredna(u)'
  <2> SUFFICES ASSUME x.faza = "delta"
               PROVE  /\ x.delta.verzije \subseteq L
                      /\ x.delta.popuna.do <= Granica(L)
                      /\ x.delta.od <= Veci(x.prima.fs, x.prima.moje)
                      /\ Jamci(x.delta)'
    BY <1>4 DEF DeltaUredna, Jamci
  <2>1. /\ x.delta.verzije \subseteq K /\ x.delta.popuna.do <= Granica(K)
        /\ x.delta.od <= Veci(x.prima.fs, x.prima.moje) /\ Jamci(x.delta)
    BY DEF RazgovorUredan, DeltaUredna
  <2>2. x.delta.verzije \subseteq L /\ x.delta.popuna.do <= Granica(L)
    BY <1>2, <1>3, <1>7, <2>1
  <2>3. Granica(x.delta.verzije) \in Nat /\ Granica(x.delta.verzije) <= Granica(K)
    BY <1>1, <1>3, <2>1, GranicaBroj, GranicaUnije
  <2>4. ASSUME NEW v \in L,
               (x.delta.od < v /\ v <= Granica(x.delta.verzije)) \/ v \in Clanovi(x.delta.popuna)
        PROVE  v \in x.delta.verzije \cup Clanovi(x.delta.rupe)
    <3>1. v \in Clanovi(x.delta.popuna) => v <= x.delta.popuna.do  BY DEF Clanovi
    <3>2. v \in K  BY <1>2, <1>3, <1>6, <2>1, <2>3, <2>4, <3>1
    <3> QED  BY <2>1, <2>4, <3>2 DEF Jamci
  <2>5. razg'[u].delta = x.delta  BY <1>4
  <2> QED  BY <2>1, <2>2, <2>4, <2>5 DEF Jamci
<1>11. UpisUredan(u)'
  <2> DEFINE p == x.upis.promjena
             V == x.upis.verzije
  <2> SUFFICES ASSUME x.faza \in Pise
               PROVE  /\ V \subseteq L /\ p.redovno.do <= Granica(L) /\ p.popuna.do <= Granica(L)
                      /\ p.fs <= Granica(knjiga'[x.r])
                      /\ Obuhvaca(x.upis.promjena, knjiga[x.r], x.upis.verzije)'
                      /\ x.faza = "upisano" => V \subseteq knjiga'[x.r]
    BY <1>4 DEF UpisUredan, Obuhvaca, Pise, PodBravom
  <2>1. /\ V \subseteq K /\ p.redovno.do <= Granica(K) /\ p.popuna.do <= Granica(K)
        /\ p.fs <= Granica(knjiga[x.r]) /\ Obuhvaca(p, knjiga[x.r], V)
        /\ x.faza = "upisano" => V \subseteq knjiga[x.r]
    BY DEF RazgovorUredan, UpisUredan
  <2>2. x.faza # "nema"  BY DEF Pise, PodBravom
  <2>3. /\ V \subseteq L /\ p.redovno.do <= Granica(L) /\ p.popuna.do <= Granica(L)
        /\ p.fs <= Granica(knjiga'[x.r])
        /\ x.faza = "upisano" => V \subseteq knjiga'[x.r]
    BY <1>2, <1>3, <1>5, <1>7, <2>1, <2>2
  <2>4. Granica(V) \in Nat /\ Granica(V) <= Granica(K)
    BY <1>1, <1>3, <2>1, GranicaBroj, GranicaUnije
  <2>5. \A v \in L \ (knjiga'[x.r] \cup V) :
            /\ (p.fs < v /\ v <= Granica(V)) \/ v \in Clanovi(p.redovno) \/ v \in Clanovi(p.popuna)
               => v \in K \ (knjiga[x.r] \cup V)
    <3> SUFFICES ASSUME NEW v \in L \ (knjiga'[x.r] \cup V),
                        (p.fs < v /\ v <= Granica(V)) \/ v \in Clanovi(p.redovno)
                            \/ v \in Clanovi(p.popuna)
                 PROVE  v \in K \ (knjiga[x.r] \cup V)
      OBVIOUS
    <3>1. /\ v \in Clanovi(p.popuna) => v <= p.popuna.do
          /\ v \in Clanovi(p.redovno) => v <= p.redovno.do
      BY DEF Clanovi
    <3>2. v \in K  BY <1>2, <1>3, <1>6, <2>1, <2>4, <3>1
    <3> QED  BY <1>5, <2>2, <3>2
  <2>6. x'.upis = x.upis /\ x'.r = x.r  BY <1>4
  <2>7. Obuhvaca(x.upis.promjena, knjiga[x.r], x.upis.verzije)'
    BY <2>1, <2>5, <2>6 DEF Obuhvaca
  <2> QED  BY <2>3, <2>7
<1>12. ProsirenoUredno(u)'
  <2> SUFFICES ASSUME x.faza = "prosireno",
                      NEW v \in (L \ knjiga'[x.r]) \ x.upis.verzije,
                      v <= Granica(knjiga'[x.r] \cup x.upis.verzije)
               PROVE  v \in Zabiljezene(rupe'[x.r])
    BY <1>4 DEF ProsirenoUredno, Nema
  <2>1. knjiga'[x.r] = knjiga[x.r] /\ rupe'[x.r] = rupe[x.r]
    BY DEF OkolinaMirna, PodBravom
  <2>2. x.upis.verzije \subseteq K  BY DEF RazgovorUredan, UpisUredan, Pise, PodBravom
  <2>3. Granica(knjiga[x.r] \cup x.upis.verzije) \in Nat
        /\ Granica(knjiga[x.r] \cup x.upis.verzije) <= Granica(K)
    <3>1. knjiga[x.r] \cup x.upis.verzije \in SUBSET Verzije
          /\ knjiga[x.r] \cup x.upis.verzije \subseteq K
      BY <1>1, <2>2
    <3> QED  BY <1>1, <3>1, GranicaBroj, GranicaUnije
  <2>4. v \in K  BY <1>2, <1>6, <2>1, <2>3
  <2>5. v \in Nema(x.r) \ x.upis.verzije  BY <2>1, <2>4 DEF Nema
  <2> QED  BY <2>1, <2>5 DEF RazgovorUredan, ProsirenoUredno
<1>13. OdbijenoUredno(u)'
  <2> DEFINE o == Clanovi(x.upis.promjena.odbijeno)
  <2> SUFFICES ASSUME x.faza \in PodBravom, o # {}
               PROVE  /\ o \subseteq Clanovi(rupe'[x.r].odbijeno)
                      /\ \/ zapisano'[x.r].odbija \subseteq ograda'[x.r].odbija
                         \/ x.prima.ograda.narastaj < ograda'[x.r].narastaj
    BY <1>4 DEF OdbijenoUredno, PodBravom
  <2>1. rupe'[x.r] = rupe[x.r] /\ zapisano'[x.r] = zapisano[x.r] /\ x.faza # "nema"
    BY DEF OkolinaMirna, PodBravom
  <2>2. /\ o \subseteq Clanovi(rupe[x.r].odbijeno)
        /\ \/ zapisano[x.r].odbija \subseteq ograda[x.r].odbija
           \/ x.prima.ograda.narastaj < ograda[x.r].narastaj
    BY DEF RazgovorUredan, OdbijenoUredno
  <2>3. x.prima.ograda.narastaj <= ograda[x.r].narastaj
    BY <2>1 DEF RazgovorUredan, PrimaUredno
  <2>4. \/ ograda[x.r].narastaj < ograda'[x.r].narastaj
        \/ /\ ograda[x.r].narastaj = ograda'[x.r].narastaj
           /\ ograda[x.r].odbija \subseteq ograda'[x.r].odbija
    BY <2>1 DEF OkolinaMirna
  <2> QED  BY <1>1, <1>3, <2>1, <2>2, <2>3, <2>4
<1> QED  BY <1>8, <1>9, <1>10, <1>11, <1>12, <1>13 DEF RazgovorUredan

\* A talk that ended, or did not begin, is in order.
LEMMA SlobodanUredan ==
    ASSUME NEW u \in Razgovori, razg'[u] = Slobodan
    PROVE  RazgovorUredan(u)'
<1>1. razg'[u].faza = "nema"  BY DEF Slobodan
<1>2. "nema" \notin Pise /\ "nema" \notin PodBravom  BY DEF Pise, PodBravom
<1> QED
  BY <1>1, <1>2 DEF RazgovorUredan, SaljeUredno, PrimaUredno, DeltaUredna, UpisUredan,
     ProsirenoUredno, OdbijenoUredno, Pise, PodBravom

\* A step that changes neither ledgers nor records nor rules: the talks it does
\* not end and does not change stay in order.
LEMMA TihiKorak ==
    ASSUME IInv, TypeOK', UNCHANGED <<knjiga, rupe, zapisano, ograda>>,
           \A u \in Razgovori : \/ RazgovorUredan(u)'
                                \/ IstiRazgovor(u) /\ (u \in rastRupa => u \in rastRupa')
    PROVE  Uredno'
<1>1. TypeOK /\ Poceci /\ BezTihePraznine /\ \A u \in Razgovori : RazgovorUredan(u)
  BY DEF IInv, Uredno
<1>2. Poceci' /\ AutorDodaje  BY <1>1 DEF Poceci, AutorDodaje
<1>3. BezTihePraznine'  BY <1>1 DEF BezTihePraznine, Nema
<1>4. ASSUME NEW u \in Razgovori  PROVE RazgovorUredan(u)'
  <2>1. CASE IstiRazgovor(u) /\ (u \in rastRupa => u \in rastRupa')
    <3>1. OkolinaMirna(u)  BY <2>1 DEF OkolinaMirna
    <3> QED  BY <1>1, <1>2, <2>1, <3>1, TudjiRazgovor
  <2> QED  BY <1>4, <2>1
<1> QED  BY <1>2, <1>3, <1>4 DEF Uredno

\* One talk goes on, quietly.
LEMMA TihoNastavlja ==
    ASSUME IInv, TypeOK', NEW t \in Razgovori, NEW novi, Nastavi(t, novi),
           UNCHANGED <<knjiga, rupe, zapisano, ograda, rastRupa>>, RazgovorUredan(t)'
    PROVE  Uredno'
<1>1. TypeOK  BY DEF IInv
<1>2. \A u \in Razgovori \ {t} : razg'[u] = razg[u]  BY <1>1 DEF Nastavi, TypeOK
<1>3. \A u \in Razgovori \ {t} : IstiRazgovor(u)  BY <1>2 DEF IstiRazgovor
<1> QED  BY <1>3, TihiKorak

\* One talk ends, quietly.
LEMMA TihoZavrsava ==
    ASSUME IInv, TypeOK', NEW t \in Razgovori, Zavrsi({t}),
           UNCHANGED <<knjiga, rupe, zapisano, ograda>>
    PROVE  Uredno'
<1>1. TypeOK  BY DEF IInv
<1>2. \A u \in Razgovori : razg'[u] = IF u = t THEN Slobodan ELSE razg[u]
  BY <1>1, ZavrsiTip
<1>3. RazgovorUredan(t)'  BY <1>2, SlobodanUredan
<1>4. \A u \in Razgovori \ {t} : IstiRazgovor(u) /\ (u \in rastRupa => u \in rastRupa')
  BY <1>2 DEF IstiRazgovor, Zavrsi
<1> QED  BY <1>3, <1>4, TihiKorak

-----------------------------------------------------------------------------
(* The steps of a talk *)

\* A talk begins, and each side reads its start.
LEMMA PocetakUredan ==
    ASSUME IInv, TypeOK', NEW t \in Razgovori,
           \/ \E v \in Veze : Zapocni(t, v[1], v[2])
           \/ GranicaPosiljatelja(t) \/ RupePosiljatelja(t)
           \/ GranicaPrimatelja(t) \/ RupePrimatelja(t)
    PROVE  Uredno'
<1> DEFINE x == razg[t]
           y == razg'[t]
<1>1. TypeOK /\ Poceci /\ BezTihePraznine /\ RazgovorUredan(t)
  BY DEF IInv, Uredno
<1>2. x \in RazgovorTip /\ x.s \in Cvor /\ x.r \in Cvor
      /\ Granica(knjiga[x.s]) \in Nat /\ Granica(knjiga[x.r]) \in Nat
      /\ ograda[x.r].narastaj \in Nat
  BY <1>1, RazgovorBrojevi, KnjigaTip
<1>3. UNCHANGED <<knjiga, rupe, zapisano, ograda, rastRupa>>
  BY DEF Zapocni, GranicaPosiljatelja, RupePosiljatelja, GranicaPrimatelja, RupePrimatelja,
     trajno, postavke, oznake
\* In the phase of the start only the first two parts say something.
<1>4. ASSUME y.faza = "pocetak",
             y.salje.granica <= Granica(knjiga[y.s]),
             y.salje.korak = 2 /\ y.s # Autor =>
                /\ \A v \in Nema(y.s) : v <= y.salje.granica => v \in Clanovi(y.salje.nejamci)
                /\ t \in rastRupa \/ Clanovi(NeJamci(rupe[y.s])) \subseteq Clanovi(y.salje.nejamci),
             y.r \in Primatelji, y.prima.fs <= Granica(knjiga[y.r]),
             y.prima.ograda.narastaj <= ograda[y.r].narastaj
      PROVE  RazgovorUredan(t)'
  <2>1. SaljeUredno(t)' /\ PrimaUredno(t)'
    BY <1>3, <1>4 DEF SaljeUredno, PrimaUredno, Nema
  <2>2. DeltaUredna(t)' /\ UpisUredan(t)' /\ ProsirenoUredno(t)' /\ OdbijenoUredno(t)'
    BY <1>4 DEF DeltaUredna, UpisUredan, ProsirenoUredno, OdbijenoUredno, Pise, PodBravom
  <2> QED  BY <2>1, <2>2 DEF RazgovorUredan
<1>5. ASSUME x.faza = "pocetak"
      PROVE  /\ x.salje.granica <= Granica(knjiga[x.s])
             /\ x.r \in Primatelji /\ x.prima.fs <= Granica(knjiga[x.r])
             /\ x.prima.ograda.narastaj <= ograda[x.r].narastaj
             /\ x.salje.korak = 2 /\ x.s # Autor =>
                  /\ \A v \in Nema(x.s) : v <= x.salje.granica => v \in Clanovi(x.salje.nejamci)
                  /\ t \in rastRupa \/ Clanovi(NeJamci(rupe[x.s])) \subseteq Clanovi(x.salje.nejamci)
  BY <1>1, <1>5 DEF RazgovorUredan, SaljeUredno, PrimaUredno
<1>6. ASSUME NEW v \in Veze, Zapocni(t, v[1], v[2])  PROVE Uredno'
  <2>1. Nastavi(t, [Slobodan EXCEPT !.faza = "pocetak", !.s = v[1], !.r = v[2]])
    BY <1>6 DEF Zapocni
  <2>2. v[1] \in Cvor /\ v[2] \in Primatelji  BY RazmjenaPretpostavka
  <2>3. y = [Slobodan EXCEPT !.faza = "pocetak", !.s = v[1], !.r = v[2]]
    BY <1>1, <2>1 DEF Nastavi, TypeOK
  <2>4. /\ y.faza = "pocetak" /\ y.s = v[1] /\ y.r = v[2]
        /\ y.salje = PocetakPosiljatelja /\ y.prima = PocetakPrimatelja
    BY <2>3 DEF Slobodan
  <2>5. Granica(knjiga[v[1]]) \in Nat /\ Granica(knjiga[v[2]]) \in Nat
        /\ ograda[v[2]].narastaj \in Nat
    BY <1>1, <2>2, KnjigaTip
  <2>6. RazgovorUredan(t)'
    BY <1>4, <2>2, <2>4, <2>5 DEF PocetakPosiljatelja, PocetakPrimatelja, BezOgrade
  <2> QED  BY <1>3, <2>1, <2>6, TihoNastavlja
<1>7. CASE GranicaPosiljatelja(t)
  <2> DEFINE sa == [x.salje EXCEPT !.korak = 1, !.granica = Granica(knjiga[x.s])]
  <2>1. Nastavi(t, [x EXCEPT !.salje = sa]) /\ x.faza = "pocetak"
    BY <1>7 DEF GranicaPosiljatelja
  <2>2. x.salje \in SaljeTip  BY <1>2, DijeloviTip
  <2>3. sa.korak = 1 /\ sa.granica = Granica(knjiga[x.s])  BY <2>2 DEF SaljeTip
  <2> HIDE DEF sa
  <2>4. y = [x EXCEPT !.salje = sa]  BY <1>1, <2>1 DEF Nastavi, TypeOK
  <2>5. y.faza = x.faza /\ y.s = x.s /\ y.r = x.r /\ y.salje = sa /\ y.prima = x.prima
    BY <1>2, <2>4 DEF RazgovorTip
  <2>6. RazgovorUredan(t)'  BY <1>2, <1>4, <1>5, <2>1, <2>3, <2>5
  <2> QED  BY <1>3, <2>1, <2>6, TihoNastavlja
<1>8. CASE RupePosiljatelja(t)
  <2> DEFINE sa == [x.salje EXCEPT !.korak = 2, !.nejamci = NeJamciNaPocetku(x.s),
                                   !.dosad = zaCvor[x.s][x.r]]
  <2>1. Nastavi(t, [x EXCEPT !.salje = sa]) /\ x.faza = "pocetak"
    BY <1>8 DEF RupePosiljatelja
  <2>2. x.salje \in SaljeTip  BY <1>2, DijeloviTip
  <2>3. sa.nejamci = NeJamciNaPocetku(x.s) /\ sa.granica = x.salje.granica
    BY <2>2 DEF SaljeTip
  <2> HIDE DEF sa
  <2>4. y = [x EXCEPT !.salje = sa]  BY <1>1, <2>1 DEF Nastavi, TypeOK
  <2>5. y.faza = x.faza /\ y.s = x.s /\ y.r = x.r /\ y.salje = sa /\ y.prima = x.prima
    BY <1>2, <2>4 DEF RazgovorTip
  <2>6. ASSUME x.s # Autor
        PROVE  /\ \A v \in Nema(x.s) : v <= x.salje.granica => v \in Clanovi(sa.nejamci)
               /\ Clanovi(NeJamci(rupe[x.s])) \subseteq Clanovi(sa.nejamci)
    <3>1. /\ Zabiljezene(rupe[x.s]) \subseteq Clanovi(sa.nejamci)
          /\ Clanovi(NeJamci(rupe[x.s])) \subseteq Clanovi(sa.nejamci)
      BY <1>1, <1>2, <2>3, <2>6, PocetakNeGubi
    <3>2. ASSUME NEW v \in Nema(x.s), v <= x.salje.granica  PROVE v \in Zabiljezene(rupe[x.s])
      <4>1. v \in Nat /\ x.salje.granica \in Nat
        <5>1. v \in knjiga[Autor] /\ knjiga[Autor] \in SUBSET Verzije
          BY <1>1, KnjigaTip DEF Nema
        <5> QED  BY <1>1, <5>1, GranicaBroj, RazgovorBrojevi
      <4>2. v <= Granica(knjiga[x.s])  BY <1>2, <1>5, <2>1, <3>2, <4>1
      <4> QED  BY <1>1, <1>2, <2>6, <4>2 DEF BezTihePraznine, Primatelji
    <3> QED  BY <3>1, <3>2
  <2>7. RazgovorUredan(t)'  BY <1>4, <1>5, <2>1, <2>3, <2>5, <2>6
  <2> QED  BY <1>3, <2>1, <2>7, TihoNastavlja
<1>9. CASE GranicaPrimatelja(t)
  <2> DEFINE pr == [x.prima EXCEPT !.korak = 1, !.fs = Granica(knjiga[x.r])]
  <2>1. Nastavi(t, [x EXCEPT !.prima = pr]) /\ x.faza = "pocetak"
    BY <1>9 DEF GranicaPrimatelja
  <2>2. x.prima \in PrimaTip  BY <1>2, DijeloviTip
  <2>3. pr.fs = Granica(knjiga[x.r]) /\ pr.ograda = x.prima.ograda  BY <2>2 DEF PrimaTip
  <2> HIDE DEF pr
  <2>4. y = [x EXCEPT !.prima = pr]  BY <1>1, <2>1 DEF Nastavi, TypeOK
  <2>5. y.faza = x.faza /\ y.s = x.s /\ y.r = x.r /\ y.salje = x.salje /\ y.prima = pr
    BY <1>2, <2>4 DEF RazgovorTip
  <2>6. RazgovorUredan(t)'  BY <1>2, <1>4, <1>5, <2>1, <2>3, <2>5
  <2> QED  BY <1>3, <2>1, <2>6, TihoNastavlja
<1>10. CASE RupePrimatelja(t)
  <2>1. PICK moje, trazi, zapisati :
            Nastavi(t, [x EXCEPT !.prima = [@ EXCEPT !.korak = 2, !.moje = moje,
                          !.ograda = ograda[x.r], !.trazi = trazi, !.zapisati = zapisati]])
    BY <1>10 DEF RupePrimatelja
  <2> DEFINE pr == [x.prima EXCEPT !.korak = 2, !.moje = moje, !.ograda = ograda[x.r],
                                   !.trazi = trazi, !.zapisati = zapisati]
  <2>2. x.prima \in PrimaTip /\ x.faza = "pocetak"
    BY <1>2, <1>10, DijeloviTip DEF RupePrimatelja
  <2>3. pr.fs = x.prima.fs /\ pr.ograda = ograda[x.r]  BY <2>2 DEF PrimaTip
  <2>9. Nastavi(t, [x EXCEPT !.prima = pr])  BY <2>1
  <2> HIDE DEF pr
  <2>4. y = [x EXCEPT !.prima = pr]  BY <1>1, <2>9 DEF Nastavi, TypeOK
  <2>5. y.faza = x.faza /\ y.s = x.s /\ y.r = x.r /\ y.salje = x.salje /\ y.prima = pr
    BY <1>2, <2>4 DEF RazgovorTip
  <2>6. RazgovorUredan(t)'  BY <1>2, <1>4, <1>5, <2>2, <2>3, <2>5
  <2> QED  BY <1>3, <2>1, <2>6, TihoNastavlja
<1> QED  BY <1>6, <1>7, <1>8, <1>9, <1>10

\* The sender composes a delta, and what it says of it is true.
LEMMA SlozenaUredna ==
    ASSUME IInv, TypeOK', NEW t \in Razgovori, SloziDeltu(t)
    PROVE  Uredno'
<1> DEFINE x == razg[t]
           S == knjiga[x.s]
           K == knjiga[Autor]
<1>1. TypeOK /\ Poceci /\ BezTihePraznine /\ RazgovorUredan(t)
      /\ x.faza = "pocetak" /\ x.salje.korak = 2
      /\ UNCHANGED <<knjiga, rupe, zapisano, ograda, rastRupa>>
  BY DEF IInv, Uredno, SloziDeltu, trajno, postavke, oznake
<1>2. /\ x \in RazgovorTip /\ x.s \in Cvor /\ S \in SUBSET Verzije /\ K \in SUBSET Verzije
      /\ S \subseteq K
  BY <1>1, RazgovorBrojevi, KnjigaTip DEF Poceci
<1>3. PICK red \in IF Rez THEN Pocetci(RedovniDio(x, S)) ELSE {RedovniDio(x, S)},
           pop \in IF Rez THEN Pocetci(Popuna(x, S)) ELSE {Popuna(x, S)} :
        Nastavi(t, [x EXCEPT !.faza = "delta",
                             !.delta = [verzije |-> red \cup pop, od |-> GranicaZaDeltu(x),
                                        rupe |-> RupeDelte(t, Granica(red), Pokriva(x, S, pop)),
                                        popuna |-> Pokriva(x, S, pop)],
                             !.salje = PocetakPosiljatelja])
  BY DEF SloziDeltu
<1> DEFINE p == Pokriva(x, S, pop)
           d == [verzije |-> red \cup pop, od |-> GranicaZaDeltu(x),
                 rupe |-> RupeDelte(t, Granica(red), p), popuna |-> p]
           novi == [x EXCEPT !.faza = "delta", !.delta = d, !.salje = PocetakPosiljatelja]
<1>4. PocetakOd(red, RedovniDio(x, S)) /\ PocetakOd(pop, Popuna(x, S))
  <2>1. RedovniDio(x, S) \in SUBSET Verzije /\ Popuna(x, S) \in SUBSET Verzije
    BY <1>2, SlozenaDeltaTip
  <2> HIDE DEF x, S
  <2> QED  BY <2>1, RezJePocetak
<1>5. d.verzije \subseteq K
  <2>1. red \in SUBSET S  BY <1>1, <1>2, <1>4, RedovnoPosteno
  <2>2. pop \in SUBSET S
    <3> HIDE DEF S
    <3> QED  BY <1>1, <1>2, <1>4, PokrivaPosteno, Zenon
  <2> QED  BY <1>2, <2>1, <2>2
<1>6. p.do <= Granica(K)
  <2>1. p.do <= GranicaPopune(x)
    <3> HIDE DEF S
    <3> QED  BY <1>1, <1>2, <1>4, PokrivaPosteno, Zenon
  <2>2. GranicaPopune(x) \in Nat /\ x.salje.granica \in Nat
        /\ GranicaPopune(x) <= x.salje.granica
    BY <1>1, GranicePopune, RazgovorBrojevi
  <2>3. x.salje.granica <= Granica(S)  BY <1>1 DEF RazgovorUredan, SaljeUredno
  <2>4. Granica(S) \in Nat /\ Granica(K) \in Nat /\ Granica(S) <= Granica(K)
    BY <1>2, GranicaBroj, GranicaUnije
  <2>5. p.do \in Nat
    <3>1. pop \in SUBSET Verzije
      BY <1>2, <1>4, SlozenaDeltaTip DEF PocetakOd
    <3>2. p \in Rasponi  BY <1>2, <3>1, SlozenaDeltaTip
    <3> QED  BY <3>2, BeskrajPretpostavka DEF Rasponi, Oznake
  <2> QED  BY <2>1, <2>2, <2>3, <2>4, <2>5
<1>7. d.od <= Veci(x.prima.fs, x.prima.moje)  BY <1>1, GranicePopune
<1>8. Jamci(d)
  BY <1>1, <1>4, SlozenaDeltaJamci DEF RazgovorUredan
<1>9. Nastavi(t, novi)  BY <1>3
<1>10. d.popuna.do <= Granica(K)  BY <1>6
<1> HIDE DEF d, p
<1>11. razg'[t] = novi  BY <1>1, <1>9 DEF Nastavi, TypeOK
<1>12. /\ razg'[t].faza = "delta" /\ razg'[t].r = x.r /\ razg'[t].prima = x.prima
       /\ razg'[t].delta = d
  BY <1>2, <1>11 DEF RazgovorTip
<1>13. PrimaUredno(t)'
  <2>1. PrimaUredno(t) /\ x.faza # "nema"  BY <1>1 DEF RazgovorUredan
  <2> QED  BY <1>1, <1>12, <2>1 DEF PrimaUredno
<1>14. DeltaUredna(t)'
  <2>2. /\ razg'[t].delta.verzije \subseteq knjiga'[Autor]
        /\ razg'[t].delta.popuna.do <= Granica(knjiga'[Autor])
        /\ razg'[t].delta.od <= Veci(razg'[t].prima.fs, razg'[t].prima.moje)
    BY <1>1, <1>5, <1>7, <1>10, <1>12
  <2>3. Jamci(razg[t].delta)'  BY <1>1, <1>8, <1>12 DEF Jamci
  <2> QED  BY <2>2, <2>3 DEF DeltaUredna
<1>15. RazgovorUredan(t)'
  BY <1>12, <1>13, <1>14
  DEF RazgovorUredan, SaljeUredno, UpisUredan, ProsirenoUredno, OdbijenoUredno, Pise, PodBravom
<1> HIDE DEF novi
<1> QED  BY <1>1, <1>9, <1>15, TihoNastavlja

\* An empty change covers everything.
LEMMA PraznoObuhvaca ==
    ASSUME TypeOK, NEW S
    PROVE  Obuhvaca(PraznaPromjena, S, {})
<1>1. Granica({}) = 0  BY DEF Granica
<1>2. Clanovi(Prazno) = {}
  BY BeskrajPretpostavka DEF Clanovi, Prazno, Raspon, Oznake
<1>3. \A v \in knjiga[Autor] : v \in Nat /\ 0 < v  BY KnjigaTip, GranicaBroj
<1> QED  BY <1>1, <1>2, <1>3 DEF Obuhvaca, PraznaPromjena

\* What the receiver refuses in a talk lies in the range it records as refused
\* (rupe.go, rasponOdbijenog), and so does what the sender skipped.
LEMMA OdbijenoSve ==
    ASSUME NEW x, x.prima.fs \in Granice, x.prima.moje \in Granice,
           NEW bacio, NEW wanted, bacio \cup wanted \in SUBSET Verzije
    PROVE  LET o == OdbijenoKljuca(x, wanted, bacio)
           IN /\ bacio \subseteq Clanovi(o)
              /\ \A v \in Verzije : x.prima.fs < v /\ v <= x.prima.moje => v \in Clanovi(o)
<1> DEFINE fs == x.prima.fs
           moje == x.prima.moje
           najmanja == CHOOSE b \in bacio : \A v \in bacio : b <= v
           ispod == Granica({v \in wanted : v < najmanja})
           sada == IF bacio = {} THEN Prazno
                   ELSE RasponOdbijenog(najmanja, Granica(bacio), fs, ispod)
           skok == Raspon(fs, moje)
           o == OdbijenoKljuca(x, wanted, bacio)
<1>1. fs \in Granice /\ moje \in Granice /\ fs \in Nat /\ moje \in Nat
  BY RazmjenaPretpostavka DEF Granice
<1>2. skok \in Rasponi  BY <1>1, OznakeTip
<1>3. bacio \in SUBSET Verzije /\ {v \in wanted : v < najmanja} \in SUBSET Verzije
  OBVIOUS
<1>4. Granica(bacio) \in Granice /\ ispod \in Granice
  BY <1>3, GranicaTip
<1>5. Granice \subseteq Nat /\ Verzije \subseteq Oznake /\ Verzije \subseteq Nat
  BY RazmjenaPretpostavka, BeskrajPretpostavka DEF Granice, Verzije, Oznake
<1>6. o = IF moje = 0 THEN sada ELSE Uz(sada, skok)  BY DEF OdbijenoKljuca
<1>7. sada \in Rasponi /\ bacio \subseteq Clanovi(sada)
  <2>1. CASE bacio = {}
    <3>1. sada = Prazno  BY <2>1
    <3> QED  BY <2>1, <3>1, OznakeTip
  <2>2. CASE bacio # {}
    <3>1. najmanja \in bacio /\ \A v \in bacio : najmanja <= v
      <4>1. \E b \in bacio : \A v \in bacio : b <= v
        <5>1. PICK b0 \in bacio : TRUE  BY <2>2
        <5> DEFINE R == OpToRel(<, Nat)
        <5>2. IsWellFoundedOn(R, Nat)  BY NatLessThanWellFounded, Zenon
        <5>3. \A a, b \in Nat : a < b => <<a, b>> \in R  BY Zenon DEF OpToRel
        <5> HIDE DEF R
        <5>4. bacio \subseteq Nat /\ bacio # {}  BY <1>3, <1>5, <2>2
        <5>5. PICK m \in bacio : \A y \in bacio : ~(<<y, m>> \in R)
          BY ONLY <5>2, <5>4, WFMin, Zenon
        <5>6. \A y \in bacio : ~(y < m)  BY <5>3, <5>4, <5>5
        <5>7. \A y \in bacio : y \in Nat /\ m \in Nat  BY <5>4
        <5>8. \A y \in bacio : m <= y  BY <5>6, <5>7
        <5> QED  BY <5>8
      <4> QED  BY <4>1
    <3> DEFINE od == IF najmanja <= fs THEN ispod ELSE Veci(fs, ispod)
    <3>2. ispod < najmanja
      <4> DEFINE W == {v \in wanted : v < najmanja}
      <4>1. ispod # 0 => ispod \in W  BY <1>3, GranicaBroj
      <4>2. najmanja \in Nat /\ 0 < najmanja /\ ispod \in Nat
        BY <1>3, <1>4, <1>5, <3>1, GranicaBroj
      <4> HIDE DEF ispod, najmanja
      <4> QED  BY <4>1, <4>2
    <3>3. najmanja \in Nat /\ ispod \in Nat /\ Granica(bacio) \in Nat
      BY <1>3, <1>4, <1>5, <3>1
    <3>4. sada = Cist(Raspon(od, Granica(bacio)))  BY <2>2 DEF RasponOdbijenog
    <3> HIDE DEF ispod, najmanja
    <3>5. od \in Granice /\ od < najmanja
      BY <1>1, <1>4, <3>2, <3>3 DEF Veci
    <3> HIDE DEF od
    <3>6. Raspon(od, Granica(bacio)) \in Rasponi  BY <1>4, <3>5, OznakeTip
    <3>7. sada \in Rasponi  BY <3>4, <3>6, AlgebraTip
    <3>8. ASSUME NEW v \in bacio  PROVE v \in Clanovi(sada)
      <4>1. v \in Nat /\ v \in Oznake /\ v <= Granica(bacio) /\ od \in Nat /\ od < v
        BY <1>3, <1>5, <3>1, <3>3, <3>5, GranicaBroj
      <4> HIDE DEF sada
      <4> QED  BY <3>3, <3>4, <4>1 DEF Cist, Prazan, Raspon, Clanovi
    <3> QED  BY <3>7, <3>8
  <2> QED  BY <2>1, <2>2
<1> HIDE DEF sada, skok, o, fs, moje
<1>8. \A v \in Verzije : fs < v /\ v <= moje => v \in Clanovi(skok) /\ moje # 0
  BY <1>1, <1>5 DEF skok, Raspon, Clanovi
<1>9. Clanovi(sada) \cup Clanovi(skok) \subseteq Clanovi(Uz(sada, skok))
  BY <1>2, <1>7, UzDrziOba
<1>10. /\ bacio \subseteq Clanovi(o)
       /\ \A v \in Verzije : fs < v /\ v <= moje => v \in Clanovi(o)
  BY <1>6, <1>7, <1>8, <1>9
<1> QED  BY <1>10 DEF o, fs, moje

\* What the receiver decides to write covers all it passes over (rupe.go,
\* promjenaRupa): what it refuses, what the sender skipped, and what the sender
\* does not vouch for.
LEMMA OdlukaUredna ==
    ASSUME IInv, NEW t \in Razgovori, razg[t].faza = "delta"
    PROVE  LET x == razg[t]
               u == OdlukaZaUpis(x)
               K == knjiga[Autor]
           IN /\ u.verzije \subseteq K
              /\ u.promjena.redovno.do <= Granica(K) /\ u.promjena.popuna.do <= Granica(K)
              /\ u.promjena.fs <= Granica(knjiga[x.r])
              /\ Obuhvaca(u.promjena, knjiga[x.r], u.verzije)
<1> DEFINE x == razg[t]
           u == OdlukaZaUpis(x)
           K == knjiga[Autor]
           S == knjiga[x.r]
           D == x.delta.verzije
           fs == x.prima.fs
           moje == x.prima.moje
           bacio == Bacio(x)
           wanted == D \ bacio
           m == Granica(wanted \cup bacio)
           vp == ValjanaPopuna(x)
           o == OdbijenoKljuca(x, wanted, bacio)
           nes == Presjek(x.delta.rupe, Raspon(0, Veci(m, vp.do)))
           red == Cist(Raspon(Veci(fs, moje), m))
<1>1. TypeOK /\ Poceci /\ RazgovorUredan(t) /\ x.r \in Cvor /\ x \in RazgovorTip
  BY RazgovorBrojevi DEF IInv, Uredno
<1>2. /\ D \subseteq K /\ x.delta.popuna.do <= Granica(K)
      /\ x.delta.od <= Veci(fs, moje) /\ Jamci(x.delta)
  BY <1>1 DEF RazgovorUredan, DeltaUredna
<1>3. fs <= Granica(S)  BY <1>1 DEF RazgovorUredan, PrimaUredno
<1>4. /\ K \in SUBSET Verzije /\ S \in SUBSET Verzije /\ D \in SUBSET Verzije
      /\ Granica(K) \in Nat /\ Granica(S) \in Nat
  BY <1>1, KnjigaTip, RazgovorBrojevi
<1>5. bacio \subseteq D /\ wanted \cup bacio = D  BY DEF Bacio
<1>6. m = Granica(D) /\ m \in Nat /\ m <= Granica(K) /\ m \in Granice /\ m \in Oznake
  <2>1. m = Granica(D)  BY <1>5
  <2>2. Granica(D) \in Nat /\ Granica(D) <= Granica(K) /\ Granica(D) \in Granice
    BY <1>2, <1>4, GranicaBroj, GranicaUnije, GranicaTip
  <2> QED  BY <2>1, <2>2, OznakeTip
<1>7. fs \in Nat /\ moje \in Nat /\ fs \in Granice /\ moje \in Granice
      /\ x.delta.od \in Nat /\ x.delta.rupe \in Rasponi /\ x.delta.popuna \in Rasponi
  <2>1. x.prima \in PrimaTip  BY <1>1, DijeloviTip
  <2> QED  BY <1>1, <2>1, RazgovorBrojevi DEF PrimaTip
<1>8. CASE u.promjena = PraznaPromjena /\ u.verzije = {}
  BY <1>1, <1>4, <1>8, PraznoObuhvaca DEF PraznaPromjena, Prazno, Raspon
<1>9. CASE /\ u.verzije = wanted
           /\ u.promjena = [odbijeno |-> o, uTrazi |-> Prazno, nesigurno |-> nes,
                            redovno |-> red, popuna |-> vp, fs |-> fs]
  <2>1. vp = Prazno \/ vp = x.delta.popuna  BY DEF ValjanaPopuna
  <2>2. vp \in Rasponi /\ vp.do \in Nat /\ vp.do \in Oznake /\ vp.do <= Granica(K)
        /\ Clanovi(vp) \subseteq Clanovi(x.delta.popuna)
    <3>1. CASE vp = Prazno
      <4>1. Prazno.do = 0 /\ Clanovi(Prazno) = {} /\ 0 \in Oznake
        BY BeskrajPretpostavka DEF Prazno, Raspon, Clanovi, Oznake
      <4> QED  BY <1>4, <3>1, <4>1, OznakeTip
    <3>2. CASE vp = x.delta.popuna
      <4>1. x.delta.popuna.do \in Oznake /\ Oznake \subseteq Nat
        BY <1>7, BeskrajPretpostavka DEF Rasponi, Oznake
      <4> QED  BY <1>2, <1>7, <3>2, <4>1
    <3> QED  BY <2>1, <3>1, <3>2
  <2> HIDE DEF vp, m, o
  <2>3. Veci(fs, moje) \in Oznake /\ Veci(m, vp.do) \in Oznake /\ 0 \in Oznake
    BY <1>6, <1>7, <2>2, OznakeTip
  <2>4. Raspon(Veci(fs, moje), m) \in Rasponi /\ Raspon(0, Veci(m, vp.do)) \in Rasponi
    BY <1>6, <2>3, OznakeTip
  <2>5. red.do <= Granica(K)
    BY <1>4, <1>6 DEF Cist, Prazno, Raspon
  <2>6. Clanovi(nes) = Clanovi(x.delta.rupe) \cap Clanovi(Raspon(0, Veci(m, vp.do)))
    BY <1>7, <2>4, PresjekTocan
  <2>7. /\ bacio \subseteq Clanovi(o)
        /\ \A v \in Verzije : fs < v /\ v <= moje => v \in Clanovi(o)
    <3>1. bacio \cup wanted \in SUBSET Verzije  BY <1>4, <1>5
    <3> HIDE DEF bacio, wanted
    <3> QED  BY <1>7, <3>1, OdbijenoSve DEF o
  <2>8. ASSUME NEW v \in K \ (S \cup wanted),
               (fs < v /\ v <= Granica(wanted)) \/ v \in Clanovi(red)
        PROVE  v \in Clanovi(o) \/ (v \in Clanovi(nes) /\ fs < v)
    <3>1. v \in Verzije /\ v \in Nat /\ 0 < v /\ v \in Oznake
      <4>1. v \in Verzije  BY <1>4
      <4> QED  BY <4>1, OznakeTip, RazmjenaPretpostavka DEF Verzije
    <3>2. Granica(wanted) \in Nat /\ Granica(wanted) <= m
      BY <1>4, <1>6, GranicaBroj, GranicaUnije
    <3>3. v \in Clanovi(red) => Veci(fs, moje) < v /\ v <= m
      BY <1>6, <1>7, <3>1 DEF Cist, Prazan, Prazno, Raspon, Clanovi
    <3>4. fs < v /\ v <= m  BY <1>6, <1>7, <2>8, <3>1, <3>2, <3>3 DEF Veci
    <3>5. CASE v <= moje  BY <2>7, <3>1, <3>4, <3>5
    <3>6. CASE ~(v <= moje)
      <4>1. x.delta.od < v
        BY <1>2, <1>7, <3>1, <3>4, <3>6 DEF Veci
      <4>2. v \in D \cup Clanovi(x.delta.rupe)
        BY <1>2, <1>6, <2>8, <3>4, <4>1 DEF Jamci
      <4>3. CASE v \in D
        BY <2>7, <2>8, <4>3
      <4>4. CASE v \in Clanovi(x.delta.rupe)
        <5>1. v \in Clanovi(Raspon(0, Veci(m, vp.do)))
          BY <1>6, <2>2, <3>1, <3>4 DEF Raspon, Clanovi, Veci
        <5> QED  BY <2>6, <3>4, <4>4, <5>1
      <4> QED  BY <4>2, <4>3, <4>4
    <3> QED  BY <3>5, <3>6
  <2>9. ASSUME NEW v \in K \ (S \cup wanted), v \in Clanovi(vp)
        PROVE  v \in Clanovi(o) \cup Clanovi(nes)
    <3>1. v \in D \cup Clanovi(x.delta.rupe)  BY <1>2, <2>2, <2>9 DEF Jamci
    <3>2. CASE v \in D
      BY <2>7, <2>9, <3>2
    <3>3. CASE v \in Clanovi(x.delta.rupe)
      <4>1. v \in Verzije  BY <1>4
      <4>2. v \in Oznake /\ v \in Nat /\ 0 < v
        BY <4>1, OznakeTip, RazmjenaPretpostavka DEF Verzije
      <4>3. v <= vp.do  BY <2>9 DEF Clanovi
      <4>4. v \in Clanovi(Raspon(0, Veci(m, vp.do)))
        BY <1>6, <2>2, <4>2, <4>3 DEF Raspon, Clanovi, Veci
      <4> QED  BY <2>6, <3>3, <4>4
    <3> QED  BY <3>1, <3>2, <3>3
  <2> HIDE DEF nes, red, u, K, S, wanted, fs
  <2>10. /\ u.promjena.odbijeno = o /\ u.promjena.nesigurno = nes /\ u.promjena.redovno = red
         /\ u.promjena.popuna = vp /\ u.promjena.fs = fs /\ u.verzije = wanted
    BY <1>9
  <2>11. Obuhvaca(u.promjena, S, u.verzije)
    BY <2>8, <2>9, <2>10 DEF Obuhvaca, K
  <2>12. wanted \subseteq K  BY <1>2 DEF wanted
  <2> QED  BY <1>3, <2>2, <2>5, <2>10, <2>11, <2>12 DEF u, K, S
<1> QED
  <2>1. u = IF Preskoceno(x)
            THEN [PrazanUpis EXCEPT !.pravilo = x.prima.zapisati]
            ELSE [verzije |-> wanted, promjena |-> PromjenaRupa(x, wanted, bacio),
                  pravilo |-> x.prima.zapisati, odbijeno |-> Granica(bacio),
                  popunjava |-> FALSE]
    BY DEF OdlukaZaUpis
  <2>2. CASE Preskoceno(x)
    BY <1>8, <2>1, <2>2 DEF PrazanUpis
  <2>3. CASE ~Preskoceno(x)
    <3>1. u.verzije = wanted /\ u.promjena = PromjenaRupa(x, wanted, bacio)
      BY <2>1, <2>3
    <3>2. \/ wanted \cup bacio = {} /\ PromjenaRupa(x, wanted, bacio) = PraznaPromjena
          \/ PromjenaRupa(x, wanted, bacio)
                = [odbijeno |-> o, uTrazi |-> Prazno, nesigurno |-> nes,
                   redovno |-> red, popuna |-> vp, fs |-> fs]
      BY DEF PromjenaRupa
    <3>3. wanted \cup bacio = {} => wanted = {}  OBVIOUS
    <3> HIDE DEF u, o, nes, red, vp, fs, wanted, bacio
    <3> QED  BY <1>8, <1>9, <3>1, <3>2, <3>3
  <2> QED  BY <2>2, <2>3

\* The receiver decides what to write.
LEMMA OdlucenoUredno ==
    ASSUME IInv, TypeOK', NEW t \in Razgovori, Odluci(t)
    PROVE  Uredno'
<1> DEFINE x == razg[t]
           u == OdlukaZaUpis(x)
           f == IF Nista(u, x.prima.trazi) THEN "zapamti" ELSE "brava"
           d == [PraznaDelta EXCEPT !.verzije = x.delta.verzije]
           novi == [x EXCEPT !.faza = f, !.delta = d, !.upis = u]
<1>1. TypeOK /\ RazgovorUredan(t) /\ x.faza = "delta" /\ x \in RazgovorTip
      /\ UNCHANGED <<knjiga, rupe, zapisano, ograda, rastRupa>>
  BY RazgovorBrojevi DEF IInv, Uredno, Odluci, trajno, postavke
<1>2. Nastavi(t, novi)  BY DEF Odluci
<1>3. f \in {"zapamti", "brava"}  OBVIOUS
<1>4. /\ u.verzije \subseteq knjiga[Autor]
      /\ u.promjena.redovno.do <= Granica(knjiga[Autor])
      /\ u.promjena.popuna.do <= Granica(knjiga[Autor])
      /\ u.promjena.fs <= Granica(knjiga[x.r])
      /\ Obuhvaca(u.promjena, knjiga[x.r], u.verzije)
  BY <1>1, OdlukaUredna
<1> HIDE DEF f, d, u
<1>5. razg'[t] = novi  BY <1>1, <1>2 DEF Nastavi, TypeOK
<1>6. /\ razg'[t].faza = f /\ razg'[t].r = x.r /\ razg'[t].prima = x.prima
      /\ razg'[t].upis = u
  BY <1>1, <1>5 DEF RazgovorTip
<1>7. PrimaUredno(t)'
  <2>1. PrimaUredno(t) /\ x.faza # "nema"  BY <1>1 DEF RazgovorUredan
  <2> QED  BY <1>1, <1>6, <2>1 DEF PrimaUredno
<1>8. UpisUredan(t)'
  <2>1. Obuhvaca(razg[t].upis.promjena, knjiga[razg[t].r], razg[t].upis.verzije)'
    BY <1>1, <1>4, <1>6 DEF Obuhvaca
  <2>2. /\ razg'[t].upis.verzije \subseteq knjiga'[Autor]
        /\ razg'[t].upis.promjena.redovno.do <= Granica(knjiga'[Autor])
        /\ razg'[t].upis.promjena.popuna.do <= Granica(knjiga'[Autor])
        /\ razg'[t].upis.promjena.fs <= Granica(knjiga'[razg'[t].r])
        /\ razg'[t].faza # "upisano"
    BY <1>1, <1>3, <1>4, <1>6
  <2> QED  BY <2>1, <2>2 DEF UpisUredan
<1>9. RazgovorUredan(t)'
  BY <1>3, <1>6, <1>7, <1>8
  DEF RazgovorUredan, SaljeUredno, DeltaUredna, ProsirenoUredno, OdbijenoUredno, PodBravom
<1> HIDE DEF novi
<1> QED  BY <1>1, <1>2, <1>9, TihoNastavlja

\* What was refused and what was sent is remembered, and a talk that ends before
\* its time leaves no trace in the ledger and its record.
LEMMA PamtiUredno ==
    ASSUME IInv, TypeOK', NEW t \in Razgovori,
           \/ NePrati(t) \/ ZapamtiOdbijene(t) \/ ZapamtiUvoz(t)
           \/ BravaNijeStigla(t) \/ Prekid(t) \/ UpisPao(t)
    PROVE  Uredno'
<1> DEFINE x == razg[t]
<1>1. TypeOK /\ RazgovorUredan(t) /\ x \in RazgovorTip /\ x.r \in Cvor
  BY RazgovorBrojevi DEF IInv, Uredno
<1>2. CASE NePrati(t) \/ ZapamtiUvoz(t) \/ BravaNijeStigla(t) \/ Prekid(t) \/ UpisPao(t)
  BY <1>2, TihoZavrsava
  DEF NePrati, ZapamtiUvoz, BravaNijeStigla, Prekid, UpisPao, trajno, postavke
<1>3. CASE ZapamtiOdbijene(t)
  <2> DEFINE novi == [x EXCEPT !.faza = "zelje", !.prima = PocetakPrimatelja,
                               !.upis = PrazanUpis]
  <2>1. Nastavi(t, novi) /\ x.faza = "zapamti"
        /\ UNCHANGED <<knjiga, rupe, zapisano, ograda, rastRupa>>
    BY <1>3 DEF ZapamtiOdbijene, trajno, postavke
  <2>2. razg'[t] = novi  BY <1>1, <2>1 DEF Nastavi, TypeOK
  <2>3. razg'[t].faza = "zelje" /\ razg'[t].r = x.r /\ razg'[t].prima = PocetakPrimatelja
    BY <1>1, <2>2 DEF RazgovorTip
  <2>4. PrimaUredno(t)'
    <3>1. x.r \in Primatelji  BY <1>1, <2>1 DEF RazgovorUredan, PrimaUredno
    <3>2. Granica(knjiga[x.r]) \in Nat /\ ograda[x.r].narastaj \in Nat
      BY <1>1, KnjigaTip
    <3>3. PocetakPrimatelja.fs = 0 /\ PocetakPrimatelja.ograda.narastaj = 0
      BY DEF PocetakPrimatelja, BezOgrade
    <3> QED  BY <2>1, <2>3, <3>1, <3>2, <3>3 DEF PrimaUredno
  <2>5. RazgovorUredan(t)'
    BY <2>3, <2>4
    DEF RazgovorUredan, SaljeUredno, DeltaUredna, UpisUredan, ProsirenoUredno,
        OdbijenoUredno, Pise, PodBravom
  <2> HIDE DEF novi
  <2> QED  BY <2>1, <2>5, TihoNastavlja
<1> QED  BY <1>2, <1>3

-----------------------------------------------------------------------------
(* What happens outside the talks *)

\* Subscriptions, restarts and records of refusals that expire.
LEMMA CvorUredan ==
    ASSUME IInv, TypeOK', NEW n \in Cvor,
           \/ PromijeniPretplatu(n) \/ PonovnoPokreni(n) \/ \E s \in Cvor : Istekne(n, s)
    PROVE  Uredno'
<1>1. TypeOK  BY DEF IInv
<1>2. CASE PromijeniPretplatu(n) \/ \E s \in Cvor : Istekne(n, s)
  <2>1. UNCHANGED <<knjiga, rupe, zapisano, ograda, razg, rastRupa>>
    BY <1>2 DEF PromijeniPretplatu, Istekne, trajno, postavke, oznake
  <2>2. \A u \in Razgovori : IstiRazgovor(u)  BY <2>1 DEF IstiRazgovor
  <2> QED  BY <2>1, <2>2, TihiKorak
<1>3. CASE PonovnoPokreni(n)
  <2> DEFINE dovrsavaju == {t \in Razgovori : razg[t].s = n /\ razg[t].r # n
                                /\ razg[t].faza \in {"brava", "zapamti"} \cup PodBravom}
             gotovi == {t \in Razgovori \ dovrsavaju : n \in {razg[t].s, razg[t].r}}
  <2>1. /\ UNCHANGED <<knjiga, rupe, zapisano, ograda>>
        /\ rastRupa' = rastRupa \ gotovi
        /\ \A u \in Razgovori : razg'[u] = IF u \in gotovi THEN Slobodan
                                           ELSE IF u \in dovrsavaju
                                                THEN [razg[u] EXCEPT !.prekinut = TRUE]
                                                ELSE razg[u]
    BY <1>3 DEF PonovnoPokreni, trajno, postavke
  <2> HIDE DEF gotovi, dovrsavaju
  <2>2. ASSUME NEW u \in Razgovori, u \in gotovi  PROVE RazgovorUredan(u)'
    BY <2>1, <2>2, SlobodanUredan
  <2>3. ASSUME NEW u \in Razgovori, u \notin gotovi
        PROVE  IstiRazgovor(u) /\ (u \in rastRupa => u \in rastRupa')
    <3>1. razg[u] \in RazgovorTip  BY <1>1, RazgovorBrojevi
    <3>2. razg'[u] = razg[u] \/ razg'[u] = [razg[u] EXCEPT !.prekinut = TRUE]
      BY <2>1, <2>3
    <3>3. IstiRazgovor(u)  BY <3>1, <3>2 DEF IstiRazgovor, RazgovorTip
    <3> QED  BY <2>1, <2>3, <3>3
  <2> QED  BY <2>1, <2>2, <2>3, TihiKorak
<1> QED  BY <1>2, <1>3

\* A rule that changes has a new generation, and an edge that moves forward
\* refuses more: in one generation a node goes on refusing what it refused.
LEMMA PromjenaPravilaRaste ==
    ASSUME TypeOK, NEW n \in Cvor, PromijeniPravilo(n) \/ PomakniRub(n), NEW c \in Cvor
    PROVE  /\ ograda[c].narastaj \in Nat /\ ograda'[c].narastaj \in Nat
           /\ \/ ograda[c].narastaj < ograda'[c].narastaj
              \/ /\ ograda[c].narastaj = ograda'[c].narastaj
                 /\ ograda[c].odbija \subseteq ograda'[c].odbija
<1>1. ograda[c].narastaj \in Nat  BY KnjigaTip
<1>2. CASE PromijeniPravilo(n)
  <2>1. PICK p \in Pravila :
           ograda' = [ograda EXCEPT ![n] = [narastaj |-> @.narastaj + 1, odbija |-> p]]
    BY <1>2 DEF PromijeniPravilo
  <2>2. c # n => ograda'[c] = ograda[c]  BY <2>1 DEF TypeOK
  <2>3. ograda'[n] = [narastaj |-> ograda[n].narastaj + 1, odbija |-> p]
    BY <2>1 DEF TypeOK
  <2>4. ograda'[n].narastaj = ograda[n].narastaj + 1  BY <2>3
  <2> QED  BY <1>1, <2>2, <2>4
<1>3. CASE PomakniRub(n)
  <2>1. PICK p \in Pravila :
           /\ ograda[n].odbija \subseteq p
           /\ ograda' = [ograda EXCEPT ![n] = [@ EXCEPT !.odbija = p]]
    BY <1>3 DEF PomakniRub
  <2>2. ograda[n] \in Ograde  BY DEF TypeOK
  <2>3. c # n => ograda'[c] = ograda[c]  BY <2>1 DEF TypeOK
  <2>4. ograda'[n] = [ograda[n] EXCEPT !.odbija = p]  BY <2>1 DEF TypeOK
  <2>5. ograda'[n].narastaj = ograda[n].narastaj /\ ograda'[n].odbija = p
    BY <2>2, <2>4 DEF Ograde
  <2> QED  BY <1>1, <2>1, <2>3, <2>5
<1> QED  BY <1>2, <1>3

\* A change of the rule, and an edge that moves forward, leave the talks, the
\* ledgers and the records in order.
LEMMA PraviloUredno ==
    ASSUME IInv, TypeOK', NEW n \in Cvor, PromijeniPravilo(n) \/ PomakniRub(n)
    PROVE  Uredno'
<1>1. TypeOK /\ Poceci /\ BezTihePraznine /\ \A u \in Razgovori : RazgovorUredan(u)
  BY DEF IInv, Uredno
<1>2. UNCHANGED <<knjiga, rupe, zapisano, razg, rastRupa>>
  BY DEF PromijeniPravilo, PomakniRub, trajno, oznake
<1>3. \A c \in Cvor :
         \/ ograda[c].narastaj < ograda'[c].narastaj
         \/ ograda[c].narastaj = ograda'[c].narastaj /\ ograda[c].odbija \subseteq ograda'[c].odbija
  BY <1>1, PromjenaPravilaRaste
<1>4. Poceci' /\ AutorDodaje  BY <1>1, <1>2 DEF Poceci, AutorDodaje
<1>5. BezTihePraznine'  BY <1>1, <1>2 DEF BezTihePraznine, Nema
<1>6. ASSUME NEW u \in Razgovori  PROVE RazgovorUredan(u)'
  <2>1. razg[u].r \in Cvor  BY <1>1, RazgovorBrojevi
  <2>2. IstiRazgovor(u) /\ OkolinaMirna(u)
    BY <1>2, <1>3, <2>1 DEF IstiRazgovor, OkolinaMirna
  <2> QED  BY <1>1, <1>4, <2>2, TudjiRazgovor
<1> QED  BY <1>4, <1>5, <1>6 DEF Uredno

\* The author writes the next version.
LEMMA NapisanoUredno ==
    ASSUME IInv, TypeOK', Napisi
    PROVE  Uredno' /\ Promet!Napisi
<1> DEFINE K == knjiga[Autor]
           g == Granica(K)
<1>1. TypeOK /\ Poceci /\ BezTihePraznine /\ \A u \in Razgovori : RazgovorUredan(u)
  BY DEF IInv, Uredno
<1>2. /\ UNCHANGED <<rupe, zapisano, ograda, prati, razg, rastRupa>>
      /\ knjiga' = [knjiga EXCEPT ![Autor] = @ \cup {Granica(@) + 1}]
      /\ g < ZadnjaVerzija
  BY DEF Napisi, postavke, oznake
<1>3. Autor \in Cvor /\ K \in SUBSET Verzije /\ g \in Nat /\ K = 1 .. g
  BY <1>1, KnjigaTip DEF Poceci
<1>4. /\ knjiga'[Autor] = K \cup {g + 1}
      /\ \A n \in Cvor : n # Autor => knjiga'[n] = knjiga[n]
  BY <1>1, <1>2, <1>3 DEF TypeOK
<1>5. knjiga'[Autor] = 1 .. g + 1  BY <1>3, <1>4
<1>6. Granica(knjiga'[Autor]) = g + 1
  <2>1. knjiga'[Autor] \in SUBSET Verzije  BY <1>3 DEF TypeOK
  <2>2. /\ Granica(knjiga'[Autor]) \in Nat
        /\ Granica(knjiga'[Autor]) # 0 => Granica(knjiga'[Autor]) \in knjiga'[Autor]
        /\ \A v \in knjiga'[Autor] : v <= Granica(knjiga'[Autor])
    BY <2>1, GranicaBroj
  <2>3. \A v \in knjiga'[Autor] : v \in Nat /\ v <= g + 1  BY <1>3, <1>5
  <2>4. g + 1 \in knjiga'[Autor]  BY <1>3, <1>5
  <2>5. g + 1 <= Granica(knjiga'[Autor])  BY <2>2, <2>4
  <2>6. Granica(knjiga'[Autor]) \in knjiga'[Autor]  BY <1>3, <2>2, <2>5
  <2>7. Granica(knjiga'[Autor]) <= g + 1  BY <2>3, <2>6
  <2> QED  BY <1>3, <2>2, <2>5, <2>7
<1>7. Poceci'
  BY <1>1, <1>4, <1>5, <1>6 DEF Poceci
<1>8. AutorDodaje  BY <1>3, <1>4 DEF AutorDodaje
<1>9. BezTihePraznine'
  <2> SUFFICES ASSUME NEW n \in Primatelji, NEW v \in knjiga'[Autor] \ knjiga'[n],
                      v <= Granica(knjiga'[n])
               PROVE  v \in Zabiljezene(rupe'[n])
    BY DEF BezTihePraznine, Nema
  <2>1. n \in Cvor /\ n # Autor /\ knjiga'[n] = knjiga[n]  BY <1>4 DEF Primatelji
  <2>2. Granica(knjiga[n]) \in Nat /\ Granica(knjiga[n]) <= g
    BY <1>1, <1>3, <2>1, KnjigaTip, GranicaUnije DEF Poceci
  <2>3. v # g + 1  BY <1>3, <2>1, <2>2
  <2>4. v \in Nema(n)  BY <1>4, <2>1, <2>3 DEF Nema
  <2> QED  BY <1>1, <1>2, <2>1, <2>4 DEF BezTihePraznine
<1>10. ASSUME NEW u \in Razgovori  PROVE RazgovorUredan(u)'
  <2>1. razg[u].s \in Cvor /\ razg[u].r \in Cvor  BY <1>1, RazgovorBrojevi
  <2>2. razg[u].faza # "nema" => razg[u].r # Autor
    BY <1>1 DEF RazgovorUredan, PrimaUredno, Primatelji
  <2>3. \A n \in Cvor : knjiga[n] \subseteq knjiga'[n]  BY <1>4
  <2>4. IstiRazgovor(u)  BY <1>2 DEF IstiRazgovor
  <2>5. razg[u].faza # "nema" => OkolinaMirna(u)
    BY <1>2, <1>4, <2>1, <2>2, <2>3 DEF OkolinaMirna
  <2> QED  BY <1>1, <1>8, <2>4, <2>5, TudjiRazgovor
<1>11. Promet!Napisi
  BY <1>2, <1>3, <1>6 DEF Promet!Napisi
<1> QED  BY <1>7, <1>9, <1>10, <1>11 DEF Uredno

-----------------------------------------------------------------------------
(* The record of gaps *)

\* The record novo keeps of n what its record holds and it does not have.
ZapisCuva(n, novo) ==
    \A v \in Nema(n) : v \in Zabiljezene(rupe[n]) => v \in Zabiljezene(novo)

\* A transaction on the record that is told to nobody leaves the node vouching
\* for as much as before (rupe_baza.go, rupeMijenja).
LEMMA ZapisTih ==
    ASSUME TypeOK, NEW n \in Cvor, NEW novo \in RupeKljuca,
           ~Virtualno(n), ~Raste(novo, UskladjenoPravilo(n))
    PROVE  Clanovi(NeJamci(novo)) \subseteq Clanovi(NeJamci(rupe[n]))
<1> DEFINE staro == UskladjenoPravilo(n)
<1>1. staro \in RupeKljuca  BY PocetakTip
<1> HIDE DEF staro
<1>2. NeJamci(novo) \in Rasponi /\ NeJamci(staro) \in Rasponi
  BY <1>1, SlobodanTip, ZapisTip
<1>3. Clanovi(NeJamci(novo)) \subseteq Clanovi(Uz(NeJamci(novo), NeJamci(staro)))
  BY <1>2, UzDrziOba
<1>4. Uz(NeJamci(novo), NeJamci(staro)) = NeJamci(staro)  BY DEF Raste, staro
<1>5. Clanovi(NeJamci(staro)) = Clanovi(NeJamci(rupe[n]))  BY PocetakNeGubi DEF staro
<1> QED  BY <1>3, <1>4, <1>5

\* A transaction on the record is told to the talks the node sends in, when the
\* node vouches for less after it (rupe_baza.go, rupeMijenja).
LEMMA ZapisJavljen ==
    ASSUME TypeOK, NEW n \in Cvor, NEW novo \in RupeKljuca,
           PromijeniRupe(n, UskladjenoPravilo(n), novo),
           NEW u \in Razgovori, razg[u].faza = "pocetak", razg[u].salje.korak = 2
    PROVE  \/ u \in rastRupa'
           \/ /\ u \notin rastRupa
              /\ Clanovi(NeJamci(rupe'[razg[u].s])) \subseteq Clanovi(NeJamci(rupe[razg[u].s]))
<1> DEFINE staro == UskladjenoPravilo(n)
<1>1. razg[u].s \in Cvor /\ staro \in RupeKljuca  BY RazgovorBrojevi, PocetakTip
<1>2. rupe' = [rupe EXCEPT ![n] = novo] /\ rastRupa \subseteq rastRupa'
  BY DEF PromijeniRupe
<1>3. CASE razg[u].s # n
  <2>1. rupe'[razg[u].s] = rupe[razg[u].s]  BY <1>1, <1>2, <1>3 DEF TypeOK
  <2> QED  BY <1>2, <2>1
<1>4. CASE razg[u].s = n /\ (Virtualno(n) \/ Raste(novo, staro))
  <2>1. u \in Salje(n)  BY <1>4 DEF Salje
  <2> QED  BY <1>4, <2>1 DEF PromijeniRupe
<1>5. CASE razg[u].s = n /\ ~Virtualno(n) /\ ~Raste(novo, staro)
  <2>1. rupe'[n] = novo  BY <1>2 DEF TypeOK
  <2>2. Clanovi(NeJamci(novo)) \subseteq Clanovi(NeJamci(rupe[n]))  BY <1>5, ZapisTih
  <2> QED  BY <1>2, <1>5, <2>1, <2>2
<1> QED  BY <1>3, <1>4, <1>5

\* A transaction that keeps what is recorded leaves the other talks in order,
\* and is a step of the abstract record.
LEMMA ZapisUredan ==
    ASSUME IInv, TypeOK', NEW n \in Primatelji, NEW novo \in RupeKljuca,
           PromijeniRupe(n, UskladjenoPravilo(n), novo), ZapisCuva(n, novo),
           UNCHANGED <<knjiga, ograda, prati>>,
           \A u \in Razgovori :
               \/ RazgovorUredan(u)'
               \/ IstiRazgovor(u) /\ (razg[u].faza \in PodBravom => razg[u].r # n)
    PROVE  Uredno' /\ Promet!Zabiljezi(n)
<1>1. /\ TypeOK /\ Poceci /\ BezTihePraznine
      /\ \A u \in Razgovori : RazgovorUredan(u)
      /\ n \in Cvor /\ n # Autor
  BY DEF IInv, Uredno, Primatelji
<1>2. /\ rupe' = [rupe EXCEPT ![n] = novo]
      /\ zapisano' = [zapisano EXCEPT ![n] = [ima |-> TRUE, odbija |-> ograda[n].odbija]]
  BY DEF PromijeniRupe
<1>3. rupe'[n] = novo /\ \A c \in Cvor : c # n => rupe'[c] = rupe[c] /\ zapisano'[c] = zapisano[c]
  BY <1>1, <1>2 DEF TypeOK
<1>4. Poceci' /\ AutorDodaje  BY <1>1 DEF Poceci, AutorDodaje
<1>5. BezTihePraznine'
  <2> SUFFICES ASSUME NEW c \in Primatelji, NEW v \in Nema(c), v <= Granica(knjiga[c])
               PROVE  v \in Zabiljezene(rupe'[c])
    BY DEF BezTihePraznine, Nema
  <2>1. v \in Zabiljezene(rupe[c])  BY <1>1 DEF BezTihePraznine
  <2>2. c \in Cvor  BY DEF Primatelji
  <2> QED  BY <1>3, <2>1, <2>2 DEF ZapisCuva
<1>6. ASSUME NEW u \in Razgovori  PROVE RazgovorUredan(u)'
  <2>1. CASE IstiRazgovor(u) /\ (razg[u].faza \in PodBravom => razg[u].r # n)
    <3>1. razg[u].r \in Cvor  BY <1>1, RazgovorBrojevi
    <3>2. razg[u].faza = "pocetak" /\ razg[u].salje.korak = 2 =>
             \/ u \in rastRupa'
             \/ /\ u \notin rastRupa
                /\ Clanovi(NeJamci(rupe'[razg[u].s])) \subseteq Clanovi(NeJamci(rupe[razg[u].s]))
      BY <1>1, ZapisJavljen
    <3>3. OkolinaMirna(u)  BY <1>3, <2>1, <3>1, <3>2 DEF OkolinaMirna
    <3> QED  BY <1>1, <1>4, <2>1, <3>3, TudjiRazgovor
  <2> QED  BY <1>6, <2>1
<1>7. Promet!Zabiljezi(n)
  <2> DEFINE R == Zabiljezene(novo)
  <2>1. R \in SUBSET Promet!Verzije  BY DEF Zabiljezene, Promet!Verzije, Verzije
  <2>2. Promet!Napisane = knjiga[Autor]  BY <1>1 DEF Promet!Napisane, Poceci
  <2>3. (Zabiljezene(rupe[n]) \ R) \cap knjiga[Autor] \subseteq knjiga[n]
    BY DEF ZapisCuva, Nema
  <2>4. [c \in Cvor |-> Zabiljezene(rupe[c])][n] = Zabiljezene(rupe[n])
    BY <1>1
  <2>5. [c \in Cvor |-> Zabiljezene(rupe'[c])]
           = [[c \in Cvor |-> Zabiljezene(rupe[c])] EXCEPT ![n] = R]
    BY <1>1, <1>3
  <2> HIDE DEF R
  <2>6. Granica(knjiga'[Autor]) = Granica(knjiga[Autor])  OBVIOUS
  <2> QED  BY <2>1, <2>2, <2>3, <2>4, <2>5, <2>6 DEF Promet!Zabiljezi
<1> QED  BY <1>4, <1>5, <1>6, <1>7 DEF Uredno

\* A program that just started records its rule.
LEMMA PripremljenoUredno ==
    ASSUME IInv, TypeOK', NEW n \in Primatelji, PripremiRupe(n)
    PROVE  Uredno' /\ Promet!Zabiljezi(n)
<1>1. TypeOK /\ n \in Cvor  BY DEF IInv, Primatelji
<1>2. UskladjenoPravilo(n) \in RupeKljuca  BY <1>1, PocetakTip
<1>3. ZapisCuva(n, UskladjenoPravilo(n))  BY <1>1, PocetakNeGubi DEF ZapisCuva
<1>4. /\ PromijeniRupe(n, UskladjenoPravilo(n), UskladjenoPravilo(n))
      /\ UNCHANGED <<knjiga, ograda, prati, razg>>
  BY DEF PripremiRupe, postavke
<1>5. \A u \in Razgovori : IstiRazgovor(u) /\ (razg[u].faza \in PodBravom => razg[u].r # n)
  BY <1>4 DEF PripremiRupe, URazgovoru, IstiRazgovor, PodBravom
<1> QED  BY <1>2, <1>3, <1>4, <1>5, ZapisUredan

\* What the receiver may miss in a write: the uncertain part of what it asks
\* for, and the uncertain part above its frontier (rupe.go, nedostaje).
LEMMA NedostajeSve ==
    ASSUME NEW p \in PromjeneKljuca, NEW trazi \in Rasponi
    PROVE  /\ Nedostaje(p, trazi) \in Rasponi
           /\ \A v \in Clanovi(p.nesigurno) :
                 v \in Clanovi(trazi) \/ p.fs < v => v \in Clanovi(Nedostaje(p, trazi))
<1>1. p.nesigurno \in Rasponi /\ p.fs \in Oznake /\ Iznad(p.fs) \in Rasponi
  BY OznakeTip DEF PromjeneKljuca
<1> DEFINE a == Presjek(p.nesigurno, trazi)
           b == Presjek(p.nesigurno, Iznad(p.fs))
<1>2. a \in Rasponi /\ b \in Rasponi  BY <1>1, AlgebraTip
<1>3. /\ Clanovi(a) = Clanovi(p.nesigurno) \cap Clanovi(trazi)
      /\ Clanovi(b) = Clanovi(p.nesigurno) \cap Clanovi(Iznad(p.fs))
  BY <1>1, PresjekTocan
<1>4. \A v \in Clanovi(p.nesigurno) : p.fs < v => v \in Clanovi(Iznad(p.fs))
  BY BeskrajPretpostavka DEF Clanovi, Iznad, Raspon, Oznake
<1>5. Clanovi(a) \cup Clanovi(b) \subseteq Clanovi(Uz(a, b)) /\ Uz(a, b) \in Rasponi
  BY <1>2, UzDrziOba, AlgebraTip
<1> QED  BY <1>3, <1>4, <1>5 DEF Nedostaje

\* The record widened by a change keeps what it held and takes in all of the
\* change: refused, wanted, and what is uncertain above the frontier (rupe.go,
\* prosiri).
LEMMA ProsirenZapis ==
    ASSUME TypeOK, NEW n \in Cvor, NEW p \in PromjeneKljuca
    PROVE  LET novo == Prosiri(p, UskladjenoPravilo(n)) IN
           /\ novo \in RupeKljuca /\ ZapisCuva(n, novo)
           /\ Clanovi(p.odbijeno) \subseteq Clanovi(novo.odbijeno)
           /\ Clanovi(p.uTrazi) \subseteq Clanovi(novo.trazi)
           /\ \A v \in Clanovi(p.nesigurno) : p.fs < v => v \in Clanovi(novo.trazi)
<1> DEFINE staro == UskladjenoPravilo(n)
           novo == Prosiri(p, staro)
<1>1. staro \in RupeKljuca  BY PocetakTip
<1>2. novo \in RupeKljuca  BY <1>1, ZapisTip
<1>3. p.odbijeno \in Rasponi /\ p.uTrazi \in Rasponi /\ p.nesigurno \in Rasponi
      /\ staro.odbijeno \in Rasponi /\ staro.trazi \in Rasponi
  BY <1>1 DEF PromjeneKljuca, RupeKljuca
<1>4. Nedostaje(p, staro.trazi) \in Rasponi
      /\ \A v \in Clanovi(p.nesigurno) : p.fs < v => v \in Clanovi(Nedostaje(p, staro.trazi))
  BY <1>3, NedostajeSve
<1>5. /\ novo.odbijeno = Uz(staro.odbijeno, p.odbijeno)
      /\ novo.trazi = Uz(Uz(staro.trazi, p.uTrazi), Nedostaje(p, staro.trazi))
  BY DEF Prosiri
<1>6. Clanovi(staro.odbijeno) \cup Clanovi(p.odbijeno) \subseteq Clanovi(novo.odbijeno)
  BY <1>3, <1>5, UzDrziOba
<1>7. Clanovi(staro.trazi) \cup Clanovi(p.uTrazi)
          \cup Clanovi(Nedostaje(p, staro.trazi)) \subseteq Clanovi(novo.trazi)
  <2>1. Clanovi(staro.trazi) \cup Clanovi(p.uTrazi) \subseteq Clanovi(Uz(staro.trazi, p.uTrazi))
        /\ Uz(staro.trazi, p.uTrazi) \in Rasponi
    BY <1>3, UzDrziOba, AlgebraTip
  <2>2. Clanovi(Uz(staro.trazi, p.uTrazi)) \cup Clanovi(Nedostaje(p, staro.trazi))
          \subseteq Clanovi(novo.trazi)
    BY <1>4, <1>5, <2>1, UzDrziOba
  <2> QED  BY <2>1, <2>2
<1> HIDE DEF novo, staro
<1>8. ZapisCuva(n, novo)
  <2>1. Zabiljezene(rupe[n]) \subseteq Zabiljezene(staro)
    BY PocetakNeGubi DEF staro
  <2>2. Zabiljezene(staro) \subseteq Zabiljezene(novo)  BY <1>6, <1>7 DEF Zabiljezene
  <2> QED  BY <2>1, <2>2 DEF ZapisCuva
<1> QED  BY <1>2, <1>4, <1>6, <1>7, <1>8 DEF novo, staro

\* The fence that gave way moves the refused to the asked and covers as much
\* (upis.go).
LEMMA UzOgraduObuhvaca ==
    ASSUME NEW x, x.upis.promjena \in PromjeneKljuca, NEW S, NEW V,
           Obuhvaca(x.upis.promjena, S, V)
    PROVE  /\ Obuhvaca(UzOgradu(x), S, V)
           /\ UzOgradu(x).fs = x.upis.promjena.fs
           /\ UzOgradu(x).redovno = x.upis.promjena.redovno
           /\ UzOgradu(x).popuna = x.upis.promjena.popuna
           /\ \/ Clanovi(UzOgradu(x).odbijeno) = {}
              \/ JosOdbija(x.prima.ograda, ograda[x.r]) /\ UzOgradu(x) = x.upis.promjena
<1> DEFINE p == x.upis.promjena
           q == UzOgradu(x)
<1>1. p \in PromjeneKljuca  OBVIOUS
<1>2. p.odbijeno \in Rasponi /\ p.uTrazi \in Rasponi  BY <1>1 DEF PromjeneKljuca
<1>3. CASE JosOdbija(x.prima.ograda, ograda[x.r])
  <2>1. q = p  BY <1>3 DEF UzOgradu
  <2> QED  BY <1>3, <2>1
<1>4. CASE ~JosOdbija(x.prima.ograda, ograda[x.r])
  <2>1. q = [p EXCEPT !.uTrazi = Uz(p.uTrazi, p.odbijeno), !.odbijeno = Prazno]
    BY <1>4 DEF UzOgradu
  <2>2. /\ q.uTrazi = Uz(p.uTrazi, p.odbijeno) /\ q.odbijeno = Prazno
        /\ q.nesigurno = p.nesigurno /\ q.fs = p.fs
        /\ q.redovno = p.redovno /\ q.popuna = p.popuna
    BY <1>1, <2>1 DEF PromjeneKljuca
  <2>3. Clanovi(p.uTrazi) \cup Clanovi(p.odbijeno) \subseteq Clanovi(q.uTrazi)
    BY <1>2, <2>2, UzDrziOba
  <2>4. Clanovi(q.odbijeno) = {}
    BY <2>2, BeskrajPretpostavka DEF Clanovi, Prazno, Raspon, Oznake
  <2> HIDE DEF q, p
  <2>5. Obuhvaca(q, S, V)
    BY <2>2, <2>3 DEF Obuhvaca, p
  <2> QED  BY <2>2, <2>4, <2>5 DEF q, p
<1> QED  BY <1>3, <1>4

-----------------------------------------------------------------------------
(* The write under the lock *)

\* Two talks never write into the same node.
LEMMA BravaJedina ==
    ASSUME TypeOK, Zakljucano, NEW u \in Razgovori, razg[u].faza \in PodBravom
    PROVE  brava[razg[u].r] = u /\ u # Slobodna
BY RazmjenaPretpostavka DEF Zakljucano, Slobodna

\* A write that widened the record is in order: what it passes over is there.
LEMMA ProsirenUredan ==
    ASSUME IInv, TypeOK', NEW t \in Razgovori, UNCHANGED <<knjiga, ograda>>,
           razg[t].faza = "brava",
           razg'[t].faza = "prosireno", razg'[t].r = razg[t].r,
           razg'[t].prima = razg[t].prima, razg'[t].upis.verzije = razg[t].upis.verzije,
           NEW p, razg'[t].upis.promjena = p, p.fs = razg[t].upis.promjena.fs,
           p.redovno = razg[t].upis.promjena.redovno, p.popuna = razg[t].upis.promjena.popuna,
           Obuhvaca(p, knjiga[razg[t].r], razg[t].upis.verzije),
           \A v \in Nema(razg[t].r) :
               v \in Zabiljezene(rupe[razg[t].r]) => v \in Zabiljezene(rupe'[razg[t].r]),
           Clanovi(p.odbijeno) \subseteq Clanovi(rupe'[razg[t].r].odbijeno),
           Clanovi(p.uTrazi) \subseteq Clanovi(rupe'[razg[t].r].trazi),
           \A v \in Clanovi(p.nesigurno) : p.fs < v => v \in Clanovi(rupe'[razg[t].r].trazi),
           \/ Clanovi(p.odbijeno) = {}
           \/ zapisano'[razg[t].r].odbija \subseteq ograda[razg[t].r].odbija
    PROVE  RazgovorUredan(t)'
<1> DEFINE x == razg[t]
           S == knjiga[x.r]
           V == x.upis.verzije
           K == knjiga[Autor]
<1>1. TypeOK /\ BezTihePraznine /\ RazgovorUredan(t) /\ x.r \in Cvor
  BY RazgovorBrojevi DEF IInv, Uredno
<1>2. /\ x.r \in Primatelji /\ V \subseteq K
      /\ p.redovno.do <= Granica(K) /\ p.popuna.do <= Granica(K) /\ p.fs <= Granica(S)
  BY <1>1 DEF RazgovorUredan, PrimaUredno, UpisUredan, Pise
<1>3. /\ S \in SUBSET Verzije /\ V \in SUBSET Verzije /\ K \in SUBSET Verzije
      /\ Granica(S) \in Nat /\ Granica(V) \in Nat /\ Granica(S \cup V) \in Nat
      /\ Granica(S \cup V) <= Granica(S) \/ Granica(S \cup V) <= Granica(V)
      /\ \A v \in K : v \in Nat /\ v \in Verzije
      /\ p.fs \in Nat
  <2>1. S \in SUBSET Verzije /\ V \in SUBSET Verzije /\ K \in SUBSET Verzije
    BY <1>1, KnjigaTip, RazgovorBrojevi
  <2>2. S \cup V \in SUBSET Verzije  BY <2>1
  <2>3. /\ Granica(S) \in Nat /\ Granica(V) \in Nat /\ Granica(S \cup V) \in Nat
        /\ \A v \in K : v \in Nat
    BY <2>1, <2>2, GranicaBroj
  <2>4. Granica(S \cup V) <= Granica(S) \/ Granica(S \cup V) <= Granica(V)
    BY <2>1, GranicaUnije
  <2>5. p.fs \in Nat
    BY <1>1, RazgovorBrojevi, BeskrajPretpostavka DEF PromjeneKljuca, Oznake
  <2> QED  BY <2>1, <2>3, <2>4, <2>5
<1>4. PrimaUredno(t)'
  BY <1>1 DEF RazgovorUredan, PrimaUredno
<1>5. UpisUredan(t)'
  <2>1. Obuhvaca(razg[t].upis.promjena, knjiga[razg[t].r], razg[t].upis.verzije)'
    BY DEF Obuhvaca
  <2> QED  BY <1>2, <2>1 DEF UpisUredan
<1>6. ProsirenoUredno(t)'
  <2> SUFFICES ASSUME NEW v \in (K \ S) \ V, v <= Granica(S \cup V)
               PROVE  v \in Zabiljezene(rupe'[x.r])
    BY DEF ProsirenoUredno, Nema
  <2>1. v \in Nema(x.r) /\ v \in Nat /\ v \in Verzije  BY <1>3 DEF Nema
  <2>2. CASE v <= Granica(S)
    BY <1>1, <1>2, <2>1, <2>2 DEF BezTihePraznine
  <2>3. CASE ~(v <= Granica(S))
    <3>1. p.fs < v /\ v <= Granica(V)  BY <1>2, <1>3, <2>1, <2>3
    <3>2. v \in K \ (S \cup V)  OBVIOUS
    <3>3. \/ v \in Clanovi(p.odbijeno) \cup Clanovi(p.uTrazi)
          \/ v \in Clanovi(p.nesigurno) /\ p.fs < v
      BY <3>1, <3>2 DEF Obuhvaca
    <3> QED  BY <2>1, <3>3 DEF Zabiljezene
  <2> QED  BY <2>2, <2>3
<1>7. OdbijenoUredno(t)'
  BY DEF OdbijenoUredno
<1>8. SaljeUredno(t)' /\ DeltaUredna(t)'
  BY DEF SaljeUredno, DeltaUredna
<1> QED  BY <1>4, <1>5, <1>6, <1>7, <1>8 DEF RazgovorUredan

\* The record is widened under the lock (rupe.go, prosiri).
LEMMA ZapisanoUredno ==
    ASSUME IInv, TypeOK', NEW t \in Razgovori, ZapisiRupe(t)
    PROVE  Uredno' /\ (Promet!Zabiljezi(razg[t].r) \/ UNCHANGED <<knjiga, rupe, prati>>)
<1> DEFINE x == razg[t]
           n == x.r
           staro == UskladjenoPravilo(x.r)
           mijenja == x.upis.pravilo \/ Ima(x.upis, x.prima.trazi)
           p == IF mijenja THEN UzOgradu(x) ELSE x.upis.promjena
           pop == PopunjavaRupu(x.r, x.upis.verzije)
           u1 == [x.upis EXCEPT !.promjena = p, !.pravilo = FALSE, !.popunjava = pop]
           novi == [x EXCEPT !.faza = "prosireno", !.upis = u1]
<1>1. TypeOK /\ Zakljucano /\ RazgovorUredan(t) /\ x \in RazgovorTip /\ n \in Cvor
      /\ x.faza = "brava" /\ brava[n] = Slobodna
  BY RazgovorBrojevi DEF IInv, Uredno, ZapisiRupe
<1>2. Nastavi(t, novi) /\ UNCHANGED <<knjiga, ograda, prati>>
  BY DEF ZapisiRupe, postavke
<1>3. n \in Primatelji /\ Obuhvaca(x.upis.promjena, knjiga[n], x.upis.verzije)
  BY <1>1 DEF RazgovorUredan, PrimaUredno, UpisUredan, Pise
<1>4. /\ Obuhvaca(p, knjiga[n], x.upis.verzije)
      /\ p.fs = x.upis.promjena.fs /\ p.redovno = x.upis.promjena.redovno
      /\ p.popuna = x.upis.promjena.popuna
  BY <1>1, <1>3, RazgovorBrojevi, UzOgraduObuhvaca
<1>5. p \in PromjeneKljuca /\ x.upis \in UpisTip /\ staro \in RupeKljuca
  BY <1>1, UzOgraduTip, RazgovorBrojevi, DijeloviTip, PocetakTip
<1>6. p.odbijeno \in Rasponi /\ p.uTrazi \in Rasponi /\ p.nesigurno \in Rasponi
      /\ staro.odbijeno \in Rasponi /\ staro.trazi \in Rasponi
  BY <1>5 DEF PromjeneKljuca, RupeKljuca
<1>7. razg'[t] = novi /\ \A u \in Razgovori \ {t} : razg'[u] = razg[u]
  BY <1>1, <1>2 DEF Nastavi, TypeOK
<1> HIDE DEF p, pop
<1>8. u1.verzije = x.upis.verzije /\ u1.promjena = p  BY <1>5 DEF UpisTip
<1> HIDE DEF u1
<1>9. /\ razg'[t].faza = "prosireno" /\ razg'[t].r = n /\ razg'[t].prima = x.prima
      /\ razg'[t].upis.verzije = x.upis.verzije /\ razg'[t].upis.promjena = p
  BY <1>1, <1>7, <1>8 DEF RazgovorTip
<1>10. \A u \in Razgovori \ {t} :
          IstiRazgovor(u) /\ (razg[u].faza \in PodBravom => razg[u].r # n)
  BY <1>1, <1>7, BravaJedina DEF IstiRazgovor
<1> HIDE DEF novi
<1>11. CASE mijenja
  <2> DEFINE novo == Prosiri(p, staro)
  <2>1. PromijeniRupe(n, staro, novo)
    BY <1>11 DEF ZapisiRupe, p
  <2>2. /\ novo \in RupeKljuca /\ ZapisCuva(n, novo)
        /\ Clanovi(p.odbijeno) \subseteq Clanovi(novo.odbijeno)
        /\ Clanovi(p.uTrazi) \subseteq Clanovi(novo.trazi)
        /\ \A v \in Clanovi(p.nesigurno) : p.fs < v => v \in Clanovi(novo.trazi)
    BY <1>1, <1>5, ProsirenZapis
  <2> HIDE DEF novo, staro
  <2>8. rupe'[n] = novo /\ zapisano'[n].odbija = ograda[n].odbija
    BY <1>1, <2>1 DEF PromijeniRupe, TypeOK
  <2>9. RazgovorUredan(t)'
    <3>1. \A v \in Nema(n) : v \in Zabiljezene(rupe[n]) => v \in Zabiljezene(rupe'[n])
      BY <2>2, <2>8 DEF ZapisCuva
    <3>2. /\ Clanovi(p.odbijeno) \subseteq Clanovi(rupe'[n].odbijeno)
          /\ Clanovi(p.uTrazi) \subseteq Clanovi(rupe'[n].trazi)
          /\ \A v \in Clanovi(p.nesigurno) : p.fs < v => v \in Clanovi(rupe'[n].trazi)
      BY <2>2, <2>8
    <3> QED  BY <1>1, <1>2, <1>4, <1>9, <2>8, <3>1, <3>2, ProsirenUredan
  <2>10. PromijeniRupe(n, UskladjenoPravilo(n), novo)  BY <2>1 DEF staro
  <2> QED  BY <1>2, <1>3, <1>10, <2>2, <2>9, <2>10, ZapisUredan
<1>12. CASE ~mijenja
  <2>1. UNCHANGED <<rupe, zapisano, rastRupa>>  BY <1>12 DEF ZapisiRupe
  <2>2. p = x.upis.promjena  BY <1>12 DEF p
  <2>3. /\ Prazan(p.odbijeno) /\ Prazan(p.uTrazi)
        /\ Prazan(Nedostaje(p, x.prima.trazi))
    BY <1>12, <2>2 DEF Ima, MijenjaTrazi
  <2>4. \A a \in Rasponi : Prazan(a) => Clanovi(a) = {}
    BY BeskrajPretpostavka DEF Prazan, Clanovi, Rasponi, Oznake
  <2>5. x.prima.trazi \in Rasponi  BY <1>1, RazgovorBrojevi
  <2>6. /\ Clanovi(p.odbijeno) = {} /\ Clanovi(p.uTrazi) = {}
        /\ \A v \in Clanovi(p.nesigurno) : ~(p.fs < v)
    BY <1>5, <1>6, <2>3, <2>4, <2>5, NedostajeSve
  <2>7. RazgovorUredan(t)'
    BY <1>1, <1>2, <1>4, <1>9, <2>1, <2>6, ProsirenUredan
  <2>8. Uredno'  BY <1>2, <2>1, <2>7, TihoNastavlja
  <2> QED  BY <1>2, <2>1, <2>8
<1> QED  BY <1>11, <1>12

\* Versions enter the ledger: when all they pass over is in the record, nothing
\* is silent, and it is a step of the promise.
LEMMA PrimljenoUredno ==
    ASSUME IInv, TypeOK', NEW n \in Primatelji, NEW V, V \subseteq knjiga[Autor],
           knjiga' = [knjiga EXCEPT ![n] = @ \cup V], UNCHANGED <<rupe, prati>>,
           \A v \in Nema(n) \ V :
               v <= Granica(knjiga[n] \cup V) => v \in Zabiljezene(rupe[n]),
           \A u \in Razgovori :
               \/ RazgovorUredan(u)'
               \/ IstiRazgovor(u) /\ (razg[u].faza # "nema" => OkolinaMirna(u))
    PROVE  Uredno' /\ Promet!Primi(n)
<1> DEFINE S == knjiga[n]
           K == knjiga[Autor]
<1>1. /\ TypeOK /\ Poceci /\ BezTihePraznine /\ \A u \in Razgovori : RazgovorUredan(u)
      /\ n \in Cvor /\ n # Autor /\ Autor \in Cvor
  BY KnjigaTip DEF IInv, Uredno, Primatelji
<1>2. knjiga'[n] = S \cup V /\ \A c \in Cvor : c # n => knjiga'[c] = knjiga[c]
  BY <1>1 DEF TypeOK
<1>3. S \in SUBSET Verzije /\ K \in SUBSET Verzije /\ S \subseteq K
  BY <1>1, KnjigaTip DEF Poceci
<1>4. Poceci' /\ AutorDodaje
  <2>1. knjiga'[Autor] = K  BY <1>1, <1>2
  <2>2. \A c \in Cvor : knjiga'[c] \subseteq K  BY <1>1, <1>2, <1>3 DEF Poceci
  <2> QED  BY <1>1, <2>1, <2>2 DEF Poceci, AutorDodaje
<1>5. BezTihePraznine'
  <2> SUFFICES ASSUME NEW c \in Primatelji, NEW v \in knjiga'[Autor] \ knjiga'[c],
                      v <= Granica(knjiga'[c])
               PROVE  v \in Zabiljezene(rupe'[c])
    BY DEF BezTihePraznine, Nema
  <2>1. c \in Cvor /\ knjiga'[Autor] = K /\ rupe'[c] = rupe[c]
    BY <1>1, <1>2 DEF Primatelji
  <2>2. CASE c = n  BY <1>2, <2>1, <2>2 DEF Nema
  <2>3. CASE c # n
    BY <1>1, <1>2, <2>1, <2>3 DEF BezTihePraznine, Nema
  <2> QED  BY <2>2, <2>3
<1>6. ASSUME NEW u \in Razgovori  PROVE RazgovorUredan(u)'
  <2>1. CASE IstiRazgovor(u) /\ (razg[u].faza # "nema" => OkolinaMirna(u))
    BY <1>1, <1>4, <2>1, TudjiRazgovor
  <2> QED  BY <1>6, <2>1
<1>7. Promet!Primi(n)
  <2>1. Promet!Napisane = K  BY <1>1 DEF Promet!Napisane, Poceci
  <2>2. Promet!Preskocene(S \cup V) \subseteq Zabiljezene(rupe[n])
    <3> SUFFICES ASSUME NEW v \in K \ (S \cup V), NEW w \in S \cup V, v < w
                 PROVE  v \in Zabiljezene(rupe[n])
      BY <2>1 DEF Promet!Preskocene
    <3>1. S \cup V \in SUBSET Verzije /\ v \in Verzije  BY <1>3
    <3>2. v <= Granica(S \cup V)  BY <3>1, IspodGranice
    <3> QED  BY <3>2 DEF Nema
  <2>3. [c \in Cvor |-> Zabiljezene(rupe[c])][n] = Zabiljezene(rupe[n])  BY <1>1
  <2>4. Granica(knjiga'[Autor]) = Granica(K)  BY <1>1, <1>2
  <2>5. UNCHANGED [c \in Cvor |-> Zabiljezene(rupe[c])]  OBVIOUS
  <2>6. V \in SUBSET Promet!Napisane  BY <2>1
  <2> HIDE DEF K
  <2> QED  BY <2>2, <2>3, <2>4, <2>5, <2>6 DEF Promet!Primi, K
<1> QED  BY <1>4, <1>5, <1>6, <1>7 DEF Uredno

\* The versions are written: what they pass over is in the record already.
LEMMA UpisanoUredno ==
    ASSUME IInv, TypeOK', NEW t \in Razgovori, UpisiVerzije(t)
    PROVE  Uredno' /\ Promet!Primi(razg[t].r)
<1> DEFINE x == razg[t]
           n == x.r
           V == x.upis.verzije
           S == knjiga[x.r]
           K == knjiga[Autor]
           pop == x.upis.popunjava /\ ~(x.upis.verzije \subseteq knjiga[x.r])
           u1 == [x.upis EXCEPT !.popunjava = pop]
           novi == [x EXCEPT !.faza = "upisano", !.upis = u1]
<1>1. /\ TypeOK /\ Zakljucano /\ Poceci /\ BezTihePraznine
      /\ \A u \in Razgovori : RazgovorUredan(u)
      /\ x \in RazgovorTip /\ n \in Cvor /\ Autor \in Cvor /\ x.faza = "prosireno"
  BY RazgovorBrojevi, KnjigaTip DEF IInv, Uredno, UpisiVerzije
<1>2. /\ knjiga' = [knjiga EXCEPT ![n] = @ \cup V]
      /\ Nastavi(t, novi)
      /\ UNCHANGED <<rupe, zapisano, ograda, prati, brava, rastRupa>>
  BY DEF UpisiVerzije, postavke, oznake
<1>3. n \in Primatelji /\ n # Autor
  BY <1>1 DEF RazgovorUredan, PrimaUredno, Primatelji
<1>4. /\ V \subseteq K /\ Obuhvaca(x.upis.promjena, S, V)
      /\ x.upis.promjena.redovno.do <= Granica(K)
      /\ x.upis.promjena.popuna.do <= Granica(K)
      /\ x.upis.promjena.fs <= Granica(S)
  BY <1>1 DEF RazgovorUredan, UpisUredan, Pise, PodBravom
<1>5. \A v \in (K \ S) \ V : v <= Granica(S \cup V) => v \in Zabiljezene(rupe[n])
  BY <1>1 DEF RazgovorUredan, ProsirenoUredno, Nema
<1>6. x.upis \in UpisTip /\ x.upis.promjena.fs \in Nat
  BY <1>1, RazgovorBrojevi, DijeloviTip, BeskrajPretpostavka DEF PromjeneKljuca, Oznake
<1>7. /\ knjiga'[n] = S \cup V
      /\ \A c \in Cvor : c # n => knjiga'[c] = knjiga[c]
      /\ razg'[t] = novi /\ \A u \in Razgovori \ {t} : razg'[u] = razg[u]
  BY <1>1, <1>2 DEF Nastavi, TypeOK
<1>8. S \in SUBSET Verzije /\ K \in SUBSET Verzije /\ V \in SUBSET Verzije /\ S \subseteq K
      /\ Granica(S) \in Nat /\ Granica(S \cup V) \in Nat /\ Granica(S) <= Granica(S \cup V)
  <2>1. S \in SUBSET Verzije /\ K \in SUBSET Verzije /\ V \in SUBSET Verzije /\ S \subseteq K
    BY <1>1, KnjigaTip, RazgovorBrojevi DEF Poceci
  <2>2. S \cup V \in SUBSET Verzije  BY <2>1
  <2>3. Granica(S) \in Nat /\ Granica(S \cup V) \in Nat  BY <2>1, <2>2, GranicaBroj
  <2>4. Granica(S) <= Granica(S \cup V)  BY <2>1, GranicaUnije
  <2> QED  BY <2>1, <2>3, <2>4
<1> HIDE DEF pop
<1>9. u1.verzije = V /\ u1.promjena = x.upis.promjena  BY <1>6 DEF UpisTip
<1> HIDE DEF u1
<1>10. /\ razg'[t].faza = "upisano" /\ razg'[t].r = n /\ razg'[t].prima = x.prima
       /\ razg'[t].upis.verzije = V /\ razg'[t].upis.promjena = x.upis.promjena
  BY <1>1, <1>7, <1>9 DEF RazgovorTip
<1> HIDE DEF novi
<1>11. ASSUME NEW u \in Razgovori \ {t}  PROVE IstiRazgovor(u) /\ OkolinaMirna(u)
  <2>1. razg[u].s \in Cvor /\ razg[u].r \in Cvor  BY <1>1, RazgovorBrojevi
  <2>2. razg[u].faza \in PodBravom => razg[u].r # n
    <3>1. brava[n] = t  BY <1>1, BravaJedina DEF PodBravom
    <3> QED  BY <1>1, <3>1, BravaJedina
  <2>3. \A c \in Cvor : knjiga[c] \subseteq knjiga'[c]  BY <1>7
  <2>4. IstiRazgovor(u)  BY <1>7 DEF IstiRazgovor
  <2>5. OkolinaMirna(u)  BY <1>2, <1>7, <2>1, <2>2, <2>3 DEF OkolinaMirna
  <2> QED  BY <2>4, <2>5
<1>12. RazgovorUredan(t)'
  <2>1. PrimaUredno(t)'
    <3>1. x.prima.fs <= Granica(S) /\ x.prima.ograda.narastaj <= ograda[n].narastaj
      BY <1>1 DEF RazgovorUredan, PrimaUredno
    <3>2. x.prima.fs \in Nat  BY <1>1, RazgovorBrojevi
    <3>3. x.prima.fs <= Granica(S \cup V)  BY <1>8, <3>1, <3>2
    <3> QED  BY <1>2, <1>3, <1>7, <1>10, <3>1, <3>3 DEF PrimaUredno
  <2>2. UpisUredan(t)'
    <3> DEFINE p == x.upis.promjena
    <3>1. knjiga'[Autor] = K /\ knjiga'[razg'[t].r] = S \cup V
      BY <1>1, <1>3, <1>7, <1>10
    <3>2. Obuhvaca(razg[t].upis.promjena, knjiga[razg[t].r], razg[t].upis.verzije)'
      BY <1>4, <1>10, <3>1 DEF Obuhvaca
    <3>3. p.fs <= Granica(S \cup V)  BY <1>4, <1>6, <1>8
    <3>4. /\ razg'[t].upis.verzije \subseteq knjiga'[Autor]
          /\ razg'[t].upis.promjena.redovno.do <= Granica(knjiga'[Autor])
          /\ razg'[t].upis.promjena.popuna.do <= Granica(knjiga'[Autor])
          /\ razg'[t].upis.promjena.fs <= Granica(knjiga'[razg'[t].r])
          /\ razg'[t].upis.verzije \subseteq knjiga'[razg'[t].r]
      BY <1>4, <1>10, <3>1, <3>3
    <3> QED  BY <3>2, <3>4, <1>10 DEF UpisUredan
  <2>3. OdbijenoUredno(t)'
    BY <1>1, <1>2, <1>10 DEF RazgovorUredan, OdbijenoUredno, PodBravom
  <2>4. SaljeUredno(t)' /\ DeltaUredna(t)' /\ ProsirenoUredno(t)'
    BY <1>10 DEF SaljeUredno, DeltaUredna, ProsirenoUredno
  <2> QED  BY <2>1, <2>2, <2>3, <2>4 DEF RazgovorUredan
<1>13. \A v \in Nema(n) \ V : v <= Granica(S \cup V) => v \in Zabiljezene(rupe[n])
  BY <1>5 DEF Nema
<1> HIDE DEF V
<1> QED  BY <1>2, <1>3, <1>4, <1>11, <1>12, <1>13, PrimljenoUredno

\* Narrowing the record under the lock keeps what the receiver misses: it takes
\* out only what the delta covered, and what was covered and did not come is
\* refused, asked for or uncertain (rupe.go, suzi).
LEMMA SuzenCuva ==
    ASSUME IInv, NEW t \in Razgovori, razg[t].faza = "upisano"
    PROVE  ZapisCuva(razg[t].r, Suzi(UzOgradu(razg[t]), UskladjenoPravilo(razg[t].r)))
<1> DEFINE x == razg[t]
           n == x.r
           p == UzOgradu(x)
           staro == UskladjenoPravilo(n)
           novo == Suzi(p, staro)
           S == knjiga[n]
           V == x.upis.verzije
<1>1. /\ TypeOK /\ RazgovorUredan(t) /\ x \in RazgovorTip /\ n \in Cvor
  BY RazgovorBrojevi DEF IInv, Uredno
<1>2. Obuhvaca(x.upis.promjena, S, V) /\ V \subseteq S
  BY <1>1 DEF RazgovorUredan, UpisUredan, Pise, PodBravom
<1>3. /\ Obuhvaca(p, S, V)
      /\ \/ Clanovi(p.odbijeno) = {}
         \/ JosOdbija(x.prima.ograda, ograda[n]) /\ p = x.upis.promjena
  BY <1>1, <1>2, RazgovorBrojevi, UzOgraduObuhvaca
<1>4. p \in PromjeneKljuca /\ staro \in RupeKljuca
  BY <1>1, UzOgraduTip, RazgovorBrojevi, DijeloviTip, PocetakTip
<1>5. staro.trazi \in Rasponi  BY <1>4 DEF RupeKljuca
<1>6. /\ novo.odbijeno = staro.odbijeno
      /\ (Clanovi(staro.trazi) \ (Clanovi(p.redovno) \cup Clanovi(p.popuna)))
            \cup Clanovi(p.uTrazi) \cup Clanovi(Nedostaje(p, staro.trazi))
         \subseteq Clanovi(novo.trazi)
  BY <1>4, SuziSamoPokriveno
<1>7. \A v \in Clanovi(p.nesigurno) \cap Clanovi(staro.trazi) :
          v \in Clanovi(Nedostaje(p, staro.trazi))
  BY <1>4, <1>5, NedostajeSve
<1>8. Zabiljezene(rupe[n]) \subseteq Zabiljezene(staro)  BY <1>1, PocetakNeGubi
<1>9. Clanovi(p.odbijeno) \subseteq Clanovi(staro.odbijeno)
  <2> SUFFICES ASSUME Clanovi(p.odbijeno) # {}
               PROVE  Clanovi(p.odbijeno) \subseteq Clanovi(staro.odbijeno)
    OBVIOUS
  <2>1. JosOdbija(x.prima.ograda, ograda[n]) /\ p = x.upis.promjena  BY <1>3
  <2>2. x.prima.ograda.narastaj \in Nat /\ x.prima.ograda.narastaj = ograda[n].narastaj
    BY <1>1, <2>1, RazgovorBrojevi DEF JosOdbija
  <2>3. /\ Clanovi(p.odbijeno) \subseteq Clanovi(rupe[n].odbijeno)
        /\ zapisano[n].odbija \subseteq ograda[n].odbija
    <3>1. ~(x.prima.ograda.narastaj < ograda[n].narastaj)  BY <2>2
    <3> QED  BY <1>1, <2>1, <3>1 DEF RazgovorUredan, OdbijenoUredno, PodBravom
  <2>4. CASE staro = rupe[n]  BY <2>3, <2>4
  <2>5. CASE staro # rupe[n]
    <3>1. ~Sire(n)  BY <2>3 DEF Sire, SiriOd
    <3>2. staro = [rupe[n] EXCEPT !.odbijeno =
                      Raspon(0, Veci(rupe[n].odbijeno.do, Granica(S)))]
      BY <2>5, <3>1 DEF UskladjenoPravilo, RupeNaPocetku
    <3>3. /\ rupe[n] \in RupeKljuca /\ rupe[n].odbijeno \in Rasponi /\ Granica(S) \in Nat
      BY <1>1, KnjigaTip
    <3>4. staro.odbijeno = Raspon(0, Veci(rupe[n].odbijeno.do, Granica(S)))
      BY <3>2, <3>3 DEF RupeKljuca
    <3>5. rupe[n].odbijeno.do \in Nat /\ rupe[n].odbijeno.od \in Nat
      BY <3>3, BeskrajPretpostavka DEF Rasponi, Oznake
    <3> DEFINE d == Veci(rupe[n].odbijeno.do, Granica(S))
    <3>6. d \in Nat /\ rupe[n].odbijeno.do <= d  BY <3>3, <3>5 DEF Veci
    <3> HIDE DEF d, staro
    <3>7. Clanovi(rupe[n].odbijeno) \subseteq Clanovi(staro.odbijeno)
      BY <3>4, <3>5, <3>6, BeskrajPretpostavka DEF Clanovi, Raspon, Oznake, d
    <3> QED  BY <2>3, <3>7
  <2> QED  BY <2>4, <2>5
<1> HIDE DEF staro, p, novo
<1>10. ASSUME NEW v \in Nema(n), v \in Zabiljezene(rupe[n])
       PROVE  v \in Zabiljezene(novo)
  <2>1. v \in Verzije /\ (v \in Clanovi(staro.odbijeno) \/ v \in Clanovi(staro.trazi))
    BY <1>8, <1>10 DEF Zabiljezene
  <2>2. v \in knjiga[Autor] \ (S \cup V)  BY <1>2 DEF Nema
  <2>3. CASE v \in Clanovi(staro.odbijeno)  BY <1>6, <2>1, <2>3 DEF Zabiljezene
  <2>4. CASE v \in Clanovi(staro.trazi)
    <3>1. CASE v \notin Clanovi(p.redovno) \cup Clanovi(p.popuna)
      BY <1>6, <2>1, <2>4, <3>1 DEF Zabiljezene
    <3>2. CASE v \in Clanovi(p.redovno) \cup Clanovi(p.popuna)
      <4>1. v \in Clanovi(p.odbijeno) \cup Clanovi(p.uTrazi) \cup Clanovi(p.nesigurno)
        BY <1>3, <2>2, <3>2 DEF Obuhvaca
      <4> QED  BY <1>6, <1>7, <1>9, <2>1, <2>4, <4>1 DEF Zabiljezene
    <3> QED  BY <3>1, <3>2
  <2> QED  BY <2>1, <2>3, <2>4
<1> QED  BY <1>10 DEF ZapisCuva, novo, p, staro

\* The record is narrowed, or stays wide when that fails.
LEMMA SuzenoUredno ==
    ASSUME IInv, TypeOK', NEW t \in Razgovori, SuziRupe(t)
    PROVE  Uredno' /\ (Promet!Zabiljezi(razg[t].r) \/ UNCHANGED <<knjiga, rupe, prati>>)
<1> DEFINE x == razg[t]
           n == x.r
           u1 == [PrazanUpis EXCEPT !.odbijeno = x.upis.odbijeno]
           novi == [x EXCEPT !.faza = "zapamti", !.upis = u1]
<1>1. /\ TypeOK /\ Zakljucano /\ RazgovorUredan(t) /\ x \in RazgovorTip /\ n \in Cvor
      /\ x.faza = "upisano"
  BY RazgovorBrojevi DEF IInv, Uredno, SuziRupe
<1>2. Nastavi(t, novi) /\ UNCHANGED <<knjiga, ograda, prati>>
  BY DEF SuziRupe, postavke
<1>3. n \in Primatelji  BY <1>1 DEF RazgovorUredan, PrimaUredno
<1>4. razg'[t] = novi /\ \A u \in Razgovori \ {t} : razg'[u] = razg[u]
  BY <1>1, <1>2 DEF Nastavi, TypeOK
<1> HIDE DEF u1
<1>5. razg'[t].faza = "zapamti" /\ razg'[t].r = n /\ razg'[t].prima = x.prima
  BY <1>1, <1>4 DEF RazgovorTip
<1> HIDE DEF novi
<1>6. RazgovorUredan(t)'
  <2>1. PrimaUredno(t)'  BY <1>1, <1>2, <1>5 DEF RazgovorUredan, PrimaUredno
  <2> QED
    BY <1>5, <2>1
    DEF RazgovorUredan, SaljeUredno, DeltaUredna, UpisUredan, ProsirenoUredno,
        OdbijenoUredno, Pise, PodBravom
<1>7. \A u \in Razgovori \ {t} :
          IstiRazgovor(u) /\ (razg[u].faza \in PodBravom => razg[u].r # n)
  <2>1. brava[n] = t  BY <1>1, BravaJedina DEF PodBravom
  <2> QED  BY <1>1, <1>4, <2>1, BravaJedina DEF IstiRazgovor
<1>8. CASE UNCHANGED <<rupe, zapisano, rastRupa>>
  <2>1. Uredno'  BY <1>2, <1>6, <1>8, TihoNastavlja
  <2> QED  BY <1>2, <1>8, <2>1
<1>9. CASE ~UNCHANGED <<rupe, zapisano, rastRupa>>
  <2> DEFINE novo == Suzi(UzOgradu(x), UskladjenoPravilo(n))
  <2>1. PromijeniRupe(n, UskladjenoPravilo(n), novo)  BY <1>9 DEF SuziRupe
  <2>2. UzOgradu(x) \in PromjeneKljuca /\ UskladjenoPravilo(n) \in RupeKljuca
    BY <1>1, UzOgraduTip, RazgovorBrojevi, DijeloviTip, PocetakTip
  <2>3. novo \in RupeKljuca  BY <2>2, ZapisTip
  <2>4. ZapisCuva(n, novo)  BY <1>1, SuzenCuva
  <2> HIDE DEF novo
  <2> QED  BY <1>2, <1>3, <1>6, <1>7, <2>1, <2>3, <2>4, ZapisUredan
<1> QED  BY <1>8, <1>9

-----------------------------------------------------------------------------
(* Deletion, the start, and every step *)

\* A node without gaps has no version in its record.
LEMMA BezRupaPrazno == Zabiljezene(BezRupa) = {}
<1>1. Clanovi(Prazno) = {}
  BY BeskrajPretpostavka DEF Clanovi, Prazno, Raspon, Oznake
<1>2. BezRupa.odbijeno = Prazno /\ BezRupa.trazi = Prazno  BY DEF BezRupa
<1> QED  BY <1>1, <1>2 DEF Zabiljezene

\* No channel is deleted in the middle of a talk, and the edge of the kept
\* period, which the clock moves forward, does not move back.
MirnoBrisanje == "usred razgovora" \notin Smetnje
RubNeIdeNatrag == "rub natrag" \notin Smetnje

\* A channel is deleted when no talk is about the node (purge.go).
LEMMA ObrisanoUredno ==
    ASSUME IInv, TypeOK', NEW n \in Primatelji, ObrisiKanal(n),
           MirnoBrisanje
    PROVE  Uredno' /\ Promet!Obrisi(n)
<1>1. /\ TypeOK /\ Poceci /\ BezTihePraznine
      /\ \A u \in Razgovori : RazgovorUredan(u)
      /\ n \in Cvor /\ n # Autor
  BY DEF IInv, Uredno, Primatelji
<1>2. /\ knjiga' = [knjiga EXCEPT ![n] = {}] /\ rupe' = [rupe EXCEPT ![n] = BezRupa]
      /\ UNCHANGED <<zapisano, ograda, prati, razg, rastRupa>>
      /\ ~prati[n] /\ ~URazgovoru(n)
  BY DEF ObrisiKanal, postavke, MirnoBrisanje
<1>3. /\ knjiga'[n] = {} /\ rupe'[n] = BezRupa
      /\ \A c \in Cvor : c # n => knjiga'[c] = knjiga[c] /\ rupe'[c] = rupe[c]
  BY <1>1, <1>2 DEF TypeOK
<1>4. Autor \in Cvor /\ knjiga[Autor] \in SUBSET Verzije /\ knjiga'[Autor] = knjiga[Autor]
  BY <1>1, <1>3, KnjigaTip
<1>5. Granica({}) = 0  BY DEF Granica
<1>6. Poceci' /\ AutorDodaje  BY <1>1, <1>3, <1>4 DEF Poceci, AutorDodaje
<1>7. BezTihePraznine'
  <2> SUFFICES ASSUME NEW c \in Primatelji, NEW v \in knjiga'[Autor] \ knjiga'[c],
                      v <= Granica(knjiga'[c])
               PROVE  v \in Zabiljezene(rupe'[c])
    BY DEF BezTihePraznine, Nema
  <2>1. CASE c = n
    <3>1. v \in Nat /\ 0 < v  BY <1>4, GranicaBroj
    <3>2. Granica(knjiga'[c]) = 0  BY <1>3, <1>5, <2>1
    <3> QED  BY <3>1, <3>2
  <2>2. CASE c # n
    BY <1>1, <1>3, <1>4, <2>2 DEF BezTihePraznine, Nema, Primatelji
  <2> QED  BY <2>1, <2>2
<1>8. ASSUME NEW u \in Razgovori  PROVE RazgovorUredan(u)'
  <2>1. razg[u].s \in Cvor /\ razg[u].r \in Cvor  BY <1>1, RazgovorBrojevi
  <2>2. razg[u].faza # "nema" => razg[u].s # n /\ razg[u].r # n
    BY <1>2 DEF URazgovoru
  <2>3. IstiRazgovor(u)  BY <1>2 DEF IstiRazgovor
  <2>4. razg[u].faza # "nema" => OkolinaMirna(u)
    BY <1>2, <1>3, <2>1, <2>2 DEF OkolinaMirna
  <2> QED  BY <1>1, <1>6, <2>3, <2>4, TudjiRazgovor
<1>9. Promet!Obrisi(n)
  <2>1. Zabiljezene(BezRupa) = {}  BY BezRupaPrazno
  <2>2. [c \in Cvor |-> Zabiljezene(rupe'[c])]
           = [[c \in Cvor |-> Zabiljezene(rupe[c])] EXCEPT ![n] = {}]
    BY <1>1, <1>3, <2>1
  <2>3. Granica(knjiga'[Autor]) = Granica(knjiga[Autor])  BY <1>4
  <2> QED  BY <1>2, <2>2, <2>3 DEF Promet!Obrisi
<1> QED  BY <1>6, <1>7, <1>8, <1>9 DEF Uredno

\* A start of the sequence reaches as far as its last version.
LEMMA PocetakSeze ==
    ASSUME NEW k \in 0 .. ZadnjaVerzija
    PROVE  Granica(1 .. k) = k
<1>1. k \in Nat /\ 1 .. k \in SUBSET Verzije  BY RazmjenaPretpostavka DEF Verzije
<1> DEFINE S == 1 .. k
<1> SUFFICES Granica(S) = k  OBVIOUS
<1> HIDE DEF S
<1>2. /\ Granica(S) \in Nat
      /\ Granica(S) # 0 => Granica(S) \in S
      /\ \A v \in S : v <= Granica(S)
  BY <1>1, GranicaBroj DEF S
<1>3. CASE k = 0
  <2>1. S = {}  BY <1>3 DEF S
  <2> QED  BY <1>2, <1>3, <2>1
<1>4. CASE k # 0
  <2>1. k \in S  BY <1>1, <1>4 DEF S
  <2>2. k <= Granica(S) /\ Granica(S) \in S  BY <1>1, <1>2, <1>4, <2>1
  <2>3. Granica(S) <= k  BY <1>1, <2>2 DEF S
  <2> QED  BY <1>1, <1>2, <2>2, <2>3
<1> QED  BY <1>3, <1>4

\* The exchange begins in order, and as the promise does.
LEMMA PocetnoUredno == Init => Uredno /\ Promet!Init
<1> SUFFICES ASSUME Init PROVE Uredno /\ Promet!Init  OBVIOUS
<1>1. /\ knjiga = PocetnaKnjiga /\ rupe = [n \in Cvor |-> BezRupa]
      /\ prati = [n \in Cvor |-> TRUE] /\ razg = [t \in Razgovori |-> Slobodan]
  BY DEF Init
<1>2. PocetnaKnjiga \in [Cvor -> {1 .. k : k \in 0 .. ZadnjaVerzija}] /\ Autor \in Cvor
      /\ \A n \in Cvor : PocetnaKnjiga[n] \subseteq PocetnaKnjiga[Autor]
  BY RazmjenaPretpostavka
<1>3. \A n \in Cvor : \E k \in 0 .. ZadnjaVerzija : knjiga[n] = 1 .. k  BY <1>1, <1>2
<1>4. \A n \in Cvor : /\ Granica(knjiga[n]) \in 0 .. ZadnjaVerzija
                      /\ knjiga[n] = 1 .. Granica(knjiga[n])
  BY <1>3, PocetakSeze
<1>5. Poceci  BY <1>1, <1>2, <1>4 DEF Poceci
<1>6. BezTihePraznine
  <2> SUFFICES ASSUME NEW n \in Primatelji, NEW v \in Nema(n), v <= Granica(knjiga[n])
               PROVE  FALSE
    BY DEF BezTihePraznine
  <2>1. n \in Cvor /\ v \in knjiga[Autor] /\ v \notin knjiga[n]  BY DEF Primatelji, Nema
  <2>2. v \in 1 .. Granica(knjiga[Autor]) /\ Granica(knjiga[Autor]) \in Nat
    BY <1>2, <1>4, <2>1, RazmjenaPretpostavka
  <2>3. v \in 1 .. Granica(knjiga[n])  BY <1>4, <2>1, <2>2
  <2> QED  BY <1>4, <2>1, <2>3
<1>7. ASSUME NEW u \in Razgovori  PROVE RazgovorUredan(u)
  <2>1. razg[u].faza = "nema"  BY <1>1 DEF Slobodan
  <2>2. "nema" \notin Pise /\ "nema" \notin PodBravom  BY DEF Pise, PodBravom
  <2> QED
    BY <2>1, <2>2 DEF RazgovorUredan, SaljeUredno, PrimaUredno, DeltaUredna, UpisUredan,
       ProsirenoUredno, OdbijenoUredno, Pise, PodBravom
<1>8. Promet!Init
  <2> DEFINE g == Granica(knjiga[Autor])
  <2>1. g \in 0 .. ZadnjaVerzija /\ g \in Nat /\ knjiga[Autor] = 1 .. g
    BY <1>2, <1>4, RazmjenaPretpostavka
  <2>2. ASSUME NEW n \in Cvor
        PROVE  knjiga[n] \in {1 .. k : k \in 0 .. g}
    <3>1. PICK k \in 0 .. ZadnjaVerzija : knjiga[n] = 1 .. k  BY <1>3
    <3>2. CASE k = 0  BY <2>1, <3>1, <3>2
    <3>3. CASE k # 0
      <4>1. k \in 1 .. k /\ k \in Nat  BY <3>3, RazmjenaPretpostavka
      <4>2. k \in 1 .. g  BY <1>1, <1>2, <2>1, <3>1, <4>1
      <4> QED  BY <2>1, <3>1, <4>1, <4>2
    <3> QED  BY <3>2, <3>3
  <2>3. knjiga \in [Cvor -> {1 .. k : k \in 0 .. g}]  BY <1>1, <1>2, <2>2
  <2>4. Zabiljezene(BezRupa) = {}  BY BezRupaPrazno
  <2>5. [n \in Cvor |-> Zabiljezene(rupe[n])] = [n \in Cvor |-> {}]  BY <1>1, <2>4
  <2>6. knjiga[Autor] = Promet!Napisane  BY <2>1 DEF Promet!Napisane
  <2> QED  BY <1>1, <2>1, <2>3, <2>5, <2>6 DEF Promet!Init
<1> QED  BY <1>5, <1>6, <1>7, <1>8 DEF Uredno

\* Where neither ledgers nor records nor subscriptions change, the promise
\* stutters.
LEMMA TihoZaPromet ==
    ASSUME UNCHANGED <<knjiga, rupe, prati>>
    PROVE  UNCHANGED Promet!vars
BY DEF Promet!vars

\* The steps of the exchange other than the deletion of a channel, and the steps
\* of the promise they are.
BezBrisanja ==
    \/ Napisi
    \/ \E t \in Razgovori : \/ \E v \in Veze : Zapocni(t, v[1], v[2])
                           \/ Korak(t)
                           \/ BravaNijeStigla(t) \/ Prekid(t) \/ UpisPao(t)
    \/ \E n \in Podesivi : PromijeniPravilo(n) \/ PomakniRub(n) \/ VratiRub(n) \/ PromijeniPretplatu(n)
    \/ \E n \in Primatelji : \/ PonovnoPokreni(n) \/ PripremiRupe(n)
                            \/ \E s \in Cvor : Istekne(n, s)

PrometBezBrisanja ==
    \/ Promet!Napisi
    \/ \E n \in Cvor \ {Autor} : Promet!Primi(n) \/ Promet!Zabiljezi(n) \/ Promet!Pretplati(n)
    \/ UNCHANGED Promet!vars

\* A step that deletes nothing leaves the talks, the ledgers and the records in
\* order, and is a step of the promise that deletes nothing, or none.
LEMMA KorakBezBrisanja ==
    ASSUME RubNeIdeNatrag, IInv, TypeOK', BezBrisanja
    PROVE  Uredno' /\ PrometBezBrisanja
<1>1. CASE Napisi
  BY <1>1, NapisanoUredno DEF PrometBezBrisanja
<1>2. ASSUME NEW t \in Razgovori,
             \/ \E v \in Veze : Zapocni(t, v[1], v[2])
             \/ Korak(t) \/ BravaNijeStigla(t) \/ Prekid(t) \/ UpisPao(t)
      PROVE  Uredno' /\ PrometBezBrisanja
  <2>1. razg[t].faza # "nema" => razg[t].r \in Cvor \ {Autor}
    BY DEF IInv, Uredno, RazgovorUredan, PrimaUredno, Primatelji
  <2>2. CASE \/ \E v \in Veze : Zapocni(t, v[1], v[2])
             \/ GranicaPosiljatelja(t) \/ RupePosiljatelja(t)
             \/ GranicaPrimatelja(t) \/ RupePrimatelja(t)
    <3>1. UNCHANGED <<knjiga, rupe, prati>>
      BY <2>2 DEF Zapocni, GranicaPosiljatelja, RupePosiljatelja, GranicaPrimatelja,
         RupePrimatelja, trajno, postavke
    <3> QED  BY <2>2, <3>1, PocetakUredan, TihoZaPromet DEF PrometBezBrisanja
  <2>3. CASE SloziDeltu(t)
    <3>1. UNCHANGED <<knjiga, rupe, prati>>  BY <2>3 DEF SloziDeltu, trajno, postavke
    <3> QED  BY <2>3, <3>1, SlozenaUredna, TihoZaPromet DEF PrometBezBrisanja
  <2>4. CASE Odluci(t)
    <3>1. UNCHANGED <<knjiga, rupe, prati>>  BY <2>4 DEF Odluci, trajno, postavke
    <3> QED  BY <2>4, <3>1, OdlucenoUredno, TihoZaPromet DEF PrometBezBrisanja
  <2>5. CASE ZapisiRupe(t)
    <3>1. razg[t].faza # "nema"  BY <2>5 DEF ZapisiRupe
    <3>2. Uredno' /\ (Promet!Zabiljezi(razg[t].r) \/ UNCHANGED <<knjiga, rupe, prati>>)
      BY <2>5, ZapisanoUredno
    <3> QED  BY <2>1, <3>1, <3>2, TihoZaPromet DEF PrometBezBrisanja
  <2>6. CASE UpisiVerzije(t)
    <3>1. razg[t].faza # "nema"  BY <2>6 DEF UpisiVerzije
    <3>2. Uredno' /\ Promet!Primi(razg[t].r)  BY <2>6, UpisanoUredno
    <3> QED  BY <2>1, <3>1, <3>2 DEF PrometBezBrisanja
  <2>7. CASE SuziRupe(t)
    <3>1. razg[t].faza # "nema"  BY <2>7 DEF SuziRupe
    <3>2. Uredno' /\ (Promet!Zabiljezi(razg[t].r) \/ UNCHANGED <<knjiga, rupe, prati>>)
      BY <2>7, SuzenoUredno
    <3> QED  BY <2>1, <3>1, <3>2, TihoZaPromet DEF PrometBezBrisanja
  <2>8. CASE \/ NePrati(t) \/ ZapamtiOdbijene(t) \/ ZapamtiUvoz(t)
             \/ BravaNijeStigla(t) \/ Prekid(t) \/ UpisPao(t)
    <3>1. UNCHANGED <<knjiga, rupe, prati>>
      BY <2>8 DEF NePrati, ZapamtiOdbijene, ZapamtiUvoz, BravaNijeStigla, Prekid, UpisPao,
         trajno, postavke
    <3> QED  BY <2>8, <3>1, PamtiUredno, TihoZaPromet DEF PrometBezBrisanja
  <2> QED  BY <1>2, <2>2, <2>3, <2>4, <2>5, <2>6, <2>7, <2>8 DEF Korak
<1>3. ASSUME NEW n \in Podesivi,
             PromijeniPravilo(n) \/ PomakniRub(n) \/ VratiRub(n) \/ PromijeniPretplatu(n)
      PROVE  Uredno' /\ PrometBezBrisanja
  <2>1. n \in Primatelji /\ n \in Cvor /\ n \in Cvor \ {Autor}
    BY RazmjenaPretpostavka DEF Primatelji
  <2>2. CASE PromijeniPravilo(n) \/ PomakniRub(n)
    <3>1. UNCHANGED <<knjiga, rupe, prati>>
      BY <2>2 DEF PromijeniPravilo, PomakniRub, trajno
    <3> QED  BY <2>1, <2>2, <3>1, PraviloUredno, TihoZaPromet DEF PrometBezBrisanja
  <2>3. CASE VratiRub(n)
    BY <2>3 DEF VratiRub, Smetnja, RubNeIdeNatrag
  <2>4. CASE PromijeniPretplatu(n)
    <3>1. Promet!Pretplati(n)
      BY <2>4 DEF PromijeniPretplatu, trajno, Promet!Pretplati
    <3> QED  BY <2>1, <2>4, <3>1, CvorUredan DEF PrometBezBrisanja
  <2> QED  BY <1>3, <2>2, <2>3, <2>4
<1>4. ASSUME NEW n \in Primatelji,
             PonovnoPokreni(n) \/ PripremiRupe(n) \/ \E s \in Cvor : Istekne(n, s)
      PROVE  Uredno' /\ PrometBezBrisanja
  <2>1. n \in Cvor /\ n \in Cvor \ {Autor}  BY DEF Primatelji
  <2>2. CASE PonovnoPokreni(n) \/ \E s \in Cvor : Istekne(n, s)
    <3>1. UNCHANGED <<knjiga, rupe, prati>>
      BY <2>2 DEF PonovnoPokreni, Istekne, trajno, postavke
    <3> QED  BY <2>1, <2>2, <3>1, CvorUredan, TihoZaPromet DEF PrometBezBrisanja
  <2>3. CASE PripremiRupe(n)
    BY <2>1, <2>3, PripremljenoUredno DEF PrometBezBrisanja
  <2> QED  BY <1>4, <2>2, <2>3
<1> QED  BY <1>1, <1>2, <1>3, <1>4 DEF BezBrisanja

\* Every step of the exchange leaves the talks, the ledgers and the records in
\* order, and is a step of the promise or none.
LEMMA KorakProvodi ==
    ASSUME MirnoBrisanje, RubNeIdeNatrag, IInv, TypeOK', [Next]_vars
    PROVE  Uredno' /\ [Promet!Next]_(Promet!vars)
<1>1. CASE BezBrisanja
  BY <1>1, KorakBezBrisanja DEF PrometBezBrisanja, Promet!Next
<1>2. ASSUME NEW n \in Podesivi, ObrisiKanal(n)
      PROVE  Uredno' /\ [Promet!Next]_(Promet!vars)
  <2>1. n \in Primatelji /\ n \in Cvor \ {Autor}
    BY RazmjenaPretpostavka DEF Primatelji
  <2> QED  BY <1>2, <2>1, ObrisanoUredno DEF Promet!Next
<1>3. CASE UNCHANGED vars
  <2>1. UNCHANGED <<knjiga, rupe, zapisano, ograda, prati, razg, rastRupa>>
    BY <1>3 DEF vars
  <2>2. \A u \in Razgovori : IstiRazgovor(u) /\ (u \in rastRupa => u \in rastRupa')
    BY <2>1 DEF IstiRazgovor
  <2> QED  BY <2>1, <2>2, TihiKorak, TihoZaPromet
<1> QED  BY <1>1, <1>2, <1>3 DEF Next, BezBrisanja

\* IInv is inductive.
LEMMA UrednoOcuvano ==
    ASSUME MirnoBrisanje, RubNeIdeNatrag
    PROVE  /\ Init => IInv
           /\ IInv /\ [Next]_vars => IInv' /\ [Promet!Next]_(Promet!vars)
<1>1. Init => IInv
  <2>1. Init => Zakljucano  BY DEF Init, Zakljucano, Slobodan, PodBravom
  <2> QED  BY <2>1, PocetnoTip, PocetnoUredno DEF IInv
<1>2. ASSUME IInv, [Next]_vars  PROVE IInv' /\ [Promet!Next]_(Promet!vars)
  <2>1. TypeOK /\ Zakljucano  BY <1>2 DEF IInv
  <2>2. TypeOK' /\ Zakljucano'  BY <1>2, <2>1, KorakTip, ZakljucanoOcuvano
  <2> QED  BY <1>2, <2>2, KorakProvodi DEF IInv
<1> QED  BY <1>1, <1>2

\* Nothing a node misses below its frontier is silent, and no talk, write or
\* delta that is going on will make it so.
THEOREM UrednoStalno ==
    ASSUME MirnoBrisanje, RubNeIdeNatrag
    PROVE  Spec => []IInv
BY UrednoOcuvano, PTL DEF Spec

\* The exchange implements Dostava: versions pass over nothing that is not in
\* the durable record, no step of a write, change of the rule, failure or
\* restart takes a missing version out of it, and only a deletion takes
\* versions away (upis.go, rupe.go, rupe_baza.go).
THEOREM RazmjenaDostavlja ==
    ASSUME MirnoBrisanje, RubNeIdeNatrag
    PROVE  Spec => DostavaSeDrzi
<1>1. Init => Promet!Init  BY PocetnoUredno
<1> QED  BY <1>1, UrednoOcuvano, PTL DEF Spec, DostavaSeDrzi, Promet!Spec

\* Where everything is in order, the record shows what is missing.
LEMMA UrednoZapisano == IInv => RupaJeZapisana
<1> SUFFICES ASSUME IInv, NEW n \in Primatelji, NEW v \in Nema(n),
                    v <= Granica(knjiga[n])
             PROVE  v \in Clanovi(NeJamciNaPocetku(n))
  BY DEF RupaJeZapisana
<1>1. TypeOK /\ v \in Zabiljezene(rupe[n])  BY DEF IInv, Uredno, BezTihePraznine
<1>2. n \in Cvor /\ n # Autor  BY DEF Primatelji
<1> QED  BY <1>1, <1>2, PocetakNeGubi

\* The invariant of rupe.go: what a node misses below its frontier it does not
\* vouch for.
THEOREM RupaJeZapisanaOcuvana ==
    ASSUME MirnoBrisanje, RubNeIdeNatrag
    PROVE  Spec => []RupaJeZapisana
BY UrednoZapisano, UrednoStalno, PTL

\* What a sender says of its delta is true (razgovor.go, jamstvoDelte).
THEOREM JamstvoDelteVrijedi ==
    ASSUME MirnoBrisanje, RubNeIdeNatrag
    PROVE  Spec => []JamstvoDelteIstinito
<1>1. IInv => JamstvoDelteIstinito
  BY DEF IInv, Uredno, RazgovorUredan, DeltaUredna, Jamci, JamstvoDelteIstinito
<1> QED  BY <1>1, UrednoStalno, PTL

\* What a node that follows the channel misses below its frontier when nothing
\* is going on is recorded: following the channel again brings it.
THEOREM PonovnoPracenjeVrijedi ==
    ASSUME MirnoBrisanje, RubNeIdeNatrag
    PROVE  Spec => []PonovnoPracenjeDohvatiSve
<1>1. RupaJeZapisana => PonovnoPracenjeDohvatiSve
  BY DEF RupaJeZapisana, PonovnoPracenjeDohvatiSve
<1> QED  BY <1>1, RupaJeZapisanaOcuvana, PTL

=============================================================================
