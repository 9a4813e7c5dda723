--------------------------- MODULE PotrebnoDokazi ---------------------------
(***************************************************************************)
(* A node asks for every version it misses below its frontier and would    *)
(* keep, for any nodes, talks, rules and failures, under the assumptions   *)
(* of the theorem on delivery.                                             *)
(*                                                                         *)
(* What is refused and what is asked for are told apart by rules that      *)
(* change while versions are under way. The argument is that a version     *)
(* leaves `trazi', or is passed over without entering it, only when it was *)
(* refused under the generation of the rule that still holds; decisions of *)
(* an earlier generation move all they refused to `trazi' (uzOgradu).      *)
(***************************************************************************)
EXTENDS RazmjenaDokazi

\* What each node asks for, or would as soon as its rule accepts it: what it
\* asks for, and what it refused under the recorded rule. It does not depend on
\* the rule now, so an edge that moves changes nothing of it.
Trazeno == [n \in Cvor |->
    Clanovi(rupe[n].trazi) \cup (Clanovi(rupe[n].odbijeno) \cap
                                 (IF zapisano[n].ima THEN zapisano[n].odbija ELSE {}))]

\* What n misses up to version g and does not refuse is asked for.
TrazenoDo(n, g) ==
    \A v \in Nema(n) : v <= g /\ v \notin ograda[n].odbija => v \in Trazeno[n]

\* Decisions of the talk are made under the rule that still holds.
PravilomStoji(t) == JosOdbija(razg[t].prima.ograda, ograda[razg[t].r])

\* In one generation the rule only grew: what refused under it still does.
Narastajem(o, sada) == o.narastaj = sada.narastaj => JosOdbija(o, sada)

\* Before the rule is recorded, nothing is.
ZapisOdPocetka == \A n \in Primatelji : ~zapisano[n].ima => rupe[n] = BezRupa

\* Up to where n remembers to have refused what s sent, it refused it or asks
\* for it.
OdbijeneUredne(n, s) ==
    LET z == odbijeneOd[n][s] IN
    /\ z.granica <= Granica(knjiga[Autor])
    /\ z.ograda.narastaj <= ograda[n].narastaj
    /\ Narastajem(z.ograda, ograda[n])
    /\ JosOdbija(z.ograda, ograda[n]) => TrazenoDo(n, z.granica)

\* The same of what a talk read of it.
MojeUredno(t) ==
    LET x == razg[t] IN
    x.faza # "nema" =>
        /\ x.prima.moje <= Granica(knjiga[Autor])
        /\ x.upis.odbijeno <= Granica(knjiga[Autor])
        /\ Narastajem(x.prima.ograda, ograda[x.r])
        /\ PravilomStoji(t) => TrazenoDo(x.r, x.prima.moje)

\* What a write takes for covered, misses and does not refuse, the sender said
\* to be uncertain; and it is known of all the write passes over.
UpisPotreban(t) ==
    LET x == razg[t]
        p == x.upis.promjena
        V == x.upis.verzije
    IN
    x.faza \in Pise /\ PravilomStoji(t) =>
        \A v \in Nema(x.r) \ (V \cup ograda[x.r].odbija) :
            /\ v \in Clanovi(p.redovno) \cup Clanovi(p.popuna) => v \in Clanovi(p.nesigurno)
            /\ v \in Clanovi(p.redovno) => p.fs < v
            /\ v <= Veci(Granica(V), x.upis.odbijeno) =>
                  v <= p.fs \/ v <= x.prima.moje \/ v \in Clanovi(p.redovno)

\* Between the widening and the versions, what they will pass over and the
\* recorded rule keeps is asked for.
ProsirenoPotrebno(t) ==
    LET x == razg[t]
        n == x.r
        V == x.upis.verzije
    IN
    x.faza = "prosireno" =>
        \A v \in Nema(n) \ V :
            /\ v <= Granica(knjiga[n] \cup V)
            /\ zapisano[n].ima /\ v \notin zapisano[n].odbija
            => v \in Clanovi(rupe[n].trazi)

\* After the widening, what is missing up to the largest refused version is
\* refused, on its way, or asked for.
OdbijenoPotrebno(t) ==
    LET x == razg[t] IN
    /\ x.faza = "zapamti" => x.upis.verzije = {}
    /\ x.faza \in PodBravom \cup {"zapamti"} /\ PravilomStoji(t) =>
          \A v \in Nema(x.r) \ (x.upis.verzije \cup ograda[x.r].odbija) :
              v <= x.upis.odbijeno => v \in Trazeno[x.r]

RazgovorPotreban(t) ==
    MojeUredno(t) /\ UpisPotreban(t) /\ ProsirenoPotrebno(t) /\ OdbijenoPotrebno(t)

Potrebno ==
    /\ ZapisOdPocetka /\ PotrebnoSeTrazi
    /\ \A n, s \in Cvor : OdbijeneUredne(n, s)
    /\ \A t \in Razgovori : RazgovorPotreban(t)

IInvPotrebno == IInv /\ Potrebno

-----------------------------------------------------------------------------
(* The record and the rule *)

\* What is asked for is the same for a talk that starts and for a transaction
\* on the record (rupe_baza.go, uskladiPravilo), and holds all that is not
\* refused now.
LEMMA UskladjenoTrazi ==
    ASSUME TypeOK, ZapisOdPocetka, NEW n \in Cvor
    PROVE  /\ UskladjenoPravilo(n).trazi = RupeNaPocetku(n).trazi
           /\ Trazeno[n] \ ograda[n].odbija \subseteq Clanovi(UskladjenoPravilo(n).trazi)
           /\ Clanovi(rupe[n].trazi) \subseteq Trazeno[n]
<1>1. rupe[n] \in RupeKljuca /\ rupe[n].odbijeno \in Rasponi /\ rupe[n].trazi \in Rasponi
  BY KnjigaTip
<1>2. UskladjenoPravilo(n).trazi = RupeNaPocetku(n).trazi
  <2>1. Virtualno(n) => ~Sire(n)  BY DEF Virtualno, Sire
  <2> QED  BY <1>1, <2>1 DEF UskladjenoPravilo, RupeNaPocetku, RupeKljuca
<1>3. Clanovi(rupe[n].trazi) \subseteq Trazeno[n]  BY DEF Trazeno
<1>4. ASSUME NEW v \in Trazeno[n], v \notin ograda[n].odbija
      PROVE  v \in Clanovi(RupeNaPocetku(n).trazi)
  <2>1. Sirenjem(rupe[n]).trazi = Uz(rupe[n].trazi, rupe[n].odbijeno)  BY DEF Sirenjem
  <2>2. /\ Clanovi(rupe[n].trazi) \subseteq Clanovi(Sirenjem(rupe[n]).trazi)
        /\ Clanovi(rupe[n].odbijeno) \subseteq Clanovi(Sirenjem(rupe[n]).trazi)
    BY <1>1, <2>1, UzDrziOba
  <2>3. CASE v \in Clanovi(rupe[n].trazi)
    BY <2>2, <2>3 DEF RupeNaPocetku
  <2>4. CASE v \notin Clanovi(rupe[n].trazi)
    <3>1. zapisano[n].ima /\ v \in zapisano[n].odbija /\ v \in Clanovi(rupe[n].odbijeno)
      BY <1>4, <2>4 DEF Trazeno
    <3>2. Sire(n)  BY <1>4, <3>1 DEF Sire, SiriOd
    <3> QED  BY <2>2, <3>1, <3>2 DEF RupeNaPocetku
  <2> QED  BY <2>3, <2>4
<1> QED  BY <1>2, <1>3, <1>4

\* Below its frontier a node asks for all it misses and does not refuse now.
LEMMA GranicaTrazena ==
    ASSUME IInvPotrebno, NEW n \in Primatelji
    PROVE  TrazenoDo(n, Granica(knjiga[n]))
<1> SUFFICES ASSUME NEW v \in Nema(n), v <= Granica(knjiga[n]), v \notin ograda[n].odbija
             PROVE  v \in Trazeno[n]
  BY DEF TrazenoDo
<1>1. TypeOK /\ n \in Cvor /\ v \in Zabiljezene(rupe[n])
      /\ ZapisOdPocetka /\ PotrebnoSeTrazi
  BY DEF IInvPotrebno, Potrebno, IInv, Uredno, BezTihePraznine, Primatelji
<1>2. zapisano[n].ima
  BY <1>1, BezRupaPrazno DEF ZapisOdPocetka
<1>3. CASE v \in zapisano[n].odbija
  BY <1>1, <1>2, <1>3 DEF Zabiljezene, Trazeno
<1>4. CASE v \notin zapisano[n].odbija
  <2>1. v \in Clanovi(rupe[n].trazi)
    BY <1>1, <1>2, <1>4 DEF PotrebnoSeTrazi
  <2> QED  BY <1>1, <2>1 DEF Trazeno
<1> QED  BY <1>3, <1>4

\* The record novo asks for all that n misses, does not refuse and asks for.
ZapisTrazi(n, novo) ==
    \A v \in Nema(n) \ ograda[n].odbija : v \in Trazeno[n] => v \in Clanovi(novo.trazi)

\* What n needs and asks for it goes on asking for, or has.
TrazenoOstaje(n) ==
    JosOdbija(ograda[n], ograda'[n]) =>
        \A v \in Nema(n) \ ograda'[n].odbija :
            v \in Trazeno[n] => v \in Trazeno'[n] \cup knjiga'[n]

\* Without a change of the record the same is asked for, whatever the rule does.
LEMMA IstoTrazeno ==
    ASSUME NEW n \in Cvor, rupe'[n] = rupe[n], zapisano'[n] = zapisano[n]
    PROVE  Trazeno'[n] = Trazeno[n]
BY DEF Trazeno

\* A transaction on the record leaves the rule recorded, so what it writes is
\* what is asked for.
LEMMA ZapisanoTrazeno ==
    ASSUME TypeOK, NEW n \in Cvor, NEW staro, NEW novo, PromijeniRupe(n, staro, novo),
           UNCHANGED ograda
    PROVE  /\ rupe'[n] = novo /\ Clanovi(novo.trazi) \subseteq Trazeno'[n]
           /\ Trazeno'[n] \ ograda[n].odbija \subseteq Clanovi(novo.trazi)
           /\ zapisano'[n].ima /\ zapisano'[n].odbija = ograda[n].odbija
           /\ \A c \in Cvor : c # n => rupe'[c] = rupe[c] /\ zapisano'[c] = zapisano[c]
                                       /\ Trazeno'[c] = Trazeno[c]
<1>1. /\ rupe' = [rupe EXCEPT ![n] = novo]
      /\ zapisano' = [zapisano EXCEPT ![n] = [ima |-> TRUE, odbija |-> ograda[n].odbija]]
  BY DEF PromijeniRupe
<1>2. /\ rupe'[n] = novo /\ zapisano'[n] = [ima |-> TRUE, odbija |-> ograda[n].odbija]
      /\ \A c \in Cvor : c # n => rupe'[c] = rupe[c] /\ zapisano'[c] = zapisano[c]
  BY <1>1 DEF TypeOK
<1>3. zapisano'[n].ima /\ zapisano'[n].odbija = ograda[n].odbija  BY <1>2
<1>4. Trazeno'[n] = Clanovi(novo.trazi) \cup (Clanovi(novo.odbijeno) \cap ograda[n].odbija)
  BY <1>2, <1>3 DEF Trazeno
<1>5. \A c \in Cvor : c # n => Trazeno'[c] = Trazeno[c]  BY <1>2, IstoTrazeno
<1> QED  BY <1>2, <1>3, <1>4, <1>5

-----------------------------------------------------------------------------
(* What a step leaves in order for a talk it is not a step of *)

\* What the step may do to the receiver of a talk: its ledger grows, a rule that
\* refuses less has a new generation, what is needed is still asked for, and
\* under the lock of the talk nothing changes.
PrimateljMiran(u) ==
    LET r == razg[u].r IN
    /\ knjiga[r] \subseteq knjiga'[r]
    /\ JosOdbija(ograda[r], ograda'[r]) \/ ograda[r].narastaj < ograda'[r].narastaj
    /\ TrazenoOstaje(r)
    /\ razg[u].faza \in PodBravom =>
          rupe'[r] = rupe[r] /\ zapisano'[r] = zapisano[r] /\ knjiga'[r] = knjiga[r]

\* A version that appears is above all that was refused, sent or written.
LEMMA NovaJeIznad ==
    ASSUME TypeOK, TypeOK', AutorDodaje, NEW v \in knjiga'[Autor], NEW g \in Nat,
           g <= Granica(knjiga[Autor]), v <= g
    PROVE  v \in knjiga[Autor]
<1>1. Autor \in Cvor /\ knjiga[Autor] \in SUBSET Verzije /\ Granica(knjiga[Autor]) \in Nat
  BY KnjigaTip
<1>2. knjiga'[Autor] \in SUBSET Verzije  BY <1>1 DEF TypeOK
<1>3. v \in Nat  BY <1>2, GranicaBroj
<1> QED  BY <1>1, <1>3 DEF AutorDodaje

\* The numbers of a write.
LEMMA UpisBrojevi ==
    ASSUME TypeOK, NEW t \in Razgovori
    PROVE  /\ razg[t].upis.odbijeno \in Nat
           /\ razg[t].upis.promjena.redovno.do \in Nat
           /\ razg[t].upis.promjena.popuna.do \in Nat
           /\ razg[t].upis.promjena.fs \in Nat
           /\ Granica(razg[t].upis.verzije) \in Nat
<1>1. /\ razg[t].upis.promjena \in PromjeneKljuca /\ razg[t] \in RazgovorTip
      /\ razg[t].upis.verzije \in SUBSET Verzije
  BY RazgovorBrojevi
<1>2. razg[t].upis \in UpisTip  BY <1>1, DijeloviTip
<1>3. razg[t].upis.odbijeno \in Nat
  BY <1>2, RazmjenaPretpostavka DEF UpisTip, Granice
<1> QED
  BY <1>1, <1>3, GranicaBroj, BeskrajPretpostavka DEF PromjeneKljuca, Rasponi, Oznake

\* A talk whose decisions hold under the rule after the step held it before, and
\* in one generation the rule goes on growing.
LEMMA PraviloStajalo ==
    ASSUME TypeOK, TypeOK', NEW u \in Razgovori, IstiRazgovor(u), PrimaUredno(u),
           razg[u].faza # "nema", PrimateljMiran(u),
           Narastajem(razg[u].prima.ograda, ograda[razg[u].r])
    PROVE  /\ Narastajem(razg[u].prima.ograda, ograda'[razg[u].r])
           /\ PravilomStoji(u)' => /\ PravilomStoji(u)
                                   /\ JosOdbija(ograda[razg[u].r], ograda'[razg[u].r])
<1> DEFINE x == razg[u]
<1>1. x.r \in Cvor /\ x.prima.ograda.narastaj \in Nat  BY RazgovorBrojevi
<1>2. ograda[x.r].narastaj \in Nat /\ ograda'[x.r].narastaj \in Nat
  BY <1>1 DEF TypeOK, Ograde
<1>3. x.prima.ograda.narastaj <= ograda[x.r].narastaj  BY DEF PrimaUredno
<1>4. /\ JosOdbija(ograda[x.r], ograda'[x.r]) \/ ograda[x.r].narastaj < ograda'[x.r].narastaj
      /\ razg'[u].prima = x.prima /\ razg'[u].r = x.r
  BY DEF PrimateljMiran, IstiRazgovor
<1>5. ASSUME x.prima.ograda.narastaj = ograda'[x.r].narastaj
      PROVE  /\ JosOdbija(ograda[x.r], ograda'[x.r])
             /\ JosOdbija(x.prima.ograda, ograda[x.r])
             /\ JosOdbija(x.prima.ograda, ograda'[x.r])
  BY <1>1, <1>2, <1>3, <1>4, <1>5 DEF JosOdbija, Narastajem
<1>6. PravilomStoji(u)' => x.prima.ograda.narastaj = ograda'[x.r].narastaj
  BY <1>4 DEF PravilomStoji, JosOdbija
<1> QED  BY <1>5, <1>6 DEF PravilomStoji, Narastajem

\* A talk keeps what it knows while others make steps.
LEMMA TudjiPotreban ==
    ASSUME IInv, TypeOK', NEW u \in Razgovori, RazgovorPotreban(u), IstiRazgovor(u),
           AutorDodaje, razg[u].faza # "nema" => PrimateljMiran(u)
    PROVE  RazgovorPotreban(u)'
<1> DEFINE x == razg[u]
           K == knjiga[Autor]
           L == knjiga'[Autor]
           V == x.upis.verzije
           p == x.upis.promjena
<1>1. /\ TypeOK /\ Poceci /\ RazgovorUredan(u)
      /\ MojeUredno(u) /\ UpisPotreban(u) /\ ProsirenoPotrebno(u) /\ OdbijenoPotrebno(u)
  BY DEF IInv, Uredno, RazgovorPotreban
<1>2. /\ razg'[u].faza = x.faza /\ razg'[u].r = x.r /\ razg'[u].prima = x.prima
      /\ razg'[u].upis = x.upis
  BY DEF IstiRazgovor
<1>3. CASE x.faza = "nema"
  BY <1>2, <1>3
  DEF RazgovorPotreban, MojeUredno, UpisPotreban, ProsirenoPotrebno, OdbijenoPotrebno,
      Pise, PodBravom
<1>4. CASE x.faza # "nema"
  <2>1. /\ x.r \in Cvor /\ Autor \in Cvor /\ x.prima.moje \in Nat
        /\ x.upis.odbijeno \in Nat /\ V \in SUBSET Verzije
    BY <1>1, RazgovorBrojevi, UpisBrojevi, KnjigaTip
  <2>2. /\ PrimateljMiran(u) /\ knjiga[x.r] \subseteq knjiga'[x.r]
        /\ x.prima.moje <= Granica(K) /\ x.upis.odbijeno <= Granica(K)
        /\ K \in SUBSET Verzije /\ L \in SUBSET Verzije /\ K \subseteq L
        /\ knjiga[x.r] \in SUBSET Verzije /\ knjiga[x.r] \subseteq K
    BY <1>1, <1>4, <2>1 DEF PrimateljMiran, MojeUredno, TypeOK, AutorDodaje, Poceci
  <2>3. Granica(K) \in Nat /\ Granica(L) \in Nat /\ Granica(K) <= Granica(L)
    BY <2>2, GranicaBroj, GranicaUnije
  <2>4. /\ Narastajem(x.prima.ograda, ograda'[x.r])
        /\ PravilomStoji(u)' => /\ PravilomStoji(u)
                                /\ JosOdbija(ograda[x.r], ograda'[x.r])
                                /\ ograda[x.r].odbija \subseteq ograda'[x.r].odbija
    BY <1>1, <1>4, <2>2, PraviloStajalo DEF RazgovorUredan, MojeUredno, JosOdbija
  <2>5. \A g \in Nat, v \in L \ knjiga'[x.r] :
            g <= Granica(K) /\ v <= g => v \in Nema(x.r)
    BY <1>1, <2>2, NovaJeIznad DEF Nema
  <2>6. MojeUredno(u)'
    <3>1. ASSUME PravilomStoji(u)', NEW v \in L \ knjiga'[x.r],
                 v <= x.prima.moje, v \notin ograda'[x.r].odbija
          PROVE  v \in Trazeno'[x.r]
      <4>1. v \in Nema(x.r)  BY <2>1, <2>2, <2>5, <3>1
      <4>2. v \in Trazeno[x.r]
        BY <1>1, <1>4, <2>4, <3>1, <4>1 DEF MojeUredno, TrazenoDo
      <4> QED  BY <2>2, <2>4, <3>1, <4>1, <4>2 DEF PrimateljMiran, TrazenoOstaje
    <3>2. x.prima.moje <= Granica(L) /\ x.upis.odbijeno <= Granica(L)
      BY <2>1, <2>2, <2>3
    <3> QED  BY <1>2, <2>4, <3>1, <3>2 DEF MojeUredno, TrazenoDo, Nema
  <2>7. UpisPotreban(u)'
    <3> SUFFICES ASSUME x.faza \in Pise, PravilomStoji(u)',
                        NEW v \in (L \ knjiga'[x.r]) \ (V \cup ograda'[x.r].odbija)
                 PROVE  /\ v \in Clanovi(p.redovno) \cup Clanovi(p.popuna)
                              => v \in Clanovi(p.nesigurno)
                        /\ v \in Clanovi(p.redovno) => p.fs < v
                        /\ v <= Veci(Granica(V), x.upis.odbijeno) =>
                              v <= p.fs \/ v <= x.prima.moje \/ v \in Clanovi(p.redovno)
      BY <1>2 DEF UpisPotreban, Nema, Pise, PodBravom
    <3>1. /\ p.redovno.do \in Nat /\ p.redovno.do <= Granica(K)
          /\ p.popuna.do \in Nat /\ p.popuna.do <= Granica(K) /\ V \subseteq K
      BY <1>1, UpisBrojevi DEF RazgovorUredan, UpisUredan
    <3>2. Granica(V) \in Nat /\ Granica(V) <= Granica(K)
      BY <2>1, <2>2, <3>1, GranicaBroj, GranicaUnije
    <3>3. Veci(Granica(V), x.upis.odbijeno) \in Nat
          /\ Veci(Granica(V), x.upis.odbijeno) <= Granica(K)
      BY <2>1, <2>2, <3>2 DEF Veci
    <3>4. ASSUME \/ v \in Clanovi(p.redovno) \cup Clanovi(p.popuna)
                 \/ v <= Veci(Granica(V), x.upis.odbijeno)
          PROVE  v \in Nema(x.r) \ (V \cup ograda[x.r].odbija)
      <4>1. /\ v \in Clanovi(p.redovno) => v <= p.redovno.do
            /\ v \in Clanovi(p.popuna) => v <= p.popuna.do
        BY DEF Clanovi
      <4>2. v \in Nema(x.r)  BY <2>5, <3>1, <3>3, <3>4, <4>1
      <4> QED  BY <2>4, <4>2
    <3>5. PravilomStoji(u)  BY <2>4
    <3> HIDE DEF x, p, V, L
    <3> QED  BY <1>1, <3>4, <3>5 DEF UpisPotreban, x, p, V
  <2>8. ProsirenoPotrebno(u)'
    <3> SUFFICES ASSUME x.faza = "prosireno",
                        NEW v \in (L \ knjiga'[x.r]) \ V,
                        v <= Granica(knjiga'[x.r] \cup V),
                        zapisano'[x.r].ima, v \notin zapisano'[x.r].odbija
                 PROVE  v \in Clanovi(rupe'[x.r].trazi)
      BY <1>2 DEF ProsirenoPotrebno, Nema
    <3>1. knjiga'[x.r] = knjiga[x.r] /\ rupe'[x.r] = rupe[x.r]
          /\ zapisano'[x.r] = zapisano[x.r]
      BY <2>2 DEF PrimateljMiran, PodBravom
    <3>2. V \subseteq K  BY <1>1 DEF RazgovorUredan, UpisUredan, Pise, PodBravom
    <3>3. knjiga[x.r] \cup V \in SUBSET Verzije /\ knjiga[x.r] \cup V \subseteq K
      BY <2>1, <2>2, <3>2
    <3>4. Granica(knjiga[x.r] \cup V) \in Nat /\ Granica(knjiga[x.r] \cup V) <= Granica(K)
      BY <2>2, <3>3, GranicaBroj, GranicaUnije
    <3>5. v \in Nema(x.r)  BY <2>5, <3>1, <3>4
    <3> QED  BY <1>1, <3>1, <3>5 DEF ProsirenoPotrebno
  <2>9. OdbijenoPotrebno(u)'
    <3> SUFFICES ASSUME x.faza \in PodBravom \cup {"zapamti"}, PravilomStoji(u)',
                        NEW v \in (L \ knjiga'[x.r]) \ (V \cup ograda'[x.r].odbija),
                        v <= x.upis.odbijeno
                 PROVE  v \in Trazeno'[x.r]
      BY <1>1, <1>2 DEF OdbijenoPotrebno, Nema, PodBravom
    <3>1. v \in Nema(x.r) \ (V \cup ograda[x.r].odbija)  BY <2>1, <2>2, <2>4, <2>5
    <3>2. v \in Trazeno[x.r]  BY <1>1, <2>4, <3>1 DEF OdbijenoPotrebno
    <3> QED  BY <2>2, <2>4, <3>1, <3>2 DEF PrimateljMiran, TrazenoOstaje
  <2> QED  BY <2>6, <2>7, <2>8, <2>9 DEF RazgovorPotreban
<1> QED  BY <1>3, <1>4

-----------------------------------------------------------------------------
(* The whole state *)

\* Ledgers only grow, rules that refuse less have a new generation, and what is
\* needed is still asked for.
OkolinaStoji ==
    /\ AutorDodaje
    /\ \A c \in Cvor :
          /\ knjiga[c] \subseteq knjiga'[c]
          /\ JosOdbija(ograda[c], ograda'[c]) \/ ograda[c].narastaj < ograda'[c].narastaj
          /\ TrazenoOstaje(c)

\* What n remembers to have refused is the same, or forgotten.
OdbijeneIste(n, s) ==
    \/ odbijeneOd'[n][s] = odbijeneOd[n][s]
    \/ /\ odbijeneOd'[n][s].granica = 0
       /\ odbijeneOd'[n][s].ograda \in {odbijeneOd[n][s].ograda, BezOgrade}

LEMMA OdbijeneBrojevi ==
    ASSUME TypeOK, NEW n \in Cvor, NEW s \in Cvor
    PROVE  /\ odbijeneOd[n][s] \in [granica : Granice, ograda : Ograde]
           /\ odbijeneOd[n][s].granica \in Nat /\ odbijeneOd[n][s].ograda.narastaj \in Nat
           /\ ograda[n].narastaj \in Nat
<1>1. odbijeneOd[n][s] \in [granica : Granice, ograda : Ograde] /\ ograda[n] \in Ograde
  BY DEF TypeOK
<1> QED  BY <1>1, RazmjenaPretpostavka DEF Granice, Ograde

LEMMA OdbijeneOstaju ==
    ASSUME IInvPotrebno, TypeOK', OkolinaStoji, NEW n \in Cvor, NEW s \in Cvor,
           OdbijeneIste(n, s)
    PROVE  OdbijeneUredne(n, s)'
<1> DEFINE z == odbijeneOd[n][s]
           y == odbijeneOd'[n][s]
<1>1. TypeOK /\ Poceci /\ OdbijeneUredne(n, s)
  BY DEF IInvPotrebno, IInv, Uredno, Potrebno
<1>2. /\ z.granica \in Nat /\ z.ograda.narastaj \in Nat
      /\ ograda[n].narastaj \in Nat /\ ograda'[n].narastaj \in Nat
  BY <1>1, OdbijeneBrojevi DEF TypeOK, Ograde
<1>3. /\ Autor \in Cvor /\ knjiga[Autor] \in SUBSET Verzije /\ knjiga'[Autor] \in SUBSET Verzije
      /\ knjiga[Autor] \subseteq knjiga'[Autor] /\ AutorDodaje /\ knjiga[n] \subseteq knjiga'[n]
  BY <1>1, KnjigaTip DEF TypeOK, OkolinaStoji
<1>4. /\ Granica(knjiga[Autor]) \in Nat /\ Granica(knjiga'[Autor]) \in Nat
      /\ Granica(knjiga[Autor]) <= Granica(knjiga'[Autor])
      /\ \A v \in knjiga'[Autor] : v \in Nat /\ 0 < v
  BY <1>3, GranicaBroj, GranicaUnije
<1>5. z.granica <= Granica(knjiga[Autor]) /\ z.ograda.narastaj <= ograda[n].narastaj
      /\ Narastajem(z.ograda, ograda[n])
      /\ (JosOdbija(z.ograda, ograda[n]) => TrazenoDo(n, z.granica))
  BY <1>1 DEF OdbijeneUredne
<1>6. /\ JosOdbija(ograda[n], ograda'[n]) \/ ograda[n].narastaj < ograda'[n].narastaj
      /\ ograda[n].narastaj <= ograda'[n].narastaj
  BY <1>2 DEF OkolinaStoji, JosOdbija
<1>7. CASE y = z
  <2>1. ASSUME JosOdbija(y.ograda, ograda'[n]), NEW v \in knjiga'[Autor] \ knjiga'[n],
               v <= y.granica, v \notin ograda'[n].odbija
        PROVE  v \in Trazeno'[n]
    <3>1. /\ JosOdbija(ograda[n], ograda'[n]) /\ ograda[n].odbija \subseteq ograda'[n].odbija
          /\ JosOdbija(z.ograda, ograda[n])
      BY <1>2, <1>5, <1>6, <1>7, <2>1 DEF JosOdbija, Narastajem
    <3>2. v \in knjiga[Autor]  BY <1>1, <1>2, <1>3, <1>5, <1>7, <2>1, NovaJeIznad
    <3>3. v \in Nema(n) \ ograda[n].odbija  BY <1>3, <2>1, <3>1, <3>2 DEF Nema
    <3>4. v \in Trazeno[n]
      BY <1>5, <1>7, <2>1, <3>1, <3>3 DEF TrazenoDo
    <3> QED  BY <2>1, <3>1, <3>3, <3>4 DEF OkolinaStoji, TrazenoOstaje
  <2>2. y.granica <= Granica(knjiga'[Autor]) /\ y.ograda.narastaj <= ograda'[n].narastaj
    BY <1>2, <1>4, <1>5, <1>6, <1>7
  <2>3. Narastajem(y.ograda, ograda'[n])
    BY <1>2, <1>5, <1>6, <1>7 DEF Narastajem, JosOdbija
  <2> QED  BY <2>1, <2>2, <2>3 DEF OdbijeneUredne, TrazenoDo, Nema
<1>8. CASE y.granica = 0 /\ y.ograda \in {z.ograda, BezOgrade}
  <2>1. y.ograda.narastaj <= ograda'[n].narastaj
    BY <1>2, <1>5, <1>6, <1>8 DEF BezOgrade
  <2>2. \A v \in knjiga'[Autor] : ~(v <= y.granica)  BY <1>4, <1>8
  <2>3. y.granica <= Granica(knjiga'[Autor])  BY <1>4, <1>8
  <2>4. Narastajem(y.ograda, ograda'[n])
    BY <1>2, <1>5, <1>6, <1>8 DEF Narastajem, JosOdbija, BezOgrade
  <2> QED  BY <2>1, <2>2, <2>3, <2>4 DEF OdbijeneUredne, TrazenoDo, Nema
<1> QED  BY <1>7, <1>8 DEF OdbijeneIste

\* A step keeps what is needed when it keeps it of the record, of what the nodes
\* remember and of the talk it is a step of.
LEMMA KorakPotreban ==
    ASSUME IInvPotrebno, TypeOK', OkolinaStoji, ZapisOdPocetka', PotrebnoSeTrazi',
           \A n, s \in Cvor : OdbijeneIste(n, s) \/ OdbijeneUredne(n, s)',
           \A u \in Razgovori :
               \/ RazgovorPotreban(u)'
               \/ /\ IstiRazgovor(u)
                  /\ razg[u].faza \in PodBravom =>
                        LET r == razg[u].r IN
                        rupe'[r] = rupe[r] /\ zapisano'[r] = zapisano[r] /\ knjiga'[r] = knjiga[r]
    PROVE  Potrebno'
<1>1. IInv /\ TypeOK /\ \A u \in Razgovori : RazgovorPotreban(u)
  BY DEF IInvPotrebno, IInv, Potrebno
<1>2. ASSUME NEW u \in Razgovori  PROVE RazgovorPotreban(u)'
  <2>1. CASE /\ IstiRazgovor(u)
             /\ razg[u].faza \in PodBravom =>
                   LET r == razg[u].r IN
                   rupe'[r] = rupe[r] /\ zapisano'[r] = zapisano[r] /\ knjiga'[r] = knjiga[r]
    <3>1. razg[u].r \in Cvor  BY <1>1, RazgovorBrojevi
    <3>2. TrazenoOstaje(razg[u].r)  BY <3>1 DEF OkolinaStoji, TrazenoOstaje
    <3>3. PrimateljMiran(u)  BY <2>1, <3>1, <3>2 DEF PrimateljMiran, OkolinaStoji
    <3> QED  BY <1>1, <2>1, <3>3, TudjiPotreban DEF OkolinaStoji
  <2> QED  BY <1>2, <2>1
<1>3. \A n, s \in Cvor : OdbijeneUredne(n, s)'  BY OdbijeneOstaju
<1> QED  BY <1>2, <1>3 DEF Potrebno

\* The same of a step that changes neither ledgers nor records nor rules.
LEMMA TihoPotrebno ==
    ASSUME IInvPotrebno, TypeOK', UNCHANGED <<knjiga, rupe, zapisano, ograda>>,
           \A n, s \in Cvor : OdbijeneIste(n, s) \/ OdbijeneUredne(n, s)',
           \A u \in Razgovori : RazgovorPotreban(u)' \/ IstiRazgovor(u)
    PROVE  Potrebno'
<1>1. ZapisOdPocetka /\ PotrebnoSeTrazi /\ Poceci
  BY DEF IInvPotrebno, IInv, Uredno, Potrebno
<1>2. ZapisOdPocetka' /\ PotrebnoSeTrazi'
  BY <1>1 DEF ZapisOdPocetka, PotrebnoSeTrazi, Nema
<1>3. AutorDodaje  BY DEF AutorDodaje
<1>4. \A c \in Cvor : TrazenoOstaje(c)  BY IstoTrazeno DEF TrazenoOstaje
<1>5. OkolinaStoji  BY <1>3, <1>4 DEF OkolinaStoji, JosOdbija
<1> QED  BY <1>2, <1>5, KorakPotreban

-----------------------------------------------------------------------------
(* The steps of a talk *)

\* Nothing is written before version 1.
LEMMA NistaIspodPrve ==
    ASSUME TypeOK, NEW n
    PROVE  TrazenoDo(n, 0)
<1>1. \A v \in knjiga[Autor] : v \in Nat /\ 0 < v  BY KnjigaTip, GranicaBroj
<1> QED  BY <1>1 DEF TrazenoDo, Nema

LEMMA SlobodanPotreban ==
    ASSUME NEW u \in Razgovori, razg'[u] = Slobodan
    PROVE  RazgovorPotreban(u)'
<1>1. razg'[u].faza = "nema"  BY DEF Slobodan
<1> QED
  BY <1>1 DEF RazgovorPotreban, MojeUredno, UpisPotreban, ProsirenoPotrebno,
     OdbijenoPotrebno, Pise, PodBravom

\* A talk that writes nothing yet, or no longer, needs only what it read.
LEMMA NePisePotreban ==
    ASSUME IInvPotrebno, TypeOK', NEW t \in Razgovori,
           UNCHANGED <<knjiga, rupe, zapisano, ograda, odbijeneOd>>,
           \A u \in Razgovori \ {t} : razg'[u] = razg[u],
           razg'[t].faza \in {"pocetak", "delta", "zelje"}, MojeUredno(t)'
    PROVE  Potrebno'
<1>1. RazgovorPotreban(t)'
  BY DEF RazgovorPotreban, UpisPotreban, ProsirenoPotrebno, OdbijenoPotrebno, Pise, PodBravom
<1>2. \A u \in Razgovori \ {t} : IstiRazgovor(u)  BY DEF IstiRazgovor
<1>3. \A n, s \in Cvor : OdbijeneIste(n, s)  BY DEF OdbijeneIste
<1> QED  BY <1>1, <1>2, <1>3, TihoPotrebno

\* What a talk read of refusals stays as it was.
LEMMA MojeOstaje ==
    ASSUME IInvPotrebno, NEW t \in Razgovori, razg[t].faza # "nema",
           UNCHANGED <<knjiga, rupe, zapisano, ograda>>,
           razg'[t].r = razg[t].r, razg'[t].prima.moje = razg[t].prima.moje,
           razg'[t].prima.ograda = razg[t].prima.ograda,
           razg'[t].upis.odbijeno = razg[t].upis.odbijeno
    PROVE  MojeUredno(t)'
<1>1. TypeOK /\ MojeUredno(t) /\ razg[t].r \in Cvor
  BY RazgovorBrojevi DEF IInvPotrebno, IInv, Potrebno, RazgovorPotreban
<1>2. Trazeno'[razg[t].r] = Trazeno[razg[t].r]
  <2>1. \A n \in Cvor : Trazeno'[n] = Trazeno[n]  BY IstoTrazeno
  <2> QED  BY <1>1, <2>1
<1> QED  BY <1>1, <1>2 DEF MojeUredno, TrazenoDo, PravilomStoji, Nema

\* The start of a talk and its delta. The record of refusals is read together
\* with the rule, and used only when the rule still refuses as much
\* (granica_odbijenih.go).
LEMMA PocetakPotreban ==
    ASSUME IInvPotrebno, TypeOK', NEW t \in Razgovori,
           \/ \E v \in Veze : Zapocni(t, v[1], v[2])
           \/ GranicaPosiljatelja(t) \/ RupePosiljatelja(t)
           \/ GranicaPrimatelja(t) \/ RupePrimatelja(t) \/ SloziDeltu(t)
    PROVE  Potrebno'
<1> DEFINE x == razg[t]
<1>1. TypeOK /\ x \in RazgovorTip /\ x.r \in Cvor /\ x.s \in Cvor
      /\ x.prima \in PrimaTip /\ x.upis \in UpisTip /\ x.salje \in SaljeTip
      /\ MojeUredno(t)
  BY RazgovorBrojevi, DijeloviTip DEF IInvPotrebno, IInv, Potrebno, RazgovorPotreban
<1>2. UNCHANGED <<knjiga, rupe, zapisano, ograda, odbijeneOd>>
  BY DEF Zapocni, GranicaPosiljatelja, RupePosiljatelja, GranicaPrimatelja,
     RupePrimatelja, SloziDeltu, trajno, postavke, pamcenje
<1>3. CASE \E v \in Veze : Zapocni(t, v[1], v[2])
  <2>1. PICK v \in Veze : Zapocni(t, v[1], v[2])  BY <1>3
  <2> DEFINE novi == [Slobodan EXCEPT !.faza = "pocetak", !.s = v[1], !.r = v[2]]
  <2>2. Nastavi(t, novi)  BY <2>1 DEF Zapocni
  <2>3. razg'[t] = novi /\ \A u \in Razgovori \ {t} : razg'[u] = razg[u]
    BY <1>1, <2>2 DEF Nastavi, TypeOK
  <2>4. /\ razg'[t].faza = "pocetak" /\ razg'[t].prima.moje = 0 /\ razg'[t].upis.odbijeno = 0
        /\ razg'[t].prima.ograda = BezOgrade
    BY <2>3 DEF Slobodan, PocetakPrimatelja, PrazanUpis
  <2>5. Granica(knjiga'[Autor]) \in Nat /\ \A v1 \in knjiga'[Autor] : v1 \in Nat /\ 0 < v1
    BY <1>1, <1>2, KnjigaTip, GranicaBroj
  <2>6. MojeUredno(t)'
    BY <2>4, <2>5 DEF MojeUredno, TrazenoDo, Nema, Narastajem, JosOdbija, BezOgrade
  <2> QED  BY <1>2, <2>3, <2>4, <2>6, NePisePotreban
<1>4. CASE GranicaPosiljatelja(t) \/ RupePosiljatelja(t) \/ GranicaPrimatelja(t)
  <2>1. x.faza = "pocetak"
    BY <1>4 DEF GranicaPosiljatelja, RupePosiljatelja, GranicaPrimatelja
  <2>2. PICK sa, pr : /\ Nastavi(t, [x EXCEPT !.salje = sa, !.prima = pr])
                      /\ pr.moje = x.prima.moje /\ pr.ograda = x.prima.ograda
    <3>1. CASE GranicaPosiljatelja(t) \/ RupePosiljatelja(t)
      <4>1. \E sa : Nastavi(t, [x EXCEPT !.salje = sa])
        BY <3>1 DEF GranicaPosiljatelja, RupePosiljatelja
      <4>2. \A sa : [x EXCEPT !.salje = sa] = [x EXCEPT !.salje = sa, !.prima = x.prima]
        BY <1>1 DEF RazgovorTip
      <4> QED  BY <4>1, <4>2
    <3>2. CASE GranicaPrimatelja(t)
      <4> DEFINE pr == [x.prima EXCEPT !.korak = 1, !.fs = Granica(knjiga[x.r])]
      <4>1. Nastavi(t, [x EXCEPT !.prima = pr])  BY <3>2 DEF GranicaPrimatelja
      <4>2. pr.moje = x.prima.moje /\ pr.ograda = x.prima.ograda  BY <1>1 DEF PrimaTip
      <4> HIDE DEF pr
      <4>3. [x EXCEPT !.prima = pr] = [x EXCEPT !.salje = x.salje, !.prima = pr]
        BY <1>1 DEF RazgovorTip
      <4> QED  BY <4>1, <4>2, <4>3
    <3> QED  BY <1>4, <3>1, <3>2
  <2> DEFINE novi == [x EXCEPT !.salje = sa, !.prima = pr]
  <2>3. razg'[t] = novi /\ \A u \in Razgovori \ {t} : razg'[u] = razg[u]
    BY <1>1, <2>2 DEF Nastavi, TypeOK
  <2>4. /\ razg'[t].faza = x.faza /\ razg'[t].r = x.r /\ razg'[t].prima = pr
        /\ razg'[t].upis = x.upis
    BY <1>1, <2>3 DEF RazgovorTip
  <2> HIDE DEF novi
  <2>5. MojeUredno(t)'  BY <1>2, <2>1, <2>2, <2>4, MojeOstaje
  <2> QED  BY <1>2, <2>1, <2>3, <2>4, <2>5, NePisePotreban
<1>5. CASE RupePrimatelja(t)
  <2> DEFINE z == odbijeneOd[x.r][x.s]
             moje == IF JosOdbija(z.ograda, ograda[x.r]) /\ z.granica > x.prima.fs
                     THEN z.granica ELSE 0
             pr == [x.prima EXCEPT !.korak = 2, !.moje = moje, !.ograda = ograda[x.r],
                                   !.trazi = RupeNaPocetku(x.r).trazi,
                                   !.zapisati = Sire(x.r) \/ Virtualno(x.r)]
             novi == [x EXCEPT !.prima = pr]
  <2>1. x.faza = "pocetak" /\ Nastavi(t, novi)  BY <1>5 DEF RupePrimatelja
  <2>2. pr.moje = moje /\ pr.ograda = ograda[x.r]  BY <1>1 DEF PrimaTip
  <2> HIDE DEF pr, moje
  <2>3. razg'[t] = novi /\ \A u \in Razgovori \ {t} : razg'[u] = razg[u]
    BY <1>1, <2>1 DEF Nastavi, TypeOK
  <2>4. /\ razg'[t].faza = "pocetak" /\ razg'[t].r = x.r /\ razg'[t].prima = pr
        /\ razg'[t].upis = x.upis
    BY <1>1, <2>1, <2>3 DEF RazgovorTip
  <2>5. OdbijeneUredne(x.r, x.s)  BY <1>1 DEF IInvPotrebno, Potrebno
  <2>6. moje <= Granica(knjiga[Autor]) /\ TrazenoDo(x.r, moje)
    <3>1. CASE moje = 0
      BY <1>1, <3>1, KnjigaTip, NistaIspodPrve
    <3>2. CASE moje # 0
      BY <2>5, <3>2 DEF OdbijeneUredne, moje
    <3> QED  BY <3>1, <3>2
  <2>7. Trazeno'[x.r] = Trazeno[x.r]
    <3>1. \A n \in Cvor : Trazeno'[n] = Trazeno[n]  BY <1>2, IstoTrazeno
    <3> QED  BY <1>1, <3>1
  <2>8. x.upis.odbijeno <= Granica(knjiga[Autor])  BY <1>1, <2>1 DEF MojeUredno
  <2>9. MojeUredno(t)'
    BY <1>2, <2>2, <2>4, <2>6, <2>7, <2>8
    DEF MojeUredno, TrazenoDo, Nema, Narastajem, JosOdbija
  <2> HIDE DEF novi
  <2> QED  BY <1>2, <2>3, <2>4, <2>9, NePisePotreban
<1>6. CASE SloziDeltu(t)
  <2>1. x.faza = "pocetak"  BY <1>6 DEF SloziDeltu
  <2>2. PICK d : Nastavi(t, [x EXCEPT !.faza = "delta", !.delta = d,
                                      !.salje = PocetakPosiljatelja])
    BY <1>6 DEF SloziDeltu
  <2>3. /\ razg'[t] = [x EXCEPT !.faza = "delta", !.delta = d, !.salje = PocetakPosiljatelja]
        /\ \A u \in Razgovori \ {t} : razg'[u] = razg[u]
    BY <1>1, <2>2 DEF Nastavi, TypeOK
  <2>4. /\ razg'[t].faza = "delta" /\ razg'[t].r = x.r /\ razg'[t].prima = x.prima
        /\ razg'[t].upis = x.upis
    BY <1>1, <2>3 DEF RazgovorTip
  <2>5. MojeUredno(t)'  BY <1>2, <2>1, <2>4, MojeOstaje
  <2> QED  BY <1>2, <2>3, <2>4, <2>5, NePisePotreban
<1> QED  BY <1>3, <1>4, <1>5, <1>6

\* A talk that ends leaves the rest.
LEMMA KrajPotreban ==
    ASSUME IInvPotrebno, TypeOK', NEW t \in Razgovori,
           \/ NePrati(t) \/ ZapamtiUvoz(t)
           \/ BravaNijeStigla(t) \/ Prekid(t) \/ UpisPao(t)
    PROVE  Potrebno'
<1>1. TypeOK  BY DEF IInvPotrebno, IInv
<1>2. Zavrsi({t}) /\ UNCHANGED <<knjiga, rupe, zapisano, ograda, odbijeneOd>>
  BY DEF NePrati, ZapamtiUvoz, BravaNijeStigla, Prekid, UpisPao, trajno, postavke, pamcenje
<1>3. \A u \in Razgovori : razg'[u] = IF u = t THEN Slobodan ELSE razg[u]
  BY <1>1, <1>2, ZavrsiTip
<1>4. RazgovorPotreban(t)'  BY <1>3, SlobodanPotreban
<1>5. \A u \in Razgovori \ {t} : IstiRazgovor(u)  BY <1>3 DEF IstiRazgovor
<1>6. \A n, s \in Cvor : OdbijeneIste(n, s)  BY <1>2 DEF OdbijeneIste
<1> QED  BY <1>2, <1>4, <1>5, <1>6, TihoPotrebno

\* What the receiver decides to write: what it passes over or takes for covered,
\* and would keep, the sender said to be uncertain (rupe.go, promjenaRupa).
LEMMA OdlukaPotrebna ==
    ASSUME IInvPotrebno, NEW t \in Razgovori, razg[t].faza = "delta"
    PROVE  LET x == razg[t]
               u == OdlukaZaUpis(x)
               p == u.promjena
           IN /\ u.odbijeno <= Granica(knjiga[Autor])
              /\ \A v \in Nema(x.r) \ (u.verzije \cup ograda[x.r].odbija) :
                    /\ v \in Clanovi(p.redovno) \cup Clanovi(p.popuna) => v \in Clanovi(p.nesigurno)
                    /\ v \in Clanovi(p.redovno) => p.fs < v
                    /\ v <= Veci(Granica(u.verzije), u.odbijeno) =>
                          v <= p.fs \/ v <= x.prima.moje \/ v \in Clanovi(p.redovno)
<1> DEFINE x == razg[t]
           u == OdlukaZaUpis(x)
           K == knjiga[Autor]
           D == x.delta.verzije
           fs == x.prima.fs
           moje == x.prima.moje
           bacio == Bacio(x)
           wanted == D \ bacio
           m == Granica(wanted \cup bacio)
           vp == ValjanaPopuna(x)
           o == OdbijenoKljuca(x, wanted, bacio)
           nes == Presjek(x.delta.rupe, Raspon(0, Veci(m, vp.do)))
           red == Cist(Raspon(Veci(fs, moje), m))
<1>1. TypeOK /\ RazgovorUredan(t) /\ x.r \in Cvor
  BY RazgovorBrojevi DEF IInvPotrebno, IInv, Uredno
<1>2. D \subseteq K /\ x.delta.od <= Veci(fs, moje) /\ Jamci(x.delta)
  BY <1>1 DEF RazgovorUredan, DeltaUredna
<1>3. K \in SUBSET Verzije /\ D \in SUBSET Verzije /\ Granica(K) \in Nat
  BY <1>1, KnjigaTip, RazgovorBrojevi
<1>4. bacio \subseteq D /\ wanted \cup bacio = D /\ bacio = D \cap ograda[x.r].odbija
  BY DEF Bacio
<1>5. /\ m = Granica(D) /\ m \in Nat /\ m <= Granica(K) /\ m \in Oznake
      /\ Granica(wanted) \in Nat /\ Granica(wanted) <= m
      /\ Granica(bacio) \in Nat /\ Granica(bacio) <= m
  <2>1. m = Granica(D)  BY <1>4
  <2>2. wanted \in SUBSET Verzije /\ bacio \in SUBSET Verzije /\ wanted \subseteq D
    BY <1>3, <1>4
  <2>3. Granica(D) \in Nat /\ Granica(D) <= Granica(K) /\ Granica(D) \in Oznake
    BY <1>2, <1>3, GranicaBroj, GranicaUnije, GranicaTip, OznakeTip
  <2> HIDE DEF wanted, bacio
  <2>4. /\ Granica(wanted) \in Nat /\ Granica(wanted) <= Granica(D)
        /\ Granica(bacio) \in Nat /\ Granica(bacio) <= Granica(D)
    BY <1>3, <1>4, <2>2, GranicaBroj, GranicaUnije
  <2> QED  BY <2>1, <2>3, <2>4
<1>6. fs \in Nat /\ moje \in Nat
      /\ x.delta.od \in Nat /\ x.delta.rupe \in Rasponi /\ x.delta.popuna \in Rasponi
  BY <1>1, RazgovorBrojevi
<1>7. \A v \in K : v \in Nat /\ 0 < v /\ v \in Oznake
  <2>1. \A v \in Verzije : v \in Oznake  BY OznakeTip
  <2> QED  BY <1>3, <2>1, GranicaBroj
<1>8. Granica({}) = 0  BY DEF Granica
<1>9. CASE u.promjena = PraznaPromjena /\ u.verzije = {} /\ u.odbijeno = 0
  <2>1. Clanovi(Prazno) = {}
    BY BeskrajPretpostavka DEF Clanovi, Prazno, Raspon, Oznake
  <2>2. u.promjena.redovno = Prazno /\ u.promjena.popuna = Prazno
    BY <1>9 DEF PraznaPromjena
  <2>3. Veci(Granica(u.verzije), u.odbijeno) = 0  BY <1>8, <1>9 DEF Veci
  <2>4. \A v \in Nema(x.r) : ~(v <= 0)  BY <1>7 DEF Nema
  <2> HIDE DEF u, x
  <2>5. u.odbijeno <= Granica(knjiga[Autor])  BY <1>3, <1>9
  <2> QED  BY <2>1, <2>2, <2>3, <2>4, <2>5 DEF u, x
<1>10. CASE /\ u.verzije = wanted /\ u.odbijeno = Granica(bacio)
            /\ u.promjena = [odbijeno |-> o, uTrazi |-> Prazno, nesigurno |-> nes,
                             redovno |-> red, popuna |-> vp, fs |-> fs]
  <2>1. vp \in Rasponi /\ vp.do \in Nat /\ vp.do \in Oznake
        /\ Clanovi(vp) \subseteq Clanovi(x.delta.popuna)
    <3>1. Prazno.do = 0 /\ Clanovi(Prazno) = {} /\ 0 \in Oznake /\ Prazno \in Rasponi
      BY BeskrajPretpostavka, OznakeTip DEF Prazno, Raspon, Clanovi, Oznake
    <3>2. x.delta.popuna.do \in Oznake /\ Oznake \subseteq Nat
      BY <1>6, BeskrajPretpostavka DEF Rasponi, Oznake
    <3>3. vp = Prazno \/ vp = x.delta.popuna  BY DEF ValjanaPopuna
    <3> QED  BY <1>6, <3>1, <3>2, <3>3
  <2> HIDE DEF vp, m, o
  <2>2. Clanovi(nes) = Clanovi(x.delta.rupe) \cap Clanovi(Raspon(0, Veci(m, vp.do)))
    <3>1. Veci(m, vp.do) \in Oznake /\ 0 \in Oznake  BY <1>5, <2>1, OznakeTip
    <3>2. Raspon(0, Veci(m, vp.do)) \in Rasponi  BY <3>1, OznakeTip
    <3> QED  BY <1>6, <3>2, PresjekTocan
  <2>3. ASSUME NEW v \in K \ (wanted \cup ograda[x.r].odbija), v \in D \cup Clanovi(x.delta.rupe),
               v <= m \/ v <= vp.do
        PROVE  v \in Clanovi(nes)
    <3>1. v \in Clanovi(x.delta.rupe)  BY <1>4, <2>3
    <3>2. v \in Clanovi(Raspon(0, Veci(m, vp.do)))
      BY <1>5, <1>7, <2>1, <2>3 DEF Raspon, Clanovi, Veci
    <3> QED  BY <2>2, <3>1, <3>2
  <2>4. ASSUME NEW v \in K \ (wanted \cup ograda[x.r].odbija), v \in Clanovi(red)
        PROVE  v \in Clanovi(nes) /\ fs < v
    <3>1. v \in Nat /\ Veci(fs, moje) < v /\ v <= m
      BY <1>5, <1>6, <1>7, <2>4 DEF Cist, Prazan, Prazno, Raspon, Clanovi
    <3>2. x.delta.od < v /\ fs < v  BY <1>2, <1>6, <3>1 DEF Veci
    <3>3. v \in D \cup Clanovi(x.delta.rupe)  BY <1>2, <1>5, <3>1, <3>2 DEF Jamci
    <3> QED  BY <2>3, <3>1, <3>2, <3>3
  <2>5. ASSUME NEW v \in K \ (wanted \cup ograda[x.r].odbija), v \in Clanovi(vp)
        PROVE  v \in Clanovi(nes)
    <3>1. v \in D \cup Clanovi(x.delta.rupe)  BY <1>2, <2>1, <2>5 DEF Jamci
    <3>2. v <= vp.do  BY <2>5 DEF Clanovi
    <3> QED  BY <2>3, <3>1, <3>2
  <2>6. ASSUME NEW v \in K, v <= Veci(Granica(wanted), Granica(bacio)),
               ~(v <= fs), ~(v <= moje)
        PROVE  v \in Clanovi(red)
    <3>1. v \in Nat /\ v \in Oznake /\ v <= m /\ Veci(fs, moje) < v
      BY <1>5, <1>6, <1>7, <2>6 DEF Veci
    <3>2. Veci(fs, moje) \in Nat  BY <1>6 DEF Veci
    <3> QED  BY <1>5, <3>1, <3>2 DEF Cist, Prazan, Raspon, Clanovi
  <2>7. Granica(bacio) <= Granica(K)  BY <1>3, <1>5
  <2>8. \A v \in Nema(x.r) : v \in K  BY DEF Nema
  <2> HIDE DEF nes, red, u, K, wanted, fs, moje, bacio, x
  <2>9. /\ u.promjena.nesigurno = nes /\ u.promjena.redovno = red
        /\ u.promjena.popuna = vp /\ u.promjena.fs = fs /\ u.verzije = wanted
        /\ u.odbijeno = Granica(bacio)
    BY <1>10
  <2>10. \A v \in Nema(x.r) \ (u.verzije \cup ograda[x.r].odbija) :
            /\ v \in Clanovi(u.promjena.redovno) \cup Clanovi(u.promjena.popuna)
                  => v \in Clanovi(u.promjena.nesigurno)
            /\ v \in Clanovi(u.promjena.redovno) => u.promjena.fs < v
            /\ v <= Veci(Granica(u.verzije), u.odbijeno) =>
                  v <= u.promjena.fs \/ v <= moje \/ v \in Clanovi(u.promjena.redovno)
    BY <2>4, <2>5, <2>6, <2>8, <2>9
  <2>11. u.odbijeno <= Granica(knjiga[Autor])  BY <2>7, <2>9 DEF K
  <2> QED  BY <2>10, <2>11 DEF u, x, moje
<1>11. CASE Preskoceno(x)
  <2>1. u = [PrazanUpis EXCEPT !.pravilo = x.prima.zapisati]
    BY <1>11 DEF OdlukaZaUpis
  <2> QED  BY <1>9, <2>1 DEF PrazanUpis
<1>12. CASE ~Preskoceno(x)
  <2>1. u = [verzije |-> wanted, promjena |-> PromjenaRupa(x, wanted, bacio),
             pravilo |-> x.prima.zapisati, odbijeno |-> Granica(bacio),
             popunjava |-> FALSE]
    BY <1>12 DEF OdlukaZaUpis
  <2>2. u.verzije = wanted /\ u.promjena = PromjenaRupa(x, wanted, bacio)
        /\ u.odbijeno = Granica(bacio)
    BY <2>1
  <2>3. \/ wanted \cup bacio = {} /\ PromjenaRupa(x, wanted, bacio) = PraznaPromjena
        \/ PromjenaRupa(x, wanted, bacio)
              = [odbijeno |-> o, uTrazi |-> Prazno, nesigurno |-> nes,
                 redovno |-> red, popuna |-> vp, fs |-> fs]
    BY DEF PromjenaRupa
  <2>4. wanted \cup bacio = {} => wanted = {} /\ bacio = {}  OBVIOUS
  <2> HIDE DEF u, o, nes, red, vp, fs, wanted, bacio
  <2> QED  BY <1>8, <1>9, <1>10, <2>2, <2>3, <2>4
<1> QED  BY <1>11, <1>12

\* A talk that has nothing to write asks already for what it would pass over
\* (upis.go, nista).
LEMMA NistaTrazi ==
    ASSUME IInvPotrebno, NEW t \in Razgovori, razg[t].faza = "delta", PravilomStoji(t),
           Nista(OdlukaZaUpis(razg[t]), razg[t].prima.trazi),
           NEW v \in Nema(razg[t].r) \ ograda[razg[t].r].odbija,
           v <= OdlukaZaUpis(razg[t]).odbijeno
    PROVE  v \in Trazeno[razg[t].r]
<1> DEFINE x == razg[t]
           u == OdlukaZaUpis(x)
           p == u.promjena
<1>1. /\ TypeOK /\ IInv /\ RazgovorUredan(t) /\ MojeUredno(t) /\ x.r \in Cvor
      /\ x \in RazgovorTip
  BY RazgovorBrojevi DEF IInvPotrebno, IInv, Uredno, Potrebno, RazgovorPotreban
<1>2. x.r \in Primatelji  BY <1>1 DEF RazgovorUredan, PrimaUredno
<1>3. /\ p.fs <= Granica(knjiga[x.r])
      /\ \A w \in Nema(x.r) \ (u.verzije \cup ograda[x.r].odbija) :
            /\ w \in Clanovi(p.redovno) \cup Clanovi(p.popuna) => w \in Clanovi(p.nesigurno)
            /\ w \in Clanovi(p.redovno) => p.fs < w
            /\ w <= Veci(Granica(u.verzije), u.odbijeno) =>
                  w <= p.fs \/ w <= x.prima.moje \/ w \in Clanovi(p.redovno)
  BY <1>1, OdlukaUredna, OdlukaPotrebna
<1>4. u \in UpisTip /\ p \in PromjeneKljuca /\ x.prima.trazi \in Rasponi
      /\ u.odbijeno \in Nat /\ p.fs \in Nat
  <2>1. u \in UpisTip  BY <1>1, OdlukaTip
  <2>2. x.prima.trazi \in Rasponi  BY <1>1, RazgovorBrojevi
  <2> HIDE DEF u
  <2> QED  BY <2>1, <2>2, RazmjenaPretpostavka, BeskrajPretpostavka
        DEF UpisTip, Granice, PromjeneKljuca, Oznake
<1>5. u.verzije = {} /\ Prazan(Nedostaje(p, x.prima.trazi))
  BY DEF Nista, MijenjaTrazi
<1>6. Granica({}) = 0 /\ Granica(knjiga[x.r]) \in Nat /\ v \in Nat
  <2>1. Granica({}) = 0  BY DEF Granica
  <2>2. v \in Nat  BY <1>1, KnjigaTip, GranicaBroj DEF Nema
  <2> QED  BY <1>1, <2>1, <2>2, KnjigaTip
<1>7. v <= u.odbijeno  OBVIOUS
<1>8. v \in Nema(x.r) \ ograda[x.r].odbija  OBVIOUS
<1> HIDE DEF u, p, x
<1>9. v <= Veci(Granica(u.verzije), u.odbijeno)
  BY <1>4, <1>5, <1>6, <1>7 DEF Veci
<1>10. v <= p.fs \/ v <= x.prima.moje \/ v \in Clanovi(p.redovno)
  BY <1>3, <1>5, <1>8, <1>9
<1>11. CASE v <= p.fs
  <2>1. v <= Granica(knjiga[x.r])  BY <1>3, <1>4, <1>6, <1>11
  <2>2. TrazenoDo(x.r, Granica(knjiga[x.r]))  BY <1>2, GranicaTrazena
  <2> QED  BY <1>8, <2>1, <2>2 DEF TrazenoDo, x
<1>12. CASE v <= x.prima.moje
  <2>1. TrazenoDo(x.r, x.prima.moje)  BY <1>1 DEF MojeUredno, x
  <2> QED  BY <1>8, <1>12, <2>1 DEF TrazenoDo, x
<1>13. CASE v \in Clanovi(p.redovno)
  <2>1. v \in Clanovi(p.nesigurno) /\ p.fs < v  BY <1>3, <1>5, <1>8, <1>13
  <2>2. v \in Clanovi(Nedostaje(p, x.prima.trazi)) /\ Nedostaje(p, x.prima.trazi) \in Rasponi
    BY <1>4, <2>1, NedostajeSve
  <2>3. \A a \in Rasponi : Prazan(a) => Clanovi(a) = {}
    BY BeskrajPretpostavka DEF Prazan, Clanovi, Rasponi, Oznake
  <2> QED  BY <1>5, <2>2, <2>3
<1> QED  BY <1>10, <1>11, <1>12, <1>13

\* The receiver decides what to write.
LEMMA OdlucenoPotrebno ==
    ASSUME IInvPotrebno, TypeOK', NEW t \in Razgovori, Odluci(t)
    PROVE  Potrebno'
<1> DEFINE x == razg[t]
           u == OdlukaZaUpis(x)
           f == IF Nista(u, x.prima.trazi) THEN "zapamti" ELSE "brava"
           d == [PraznaDelta EXCEPT !.verzije = x.delta.verzije]
           novi == [x EXCEPT !.faza = f, !.delta = d, !.upis = u]
<1>1. /\ TypeOK /\ MojeUredno(t) /\ x.faza = "delta" /\ x \in RazgovorTip /\ x.r \in Cvor
      /\ UNCHANGED <<knjiga, rupe, zapisano, ograda>>
  BY RazgovorBrojevi
  DEF IInvPotrebno, IInv, Potrebno, RazgovorPotreban, Odluci, trajno, postavke
<1>2. Nastavi(t, novi)  BY DEF Odluci
<1>3. f \in {"zapamti", "brava"} /\ (f = "zapamti" => Nista(u, x.prima.trazi))  OBVIOUS
<1>4. /\ u.odbijeno <= Granica(knjiga[Autor])
      /\ \A v \in Nema(x.r) \ (u.verzije \cup ograda[x.r].odbija) :
            /\ v \in Clanovi(u.promjena.redovno) \cup Clanovi(u.promjena.popuna)
                  => v \in Clanovi(u.promjena.nesigurno)
            /\ v \in Clanovi(u.promjena.redovno) => u.promjena.fs < v
            /\ v <= Veci(Granica(u.verzije), u.odbijeno) =>
                  v <= u.promjena.fs \/ v <= x.prima.moje \/ v \in Clanovi(u.promjena.redovno)
  BY <1>1, OdlukaPotrebna
<1>5. PravilomStoji(t) /\ Nista(u, x.prima.trazi) =>
          \A v \in Nema(x.r) \ ograda[x.r].odbija :
              v <= u.odbijeno => v \in Trazeno[x.r]
  BY <1>1, NistaTrazi
<1>6. \A n, s \in Cvor : OdbijeneIste(n, s)
  <2>1. CASE Preskoceno(x)
    <3>1. odbijeneOd' = [odbijeneOd EXCEPT ![x.r][x.s] = [@ EXCEPT !.granica = 0]]
      BY <2>1 DEF Odluci
    <3>2. \A n, s \in Cvor : odbijeneOd[n][s] \in [granica : Granice, ograda : Ograde]
      BY <1>1, OdbijeneBrojevi
    <3>3. odbijeneOd \in [Cvor -> [Cvor -> [granica : Granice, ograda : Ograde]]]
      BY <1>1 DEF TypeOK
    <3> HIDE DEF x
    <3>4. \A n, s \in Cvor :
             odbijeneOd'[n][s] \in {odbijeneOd[n][s], [odbijeneOd[n][s] EXCEPT !.granica = 0]}
      BY <3>1, <3>3
    <3> QED  BY <3>2, <3>4 DEF OdbijeneIste
  <2>2. CASE ~Preskoceno(x)
    BY <2>2 DEF Odluci, OdbijeneIste
  <2> QED  BY <2>1, <2>2
<1> HIDE DEF f, d, u
<1>7. razg'[t] = novi /\ \A c \in Razgovori \ {t} : razg'[c] = razg[c]
  BY <1>1, <1>2 DEF Nastavi, TypeOK
<1>8. /\ razg'[t].faza = f /\ razg'[t].r = x.r /\ razg'[t].prima = x.prima
      /\ razg'[t].upis = u
  BY <1>1, <1>7 DEF RazgovorTip
<1> HIDE DEF novi
<1>9. Trazeno'[x.r] = Trazeno[x.r]
  <2>1. \A n \in Cvor : Trazeno'[n] = Trazeno[n]  BY <1>1, IstoTrazeno
  <2> QED  BY <1>1, <2>1
<1>10. PravilomStoji(t)' = PravilomStoji(t)  BY <1>1, <1>8 DEF PravilomStoji
<1> HIDE DEF x
<1>11. MojeUredno(t)'
  BY <1>1, <1>4, <1>8, <1>9, <1>10 DEF MojeUredno, TrazenoDo, Nema, x
<1>12. UpisPotreban(t)'
  BY <1>1, <1>4, <1>8, <1>10 DEF UpisPotreban, Nema, x
<1>13. OdbijenoPotrebno(t)'
  <2>0. f = "zapamti" => u.verzije = {}  BY <1>3 DEF Nista
  <2>1. CASE f = "zapamti" /\ PravilomStoji(t)
    BY <1>1, <1>3, <1>5, <1>8, <1>9, <2>0, <2>1 DEF OdbijenoPotrebno, Nema, x
  <2>2. CASE f = "brava" \/ ~PravilomStoji(t)
    BY <1>3, <1>8, <1>10, <2>0, <2>2 DEF OdbijenoPotrebno, PodBravom
  <2> QED  BY <1>3, <2>1, <2>2
<1>14. ProsirenoPotrebno(t)'
  BY <1>3, <1>8 DEF ProsirenoPotrebno
<1>15. RazgovorPotreban(t)'
  BY <1>11, <1>12, <1>13, <1>14 DEF RazgovorPotreban
<1>16. \A c \in Razgovori \ {t} : IstiRazgovor(c)  BY <1>7 DEF IstiRazgovor
<1> QED  BY <1>1, <1>6, <1>15, <1>16, TihoPotrebno

-----------------------------------------------------------------------------
(* The record of gaps *)

\* A transaction on the record that goes on asking for what is needed leaves
\* it asked for everywhere (rupe_baza.go, uskladiPravilo).
LEMMA ZapisPotreban ==
    ASSUME IInvPotrebno, TypeOK', NEW n \in Primatelji, NEW novo,
           PromijeniRupe(n, UskladjenoPravilo(n), novo), ZapisTrazi(n, novo),
           UNCHANGED <<knjiga, ograda, odbijeneOd>>,
           \A u \in Razgovori :
               \/ RazgovorPotreban(u)'
               \/ IstiRazgovor(u) /\ (razg[u].faza \in PodBravom => razg[u].r # n)
    PROVE  Potrebno'
<1>1. TypeOK /\ ZapisOdPocetka /\ PotrebnoSeTrazi /\ n \in Cvor
  BY DEF IInvPotrebno, IInv, Potrebno, Primatelji
<1>2. /\ rupe'[n] = novo /\ Clanovi(novo.trazi) \subseteq Trazeno'[n]
      /\ zapisano'[n].ima /\ zapisano'[n].odbija = ograda[n].odbija
      /\ \A c \in Cvor : c # n => rupe'[c] = rupe[c] /\ zapisano'[c] = zapisano[c]
                                  /\ Trazeno'[c] = Trazeno[c]
  BY <1>1, ZapisanoTrazeno
<1>3. \A c \in Primatelji : c \in Cvor  BY DEF Primatelji
<1>4. ZapisOdPocetka'
  BY <1>1, <1>2, <1>3 DEF ZapisOdPocetka
<1>5. TrazenoDo(n, Granica(knjiga[n]))  BY GranicaTrazena
<1>6. PotrebnoSeTrazi'
  <2> SUFFICES ASSUME NEW c \in Primatelji, NEW v \in Nema(c), v <= Granica(knjiga[c]),
                      zapisano'[c].ima, v \notin zapisano'[c].odbija
               PROVE  v \in Clanovi(rupe'[c].trazi)
    BY DEF PotrebnoSeTrazi, Nema
  <2>1. CASE c = n
    BY <1>2, <1>5, <2>1 DEF TrazenoDo, ZapisTrazi
  <2>2. CASE c # n
    BY <1>1, <1>2, <1>3, <2>2 DEF PotrebnoSeTrazi
  <2> QED  BY <2>1, <2>2
<1>7. ASSUME NEW c \in Cvor  PROVE TrazenoOstaje(c)
  <2>1. CASE c = n
    BY <1>2, <2>1 DEF TrazenoOstaje, ZapisTrazi
  <2>2. CASE c # n
    BY <1>2, <2>2 DEF TrazenoOstaje
  <2> QED  BY <2>1, <2>2
<1>8. OkolinaStoji  BY <1>7 DEF OkolinaStoji, AutorDodaje, JosOdbija
<1>9. \A u \in Razgovori :
         \/ RazgovorPotreban(u)'
         \/ /\ IstiRazgovor(u)
            /\ razg[u].faza \in PodBravom =>
                  LET r == razg[u].r IN
                  rupe'[r] = rupe[r] /\ zapisano'[r] = zapisano[r] /\ knjiga'[r] = knjiga[r]
  BY <1>1, <1>2, RazgovorBrojevi
<1>10. \A c, s \in Cvor : OdbijeneIste(c, s)  BY DEF OdbijeneIste
<1> QED  BY <1>4, <1>6, <1>8, <1>9, <1>10, KorakPotreban

\* A program that just started records its rule.
LEMMA PripremljenoPotrebno ==
    ASSUME IInvPotrebno, TypeOK', NEW n \in Primatelji, PripremiRupe(n)
    PROVE  Potrebno'
<1>1. TypeOK /\ ZapisOdPocetka /\ n \in Cvor
  BY DEF IInvPotrebno, IInv, Potrebno, Primatelji
<1>2. ZapisTrazi(n, UskladjenoPravilo(n))  BY <1>1, UskladjenoTrazi DEF ZapisTrazi
<1>3. /\ PromijeniRupe(n, UskladjenoPravilo(n), UskladjenoPravilo(n))
      /\ UNCHANGED <<knjiga, ograda, odbijeneOd, razg>>
  BY DEF PripremiRupe, postavke, pamcenje
<1>4. \A u \in Razgovori : IstiRazgovor(u) /\ (razg[u].faza \in PodBravom => razg[u].r # n)
  BY <1>3 DEF PripremiRupe, URazgovoru, IstiRazgovor, PodBravom
<1> QED  BY <1>2, <1>3, <1>4, ZapisPotreban

\* The widened record asks for all that was asked for (rupe.go, prosiri).
LEMMA ProsirenTrazi ==
    ASSUME TypeOK, ZapisOdPocetka, NEW n \in Cvor, NEW p \in PromjeneKljuca
    PROVE  ZapisTrazi(n, Prosiri(p, UskladjenoPravilo(n)))
<1> DEFINE staro == UskladjenoPravilo(n)
           novo == Prosiri(p, staro)
<1>1. staro \in RupeKljuca  BY PocetakTip
<1>2. p.uTrazi \in Rasponi /\ staro.trazi \in Rasponi  BY <1>1 DEF PromjeneKljuca, RupeKljuca
<1>3. Nedostaje(p, staro.trazi) \in Rasponi  BY <1>2, NedostajeSve
<1>4. novo.trazi = Uz(Uz(staro.trazi, p.uTrazi), Nedostaje(p, staro.trazi))  BY DEF Prosiri
<1>5. Trazeno[n] \ ograda[n].odbija \subseteq Clanovi(staro.trazi)  BY UskladjenoTrazi
<1> HIDE DEF staro, novo
<1>6. Clanovi(staro.trazi) \subseteq Clanovi(Uz(staro.trazi, p.uTrazi))
      /\ Uz(staro.trazi, p.uTrazi) \in Rasponi
  BY <1>2, UzDrziOba, AlgebraTip
<1>7. Clanovi(Uz(staro.trazi, p.uTrazi)) \subseteq Clanovi(novo.trazi)
  BY <1>3, <1>4, <1>6, UzDrziOba
<1>8. ZapisTrazi(n, novo)  BY <1>5, <1>6, <1>7 DEF ZapisTrazi
<1> QED  BY <1>8 DEF novo, staro

-----------------------------------------------------------------------------
(* The write under the lock *)

\* A write that widened the record asks for all it will pass over and keeps.
LEMMA ProsirenPotreban ==
    ASSUME IInvPotrebno, NEW t \in Razgovori, UNCHANGED <<knjiga, ograda>>,
           razg[t].faza = "brava",
           razg'[t].faza = "prosireno", razg'[t].r = razg[t].r,
           razg'[t].prima = razg[t].prima, razg'[t].upis.verzije = razg[t].upis.verzije,
           razg'[t].upis.odbijeno = razg[t].upis.odbijeno,
           NEW p, razg'[t].upis.promjena = p, p.fs = razg[t].upis.promjena.fs,
           p.redovno = razg[t].upis.promjena.redovno, p.popuna = razg[t].upis.promjena.popuna,
           p.nesigurno = razg[t].upis.promjena.nesigurno,
           Obuhvaca(p, knjiga[razg[t].r], razg[t].upis.verzije),
           PotrebnoSeTrazi', TrazenoOstaje(razg[t].r),
           Clanovi(rupe'[razg[t].r].trazi) \subseteq Trazeno'[razg[t].r],
           Clanovi(p.uTrazi) \subseteq Clanovi(rupe'[razg[t].r].trazi),
           \A v \in Clanovi(p.nesigurno) : p.fs < v => v \in Clanovi(rupe'[razg[t].r].trazi),
           \/ Clanovi(p.odbijeno) = {}
           \/ /\ PravilomStoji(t) /\ zapisano'[razg[t].r].odbija = ograda[razg[t].r].odbija
              /\ Trazeno'[razg[t].r] \ ograda[razg[t].r].odbija
                    \subseteq Clanovi(rupe'[razg[t].r].trazi)
    PROVE  RazgovorPotreban(t)'
<1> DEFINE x == razg[t]
           n == x.r
           S == knjiga[n]
           V == x.upis.verzije
           K == knjiga[Autor]
<1>1. /\ TypeOK /\ RazgovorUredan(t) /\ MojeUredno(t) /\ UpisPotreban(t)
      /\ n \in Cvor /\ x.prima.moje \in Nat /\ x.upis.odbijeno \in Nat /\ p.fs \in Nat
  BY RazgovorBrojevi, UpisBrojevi DEF IInvPotrebno, IInv, Uredno, Potrebno, RazgovorPotreban
<1>2. n \in Primatelji /\ V \subseteq K /\ p.fs <= Granica(S)
  BY <1>1 DEF RazgovorUredan, PrimaUredno, UpisUredan, Pise
<1>3. /\ S \in SUBSET Verzije /\ V \in SUBSET Verzije /\ K \in SUBSET Verzije
      /\ Granica(S) \in Nat /\ Granica(V) \in Nat /\ Granica(S \cup V) \in Nat
      /\ Granica(S \cup V) <= Granica(S) \/ Granica(S \cup V) <= Granica(V)
      /\ \A v \in K : v \in Nat
  <2>1. S \in SUBSET Verzije /\ V \in SUBSET Verzije /\ K \in SUBSET Verzije
    BY <1>1, KnjigaTip, RazgovorBrojevi
  <2>2. S \cup V \in SUBSET Verzije  BY <2>1
  <2>3. /\ Granica(S) \in Nat /\ Granica(V) \in Nat /\ Granica(S \cup V) \in Nat
        /\ \A v \in K : v \in Nat
    BY <2>1, <2>2, GranicaBroj
  <2>4. Granica(S \cup V) <= Granica(S) \/ Granica(S \cup V) <= Granica(V)
    BY <2>1, GranicaUnije
  <2> QED  BY <2>1, <2>3, <2>4
<1>4. PravilomStoji(t)' = PravilomStoji(t)  BY DEF PravilomStoji
<1>5. PravilomStoji(t) =>
        \A v \in Nema(n) \ (V \cup ograda[n].odbija) :
            /\ v \in Clanovi(p.redovno) \cup Clanovi(p.popuna) => v \in Clanovi(p.nesigurno)
            /\ v \in Clanovi(p.redovno) => p.fs < v
            /\ v <= Veci(Granica(V), x.upis.odbijeno) =>
                  v <= p.fs \/ v <= x.prima.moje \/ v \in Clanovi(p.redovno)
  BY <1>1 DEF UpisPotreban, Pise
<1>6. PravilomStoji(t) => TrazenoDo(n, x.prima.moje)  BY <1>1 DEF MojeUredno
<1>7. TrazenoDo(n, Granica(S))  BY <1>2, GranicaTrazena
<1> HIDE DEF x, n, S, V, K
\* What the write passes over and keeps was asked for, or is now.
<1>8. ASSUME PravilomStoji(t), NEW v \in Nema(n) \ (V \cup ograda[n].odbija),
             v <= Veci(Granica(V), x.upis.odbijeno)
      PROVE  v \in Trazeno'[n]
  <2>0. v \in Nat  BY <1>3 DEF Nema, K
  <2>1. v <= p.fs \/ v <= x.prima.moje \/ v \in Clanovi(p.redovno)  BY <1>5, <1>8
  <2>2. CASE v <= p.fs
    <3>1. v <= Granica(S)  BY <1>1, <1>2, <1>3, <2>0, <2>2
    <3> QED  BY <1>7, <1>8, <3>1 DEF TrazenoDo, TrazenoOstaje, JosOdbija, Nema, n, x
  <2>3. CASE v <= x.prima.moje
    BY <1>6, <1>8, <2>3 DEF TrazenoDo, TrazenoOstaje, JosOdbija, Nema, n, x
  <2>4. CASE v \in Clanovi(p.redovno)
    BY <1>5, <1>8, <2>4 DEF n, x
  <2> QED  BY <2>1, <2>2, <2>3, <2>4
<1>9. MojeUredno(t)'
  <2>1. /\ x.prima.moje <= Granica(K) /\ x.upis.odbijeno <= Granica(K)
        /\ Narastajem(x.prima.ograda, ograda[n])
    BY <1>1 DEF MojeUredno, x, n, K
  <2>2. PravilomStoji(t) => \A v \in Nema(n) : v <= x.prima.moje /\ v \notin ograda[n].odbija
                                                  => v \in Trazeno'[n]
    BY <1>6 DEF TrazenoDo, TrazenoOstaje, JosOdbija, Nema, n, x
  <2> QED  BY <1>4, <2>1, <2>2 DEF MojeUredno, TrazenoDo, Nema, n, x, K
<1>10. UpisPotreban(t)'
  BY <1>4, <1>5 DEF UpisPotreban, Nema, n, x, V
<1>11. OdbijenoPotrebno(t)'
  <2> SUFFICES ASSUME PravilomStoji(t), NEW v \in Nema(n) \ (V \cup ograda[n].odbija),
                      v <= x.upis.odbijeno
               PROVE  v \in Trazeno'[n]
    BY <1>4 DEF OdbijenoPotrebno, Nema, n, x, V
  <2>1. v \in Nat  BY <1>3 DEF Nema, K
  <2>2. v <= Veci(Granica(V), x.upis.odbijeno)  BY <1>1, <1>3, <2>1 DEF Veci
  <2> QED  BY <1>8, <2>2
<1>12. ProsirenoPotrebno(t)'
  <2> SUFFICES ASSUME NEW v \in Nema(n) \ V, v <= Granica(S \cup V),
                      zapisano'[n].ima, v \notin zapisano'[n].odbija
               PROVE  v \in Clanovi(rupe'[n].trazi)
    BY DEF ProsirenoPotrebno, Nema, n, x, S, V
  <2>1. v \in Nat /\ v \in K \ (S \cup V)  BY <1>3 DEF Nema, K, S
  <2>2. CASE v <= Granica(S)
    BY <1>2, <2>2 DEF PotrebnoSeTrazi, Nema, S
  <2>3. CASE ~(v <= Granica(S))
    <3>1. p.fs < v /\ v <= Granica(V)  BY <1>1, <1>2, <1>3, <2>1, <2>3
    <3>2. \/ v \in Clanovi(p.odbijeno) \cup Clanovi(p.uTrazi)
          \/ v \in Clanovi(p.nesigurno) /\ p.fs < v
      BY <2>1, <3>1 DEF Obuhvaca, K, S, V, n, x
    <3>3. CASE v \in Clanovi(p.odbijeno)
      <4>1. PravilomStoji(t) /\ zapisano'[n].odbija = ograda[n].odbija
            /\ Trazeno'[n] \ ograda[n].odbija \subseteq Clanovi(rupe'[n].trazi)
        BY <3>3 DEF n, x
      <4>2. v <= Veci(Granica(V), x.upis.odbijeno)  BY <1>1, <1>3, <2>1, <3>1 DEF Veci
      <4>3. v \in Nema(n) \ (V \cup ograda[n].odbija)  BY <4>1
      <4> QED  BY <1>8, <4>1, <4>2, <4>3
    <3>4. CASE v \in Clanovi(p.uTrazi) \cup Clanovi(p.nesigurno)
      BY <3>1, <3>4 DEF n, x
    <3> QED  BY <3>2, <3>3, <3>4
  <2> QED  BY <2>2, <2>3
<1> QED  BY <1>9, <1>10, <1>11, <1>12 DEF RazgovorPotreban

\* The fence that gave way changes nothing of what the sender said, and leaves
\* the change as it was while the rule holds (upis.go).
LEMMA UzOgraduIsto ==
    ASSUME NEW x, x.upis.promjena \in PromjeneKljuca
    PROVE  /\ UzOgradu(x).nesigurno = x.upis.promjena.nesigurno
           /\ JosOdbija(x.prima.ograda, ograda[x.r]) => UzOgradu(x) = x.upis.promjena
BY DEF UzOgradu, PromjeneKljuca

\* The record is widened under the lock (rupe.go, prosiri).
LEMMA ZapisanoPotrebno ==
    ASSUME IInvPotrebno, TypeOK', NEW t \in Razgovori, ZapisiRupe(t)
    PROVE  Potrebno'
<1> DEFINE x == razg[t]
           n == x.r
           staro == UskladjenoPravilo(x.r)
           mijenja == x.upis.pravilo \/ Ima(x.upis, x.prima.trazi)
           p == IF mijenja THEN UzOgradu(x) ELSE x.upis.promjena
           pop == PopunjavaRupu(x.r, x.upis.verzije)
           u1 == [x.upis EXCEPT !.promjena = p, !.pravilo = FALSE, !.popunjava = pop]
           novi == [x EXCEPT !.faza = "prosireno", !.upis = u1]
<1>1. /\ TypeOK /\ Zakljucano /\ RazgovorUredan(t) /\ PotrebnoSeTrazi /\ ZapisOdPocetka
      /\ x \in RazgovorTip /\ n \in Cvor /\ x.faza = "brava" /\ brava[n] = Slobodna
  BY RazgovorBrojevi DEF IInvPotrebno, IInv, Uredno, Potrebno, ZapisiRupe
<1>2. Nastavi(t, novi) /\ UNCHANGED <<knjiga, ograda, odbijeneOd>>
  BY DEF ZapisiRupe, postavke, pamcenje
<1>3. n \in Primatelji /\ Obuhvaca(x.upis.promjena, knjiga[n], x.upis.verzije)
  BY <1>1 DEF RazgovorUredan, PrimaUredno, UpisUredan, Pise
<1>4. /\ Obuhvaca(p, knjiga[n], x.upis.verzije)
      /\ p.fs = x.upis.promjena.fs /\ p.redovno = x.upis.promjena.redovno
      /\ p.popuna = x.upis.promjena.popuna /\ p.nesigurno = x.upis.promjena.nesigurno
  BY <1>1, <1>3, RazgovorBrojevi, UzOgraduObuhvaca, UzOgraduIsto
<1>5. p \in PromjeneKljuca /\ x.upis \in UpisTip /\ staro \in RupeKljuca
  BY <1>1, UzOgraduTip, RazgovorBrojevi, DijeloviTip, PocetakTip
<1>6. p.odbijeno \in Rasponi /\ p.uTrazi \in Rasponi /\ p.nesigurno \in Rasponi
  BY <1>5 DEF PromjeneKljuca
<1>7. razg'[t] = novi /\ \A u \in Razgovori \ {t} : razg'[u] = razg[u]
  BY <1>1, <1>2 DEF Nastavi, TypeOK
<1>8. mijenja => \/ Clanovi(p.odbijeno) = {}
                 \/ PravilomStoji(t)
  BY <1>1, <1>3, RazgovorBrojevi, UzOgraduObuhvaca DEF PravilomStoji
<1> HIDE DEF p, pop
<1>9. u1.verzije = x.upis.verzije /\ u1.promjena = p /\ u1.odbijeno = x.upis.odbijeno
  BY <1>5 DEF UpisTip
<1> HIDE DEF u1
<1>10. /\ razg'[t].faza = "prosireno" /\ razg'[t].r = n /\ razg'[t].prima = x.prima
       /\ razg'[t].upis.verzije = x.upis.verzije /\ razg'[t].upis.promjena = p
       /\ razg'[t].upis.odbijeno = x.upis.odbijeno
  BY <1>1, <1>7, <1>9 DEF RazgovorTip
<1>11. \A u \in Razgovori \ {t} :
          IstiRazgovor(u) /\ (razg[u].faza \in PodBravom => razg[u].r # n)
  BY <1>1, <1>7, BravaJedina DEF IstiRazgovor
<1> HIDE DEF novi
<1>12. CASE mijenja
  <2> DEFINE novo == Prosiri(p, staro)
  <2>1. PromijeniRupe(n, staro, novo)
    BY <1>12 DEF ZapisiRupe, p
  <2>2. /\ Clanovi(p.uTrazi) \subseteq Clanovi(novo.trazi)
        /\ \A v \in Clanovi(p.nesigurno) : p.fs < v => v \in Clanovi(novo.trazi)
        /\ ZapisTrazi(n, novo)
    BY <1>1, <1>5, ProsirenZapis, ProsirenTrazi
  <2> HIDE DEF novo
  <2>3. /\ rupe'[n] = novo /\ Clanovi(novo.trazi) \subseteq Trazeno'[n]
        /\ Trazeno'[n] \ ograda[n].odbija \subseteq Clanovi(novo.trazi)
        /\ zapisano'[n].ima /\ zapisano'[n].odbija = ograda[n].odbija
        /\ \A c \in Cvor : c # n => rupe'[c] = rupe[c] /\ zapisano'[c] = zapisano[c]
    BY <1>1, <1>2, <2>1, ZapisanoTrazeno
  <2>4. TrazenoOstaje(n)  BY <1>2, <2>2, <2>3 DEF TrazenoOstaje, ZapisTrazi
  <2>5. PotrebnoSeTrazi'
    <3> SUFFICES ASSUME NEW c \in Primatelji, NEW v \in Nema(c), v <= Granica(knjiga[c]),
                        zapisano'[c].ima, v \notin zapisano'[c].odbija
                 PROVE  v \in Clanovi(rupe'[c].trazi)
      BY <1>2 DEF PotrebnoSeTrazi, Nema
    <3>1. c \in Cvor  BY DEF Primatelji
    <3>2. CASE c = n
      <4>1. TrazenoDo(n, Granica(knjiga[n]))  BY <1>3, GranicaTrazena
      <4> QED  BY <2>2, <2>3, <3>2, <4>1 DEF TrazenoDo, ZapisTrazi
    <3>3. CASE c # n
      BY <1>1, <2>3, <3>1, <3>3 DEF PotrebnoSeTrazi
    <3> QED  BY <3>2, <3>3
  <2>6. RazgovorPotreban(t)'
    <3>1. /\ Clanovi(rupe'[n].trazi) \subseteq Trazeno'[n]
          /\ Clanovi(p.uTrazi) \subseteq Clanovi(rupe'[n].trazi)
          /\ \A v \in Clanovi(p.nesigurno) : p.fs < v => v \in Clanovi(rupe'[n].trazi)
          /\ \/ Clanovi(p.odbijeno) = {}
             \/ /\ PravilomStoji(t) /\ zapisano'[n].odbija = ograda[n].odbija
                /\ Trazeno'[n] \ ograda[n].odbija \subseteq Clanovi(rupe'[n].trazi)
      BY <1>8, <1>12, <2>2, <2>3
    <3> HIDE DEF mijenja, staro
    <3> QED  BY <1>1, <1>2, <1>4, <1>10, <2>4, <2>5, <3>1, ProsirenPotreban
  <2> QED  BY <1>2, <1>3, <1>11, <2>1, <2>2, <2>6, ZapisPotreban
<1>13. CASE ~mijenja
  <2>1. UNCHANGED <<rupe, zapisano>>  BY <1>13 DEF ZapisiRupe
  <2>2. p = x.upis.promjena  BY <1>13 DEF p
  <2>3. /\ Prazan(p.odbijeno) /\ Prazan(p.uTrazi)
        /\ Prazan(Nedostaje(p, x.prima.trazi))
    BY <1>13, <2>2 DEF Ima, MijenjaTrazi
  <2>4. \A a \in Rasponi : Prazan(a) => Clanovi(a) = {}
    BY BeskrajPretpostavka DEF Prazan, Clanovi, Rasponi, Oznake
  <2>5. x.prima.trazi \in Rasponi  BY <1>1, RazgovorBrojevi
  <2>6. /\ Clanovi(p.odbijeno) = {} /\ Clanovi(p.uTrazi) = {}
        /\ \A v \in Clanovi(p.nesigurno) : ~(p.fs < v)
    BY <1>5, <1>6, <2>3, <2>4, <2>5, NedostajeSve
  <2>7. Trazeno'[n] = Trazeno[n]
    <3>1. \A c \in Cvor : Trazeno'[c] = Trazeno[c]  BY <1>2, <2>1, IstoTrazeno
    <3> QED  BY <1>1, <3>1
  <2>8. TrazenoOstaje(n)  BY <2>7 DEF TrazenoOstaje
  <2>9. PotrebnoSeTrazi'  BY <1>1, <1>2, <2>1 DEF PotrebnoSeTrazi, Nema
  <2>10. Clanovi(rupe'[n].trazi) \subseteq Trazeno'[n]
    BY <1>1, <2>1, <2>7, UskladjenoTrazi
  <2> HIDE DEF mijenja, staro
  <2>11. RazgovorPotreban(t)'
    BY <1>1, <1>2, <1>4, <1>10, <2>6, <2>8, <2>9, <2>10, ProsirenPotreban
  <2>12. \A c, s \in Cvor : OdbijeneIste(c, s)  BY <1>2 DEF OdbijeneIste
  <2> QED  BY <1>2, <1>11, <2>1, <2>11, <2>12, TihoPotrebno
<1> QED  BY <1>12, <1>13

\* The versions are written: what they pass over and the rule keeps is asked for
\* already (upis.go).
LEMMA UpisanoPotrebno ==
    ASSUME IInvPotrebno, TypeOK', NEW t \in Razgovori, UpisiVerzije(t)
    PROVE  Potrebno'
<1> DEFINE x == razg[t]
           n == x.r
           V == x.upis.verzije
           S == knjiga[x.r]
           K == knjiga[Autor]
           pop == x.upis.popunjava /\ ~(x.upis.verzije \subseteq knjiga[x.r])
           u1 == [x.upis EXCEPT !.popunjava = pop]
           novi == [x EXCEPT !.faza = "upisano", !.upis = u1]
<1>1. /\ TypeOK /\ Zakljucano /\ RazgovorUredan(t) /\ RazgovorPotreban(t)
      /\ ZapisOdPocetka /\ PotrebnoSeTrazi
      /\ x \in RazgovorTip /\ n \in Cvor /\ Autor \in Cvor /\ x.faza = "prosireno"
  BY RazgovorBrojevi, KnjigaTip DEF IInvPotrebno, IInv, Uredno, Potrebno, UpisiVerzije
<1>2. /\ knjiga' = [knjiga EXCEPT ![n] = @ \cup V]
      /\ Nastavi(t, novi)
      /\ UNCHANGED <<rupe, zapisano, ograda, odbijeneOd>>
  BY DEF UpisiVerzije, postavke, pamcenje
<1>3. n # Autor  BY <1>1 DEF RazgovorUredan, PrimaUredno, Primatelji
<1>4. /\ MojeUredno(t) /\ UpisPotreban(t) /\ ProsirenoPotrebno(t) /\ OdbijenoPotrebno(t)
  BY <1>1 DEF RazgovorPotreban
<1>5. x.upis \in UpisTip  BY <1>1, DijeloviTip
<1>6. /\ knjiga'[n] = S \cup V
      /\ \A c \in Cvor : c # n => knjiga'[c] = knjiga[c]
      /\ razg'[t] = novi /\ \A u \in Razgovori \ {t} : razg'[u] = razg[u]
  BY <1>1, <1>2 DEF Nastavi, TypeOK
<1> HIDE DEF pop
<1>7. u1.verzije = V /\ u1.promjena = x.upis.promjena /\ u1.odbijeno = x.upis.odbijeno
  BY <1>5 DEF UpisTip
<1> HIDE DEF u1
<1>8. /\ razg'[t].faza = "upisano" /\ razg'[t].r = n /\ razg'[t].prima = x.prima
      /\ razg'[t].upis.verzije = V /\ razg'[t].upis.promjena = x.upis.promjena
      /\ razg'[t].upis.odbijeno = x.upis.odbijeno
  BY <1>1, <1>6, <1>7 DEF RazgovorTip
<1> HIDE DEF novi
<1>9. knjiga'[Autor] = K /\ knjiga'[Autor] \ knjiga'[n] = Nema(n) \ V
  BY <1>1, <1>3, <1>6 DEF Nema
<1>10. \A c \in Cvor : Trazeno'[c] = Trazeno[c]  BY <1>2, IstoTrazeno
<1>11. ZapisOdPocetka'  BY <1>1, <1>2 DEF ZapisOdPocetka
<1>12. PotrebnoSeTrazi'
  <2> SUFFICES ASSUME NEW c \in Primatelji, NEW v \in K \ knjiga'[c],
                      v <= Granica(knjiga'[c]), zapisano[c].ima, v \notin zapisano[c].odbija
               PROVE  v \in Clanovi(rupe[c].trazi)
    BY <1>2, <1>9 DEF PotrebnoSeTrazi, Nema
  <2>1. c \in Cvor  BY DEF Primatelji
  <2>2. CASE c = n
    <3>1. v \in Nema(n) \ V  BY <1>9, <2>2
    <3>2. v <= Granica(S \cup V)  BY <1>6, <2>2
    <3> HIDE DEF K
    <3> QED  BY <1>1, <1>4, <2>2, <3>1, <3>2 DEF ProsirenoPotrebno
  <2>3. CASE c # n
    BY <1>1, <1>6, <2>1, <2>3 DEF PotrebnoSeTrazi, Nema
  <2> QED  BY <2>2, <2>3
<1>13. OkolinaStoji
  <2>1. \A c \in Cvor : TrazenoOstaje(c)  BY <1>10 DEF TrazenoOstaje
  <2>2. \A c \in Cvor : knjiga[c] \subseteq knjiga'[c]  BY <1>6
  <2>3. AutorDodaje  BY <1>9 DEF AutorDodaje
  <2> QED  BY <1>2, <2>1, <2>2, <2>3 DEF OkolinaStoji, JosOdbija
<1>14. PravilomStoji(t)' = PravilomStoji(t)  BY <1>2, <1>8 DEF PravilomStoji
<1>15. Trazeno'[n] = Trazeno[n]  BY <1>1, <1>10
<1> HIDE DEF x, n, V, S, K
<1>16. RazgovorPotreban(t)'
  <2>1. MojeUredno(t)'
    BY <1>1, <1>2, <1>4, <1>8, <1>9, <1>14, <1>15 DEF MojeUredno, TrazenoDo, Nema, x, n, K
  <2>2. UpisPotreban(t)'
    BY <1>1, <1>2, <1>4, <1>8, <1>9, <1>14
    DEF UpisPotreban, Nema, Pise, PodBravom, x, n, V
  <2>3. OdbijenoPotrebno(t)'
    BY <1>1, <1>2, <1>4, <1>8, <1>9, <1>14, <1>15
    DEF OdbijenoPotrebno, Nema, PodBravom, x, n, V
  <2>4. ProsirenoPotrebno(t)'  BY <1>8 DEF ProsirenoPotrebno
  <2> QED  BY <2>1, <2>2, <2>3, <2>4 DEF RazgovorPotreban
<1>17. ASSUME NEW u \in Razgovori \ {t}
       PROVE  /\ IstiRazgovor(u)
              /\ razg[u].faza \in PodBravom =>
                    LET r == razg[u].r IN
                    rupe'[r] = rupe[r] /\ zapisano'[r] = zapisano[r] /\ knjiga'[r] = knjiga[r]
  <2>1. razg[u].r \in Cvor  BY <1>1, RazgovorBrojevi
  <2>2. razg[u].faza \in PodBravom => razg[u].r # n
    <3>1. brava[n] = t  BY <1>1, BravaJedina DEF PodBravom, n, x
    <3> QED  BY <1>1, <3>1, BravaJedina
  <2>3. IstiRazgovor(u)  BY <1>6 DEF IstiRazgovor
  <2> QED  BY <1>2, <1>6, <2>1, <2>2, <2>3
<1>18. \A c, s \in Cvor : OdbijeneIste(c, s)  BY <1>2 DEF OdbijeneIste
<1> QED  BY <1>11, <1>12, <1>13, <1>16, <1>17, <1>18, KorakPotreban

\* Narrowing the record goes on asking for what is needed: what was covered and
\* did not come is refused now, asked for, or uncertain (rupe.go, suzi).
LEMMA SuzenTrazi ==
    ASSUME IInvPotrebno, NEW t \in Razgovori, razg[t].faza = "upisano"
    PROVE  ZapisTrazi(razg[t].r, Suzi(UzOgradu(razg[t]), UskladjenoPravilo(razg[t].r)))
<1> DEFINE x == razg[t]
           n == x.r
           p == UzOgradu(x)
           staro == UskladjenoPravilo(n)
           novo == Suzi(p, staro)
           S == knjiga[n]
           V == x.upis.verzije
<1>1. /\ TypeOK /\ RazgovorUredan(t) /\ UpisPotreban(t) /\ x \in RazgovorTip /\ n \in Cvor
      /\ ZapisOdPocetka
  BY RazgovorBrojevi DEF IInvPotrebno, IInv, Uredno, Potrebno, RazgovorPotreban
<1>2. Obuhvaca(x.upis.promjena, S, V) /\ V \subseteq S
  BY <1>1 DEF RazgovorUredan, UpisUredan, Pise, PodBravom
<1>3. /\ Obuhvaca(p, S, V) /\ p.nesigurno = x.upis.promjena.nesigurno
      /\ p.redovno = x.upis.promjena.redovno /\ p.popuna = x.upis.promjena.popuna
      /\ Clanovi(p.odbijeno) = {} \/ PravilomStoji(t)
  BY <1>1, <1>2, RazgovorBrojevi, UzOgraduObuhvaca, UzOgraduIsto DEF PravilomStoji
<1>4. p \in PromjeneKljuca /\ staro \in RupeKljuca
  BY <1>1, UzOgraduTip, RazgovorBrojevi, DijeloviTip, PocetakTip
<1>5. staro.trazi \in Rasponi  BY <1>4 DEF RupeKljuca
<1>6. (Clanovi(staro.trazi) \ (Clanovi(p.redovno) \cup Clanovi(p.popuna)))
            \cup Clanovi(p.uTrazi) \cup Clanovi(Nedostaje(p, staro.trazi))
         \subseteq Clanovi(novo.trazi)
  BY <1>4, SuziSamoPokriveno
<1>7. \A v \in Clanovi(p.nesigurno) \cap Clanovi(staro.trazi) :
          v \in Clanovi(Nedostaje(p, staro.trazi))
  BY <1>4, <1>5, NedostajeSve
<1>8. Trazeno[n] \ ograda[n].odbija \subseteq Clanovi(staro.trazi)  BY <1>1, UskladjenoTrazi
<1> HIDE DEF staro, p, novo
<1>9. ASSUME NEW v \in Nema(n) \ ograda[n].odbija, v \in Trazeno[n]
      PROVE  v \in Clanovi(novo.trazi)
  <2>1. v \in knjiga[Autor] \ (S \cup V)  BY <1>2 DEF Nema
  <2>2. CASE v \notin Clanovi(p.redovno) \cup Clanovi(p.popuna)
    BY <1>6, <1>8, <1>9, <2>2
  <2>3. CASE v \in Clanovi(p.redovno) \cup Clanovi(p.popuna)
    <3>1. v \in Clanovi(p.uTrazi) \cup Clanovi(p.nesigurno)
      <4>1. CASE PravilomStoji(t)
        BY <1>1, <1>3, <1>9, <2>1, <2>3, <4>1 DEF UpisPotreban, Pise, PodBravom
      <4>2. CASE Clanovi(p.odbijeno) = {}
        BY <1>3, <2>1, <2>3, <4>2 DEF Obuhvaca
      <4> QED  BY <1>3, <4>1, <4>2
    <3> QED  BY <1>6, <1>7, <1>8, <1>9, <3>1
  <2> QED  BY <2>2, <2>3
<1> QED  BY <1>9 DEF ZapisTrazi, novo, p, staro

\* The record is narrowed, or stays wide when that fails.
LEMMA SuzenoPotrebno ==
    ASSUME IInvPotrebno, TypeOK', NEW t \in Razgovori, SuziRupe(t)
    PROVE  Potrebno'
<1> DEFINE x == razg[t]
           n == x.r
           u1 == [PrazanUpis EXCEPT !.odbijeno = x.upis.odbijeno]
           novi == [x EXCEPT !.faza = "zapamti", !.upis = u1]
<1>1. /\ TypeOK /\ Zakljucano /\ RazgovorUredan(t) /\ MojeUredno(t) /\ OdbijenoPotrebno(t)
      /\ x \in RazgovorTip /\ n \in Cvor /\ x.faza = "upisano"
  BY RazgovorBrojevi
  DEF IInvPotrebno, IInv, Uredno, Potrebno, RazgovorPotreban, SuziRupe
<1>2. Nastavi(t, novi) /\ UNCHANGED <<knjiga, ograda, odbijeneOd>>
  BY DEF SuziRupe, postavke
<1>3. n \in Primatelji /\ x.upis.verzije \subseteq knjiga[n]
  BY <1>1 DEF RazgovorUredan, PrimaUredno, UpisUredan, Pise, PodBravom
<1>4. razg'[t] = novi /\ \A u \in Razgovori \ {t} : razg'[u] = razg[u]
  BY <1>1, <1>2 DEF Nastavi, TypeOK
<1>5. u1.odbijeno = x.upis.odbijeno /\ u1.verzije = {}  BY DEF PrazanUpis
<1> HIDE DEF u1
<1>6. /\ razg'[t].faza = "zapamti" /\ razg'[t].r = n /\ razg'[t].prima = x.prima
      /\ razg'[t].upis.odbijeno = x.upis.odbijeno /\ razg'[t].upis.verzije = {}
  BY <1>1, <1>4, <1>5 DEF RazgovorTip
<1> HIDE DEF novi
<1>7. PravilomStoji(t)' = PravilomStoji(t)  BY <1>2, <1>6 DEF PravilomStoji
<1>8. ASSUME TrazenoOstaje(n)  PROVE RazgovorPotreban(t)'
  <2> HIDE DEF x, n
  <2>1. MojeUredno(t)'
    BY <1>1, <1>2, <1>6, <1>7, <1>8
    DEF MojeUredno, TrazenoDo, TrazenoOstaje, JosOdbija, Nema, x, n
  <2>2. OdbijenoPotrebno(t)'
    BY <1>1, <1>2, <1>3, <1>6, <1>7, <1>8
    DEF OdbijenoPotrebno, TrazenoOstaje, JosOdbija, PodBravom, Nema, x, n
  <2>3. UpisPotreban(t)' /\ ProsirenoPotrebno(t)'
    BY <1>6 DEF UpisPotreban, ProsirenoPotrebno, Pise, PodBravom
  <2> QED  BY <2>1, <2>2, <2>3 DEF RazgovorPotreban
<1>9. \A u \in Razgovori \ {t} :
          IstiRazgovor(u) /\ (razg[u].faza \in PodBravom => razg[u].r # n)
  <2>1. brava[n] = t  BY <1>1, BravaJedina DEF PodBravom
  <2> QED  BY <1>1, <1>4, <2>1, BravaJedina DEF IstiRazgovor
<1>10. CASE UNCHANGED <<rupe, zapisano>>
  <2>1. \A c \in Cvor : Trazeno'[c] = Trazeno[c]  BY <1>2, <1>10, IstoTrazeno
  <2>2. TrazenoOstaje(n)  BY <1>1, <2>1 DEF TrazenoOstaje
  <2>3. RazgovorPotreban(t)'  BY <1>8, <2>2
  <2>4. \A c, s \in Cvor : OdbijeneIste(c, s)  BY <1>2 DEF OdbijeneIste
  <2> QED  BY <1>2, <1>9, <1>10, <2>3, <2>4, TihoPotrebno
<1>11. CASE ~UNCHANGED <<rupe, zapisano>>
  <2> DEFINE novo == Suzi(UzOgradu(x), UskladjenoPravilo(n))
  <2>1. PromijeniRupe(n, UskladjenoPravilo(n), novo)  BY <1>11 DEF SuziRupe
  <2>2. ZapisTrazi(n, novo)  BY <1>1, SuzenTrazi
  <2> HIDE DEF novo
  <2>3. Clanovi(novo.trazi) \subseteq Trazeno'[n]  BY <1>1, <1>2, <2>1, ZapisanoTrazeno
  <2>4. TrazenoOstaje(n)  BY <1>2, <2>2, <2>3 DEF TrazenoOstaje, ZapisTrazi
  <2>5. RazgovorPotreban(t)'  BY <1>8, <2>4
  <2> QED  BY <1>2, <1>3, <1>9, <2>1, <2>2, <2>5, ZapisPotreban
<1> QED  BY <1>10, <1>11

\* The receiver remembers how far it refused only what it refused under the rule
\* that still holds, or asks for (granica_odbijenih.go).
LEMMA ZapamcenoPotrebno ==
    ASSUME IInvPotrebno, TypeOK', NEW t \in Razgovori, ZapamtiOdbijene(t)
    PROVE  Potrebno'
<1> DEFINE x == razg[t]
           n == x.r
           z == odbijeneOd[x.r][x.s]
           vrijedi == z.granica # 0 /\ JosOdbija(z.ograda, ograda[x.r])
           g == IF vrijedi THEN Veci(z.granica, x.upis.odbijeno) ELSE x.upis.odbijeno
           y == [granica |-> g, ograda |-> ograda[x.r]]
           novi == [x EXCEPT !.faza = "zelje", !.prima = PocetakPrimatelja,
                             !.upis = PrazanUpis]
<1>1. /\ TypeOK /\ MojeUredno(t) /\ OdbijenoPotrebno(t)
      /\ x \in RazgovorTip /\ n \in Cvor /\ x.s \in Cvor /\ x.faza = "zapamti"
      /\ UNCHANGED <<knjiga, rupe, zapisano, ograda>>
  BY RazgovorBrojevi
  DEF IInvPotrebno, IInv, Potrebno, RazgovorPotreban, ZapamtiOdbijene, trajno, postavke
<1>2. Nastavi(t, novi)  BY DEF ZapamtiOdbijene
<1>3. razg'[t] = novi /\ \A u \in Razgovori \ {t} : razg'[u] = razg[u]
  BY <1>1, <1>2 DEF Nastavi, TypeOK
<1>4. /\ razg'[t].faza = "zelje" /\ razg'[t].r = n
      /\ razg'[t].prima.moje = 0 /\ razg'[t].upis.odbijeno = 0
      /\ razg'[t].prima.ograda = BezOgrade
  BY <1>1, <1>3 DEF RazgovorTip, PocetakPrimatelja, PrazanUpis
<1>5. /\ knjiga[Autor] \in SUBSET Verzije /\ Granica(knjiga[Autor]) \in Nat
      /\ \A v \in knjiga[Autor] : v \in Nat /\ 0 < v
      /\ x.upis.odbijeno \in Nat /\ z.granica \in Nat
  BY <1>1, KnjigaTip, GranicaBroj, UpisBrojevi, OdbijeneBrojevi
<1> HIDE DEF novi
<1>6. RazgovorPotreban(t)'
  <2>1. MojeUredno(t)'
    BY <1>1, <1>4, <1>5 DEF MojeUredno, TrazenoDo, Nema, Narastajem, JosOdbija, BezOgrade
  <2> QED
    BY <1>4, <2>1
    DEF RazgovorPotreban, UpisPotreban, ProsirenoPotrebno, OdbijenoPotrebno, Pise, PodBravom
<1>7. \A c, s \in Cvor : OdbijeneIste(c, s) \/ OdbijeneUredne(c, s)'
  <2>1. CASE x.upis.odbijeno # 0 /\ SmijeUpisati(t)
    <3>1. odbijeneOd' = [odbijeneOd EXCEPT ![x.r][x.s] = y]
      BY <2>1 DEF ZapamtiOdbijene
    <3>2. /\ odbijeneOd'[n][x.s] = y
          /\ \A c, s \in Cvor : c # n \/ s # x.s => odbijeneOd'[c][s] = odbijeneOd[c][s]
      BY <1>1, <3>1 DEF TypeOK
    <3>3. PravilomStoji(t)  BY <2>1 DEF SmijeUpisati, PravilomStoji
    <3>4. OdbijeneUredne(n, x.s)  BY <1>1 DEF IInvPotrebno, Potrebno
    <3>5. x.upis.verzije = {} /\ x.upis.odbijeno <= Granica(knjiga[Autor])
      BY <1>1 DEF OdbijenoPotrebno, MojeUredno
    <3>6. g <= Granica(knjiga[Autor])
      BY <1>5, <3>4, <3>5 DEF OdbijeneUredne, Veci
    <3>7. TrazenoDo(n, g)
      <4> SUFFICES ASSUME NEW v \in Nema(n), v <= g, v \notin ograda[n].odbija
                   PROVE  v \in Trazeno[n]
        BY DEF TrazenoDo
      <4>1. v \in Nat  BY <1>5 DEF Nema
      <4>2. v <= x.upis.odbijeno \/ (vrijedi /\ v <= z.granica)
        BY <1>5, <4>1 DEF Veci
      <4>3. CASE v <= x.upis.odbijeno
        BY <1>1, <3>3, <3>5, <4>3 DEF OdbijenoPotrebno
      <4>4. CASE vrijedi /\ v <= z.granica
        BY <3>4, <4>4 DEF OdbijeneUredne, TrazenoDo
      <4> QED  BY <4>2, <4>3, <4>4
    <3>8. ograda[n].narastaj \in Nat  BY <1>1, KnjigaTip
    <3>9. Trazeno'[n] = Trazeno[n]
      <4>1. \A c \in Cvor : Trazeno'[c] = Trazeno[c]  BY <1>1, IstoTrazeno
      <4> QED  BY <1>1, <4>1
    <3>10. y.granica = g /\ y.ograda = ograda[n]  OBVIOUS
    <3> HIDE DEF y, g, x, n
    <3>11. ASSUME NEW c \in Cvor, NEW s \in Cvor, c = n, s = x.s
           PROVE  OdbijeneUredne(c, s)'
      <4>1. odbijeneOd'[c][s] = y  BY <3>2, <3>11
      <4>2. /\ g <= Granica(knjiga'[Autor]) /\ ograda'[c] = ograda[c]
            /\ y.ograda.narastaj <= ograda'[c].narastaj
            /\ y.granica = g /\ y.ograda = ograda'[c]
        BY <1>1, <3>6, <3>8, <3>10, <3>11
      <4>3. \A v \in knjiga'[Autor] \ knjiga'[c] :
               v <= g /\ v \notin ograda'[c].odbija => v \in Trazeno'[c]
        BY <1>1, <3>7, <3>9, <3>11 DEF TrazenoDo, Nema
      <4> QED
        BY <4>1, <4>2, <4>3 DEF OdbijeneUredne, TrazenoDo, Nema, Narastajem, JosOdbija
    <3>12. \A c, s \in Cvor : c # n \/ s # x.s => OdbijeneIste(c, s)
      BY <3>2 DEF OdbijeneIste
    <3> QED  BY <3>11, <3>12
  <2>2. CASE ~(x.upis.odbijeno # 0 /\ SmijeUpisati(t))
    BY <2>2 DEF ZapamtiOdbijene, OdbijeneIste
  <2> QED  BY <2>1, <2>2
<1>8. \A u \in Razgovori \ {t} : IstiRazgovor(u)  BY <1>3 DEF IstiRazgovor
<1> QED  BY <1>1, <1>6, <1>7, <1>8, TihoPotrebno

-----------------------------------------------------------------------------
(* What happens to a node outside the talks *)

\* The program stops, or forgets its refusals, or one of them is too old: what it
\* forgets it only receives again.
LEMMA CvorPotreban ==
    ASSUME IInvPotrebno, TypeOK', NEW n \in Cvor,
           \/ PromijeniPretplatu(n) \/ PonovnoPokreni(n) \/ \E s \in Cvor : Istekne(n, s)
    PROVE  Potrebno'
<1> DEFINE prazne == [s \in Cvor |-> [granica |-> 0, ograda |-> BezOgrade]]
<1>1. TypeOK /\ odbijeneOd \in [Cvor -> [Cvor -> [granica : Granice, ograda : Ograde]]]
  BY DEF IInvPotrebno, IInv, TypeOK
<1>2. UNCHANGED <<knjiga, rupe, zapisano, ograda>>
  BY DEF PromijeniPretplatu, PonovnoPokreni, Istekne, trajno, postavke
<1>3. ASSUME odbijeneOd' = [odbijeneOd EXCEPT ![n] = prazne]
      PROVE  \A c, s \in Cvor : OdbijeneIste(c, s)
  <2>1. \A c, s \in Cvor : \/ odbijeneOd'[c][s] = odbijeneOd[c][s]
                           \/ odbijeneOd'[c][s] = [granica |-> 0, ograda |-> BezOgrade]
    BY <1>1, <1>3
  <2> QED  BY <2>1 DEF OdbijeneIste
<1>4. CASE PromijeniPretplatu(n)
  <2>1. razg' = razg /\ odbijeneOd' = [odbijeneOd EXCEPT ![n] = prazne]
    BY <1>4 DEF PromijeniPretplatu, ZaboraviOdbijene
  <2>2. \A u \in Razgovori : IstiRazgovor(u)  BY <2>1 DEF IstiRazgovor
  <2> HIDE DEF prazne
  <2> QED  BY <1>2, <1>3, <2>1, <2>2, TihoPotrebno
<1>5. CASE \E s \in Cvor : Istekne(n, s)
  <2>1. PICK s \in Cvor : Istekne(n, s)  BY <1>5
  <2>2. razg' = razg /\ odbijeneOd' = [odbijeneOd EXCEPT ![n][s] = [@ EXCEPT !.granica = 0]]
    BY <2>1 DEF Istekne
  <2>3. \A u \in Razgovori : IstiRazgovor(u)  BY <2>2 DEF IstiRazgovor
  <2>4. \A c, q \in Cvor :
           odbijeneOd'[c][q] \in {odbijeneOd[c][q], [odbijeneOd[c][q] EXCEPT !.granica = 0]}
    BY <1>1, <2>2
  <2>5. \A c, q \in Cvor : odbijeneOd[c][q] \in [granica : Granice, ograda : Ograde]
    BY <1>1
  <2>6. \A c, q \in Cvor : OdbijeneIste(c, q)  BY <2>4, <2>5 DEF OdbijeneIste
  <2> QED  BY <1>2, <2>3, <2>6, TihoPotrebno
<1>6. CASE PonovnoPokreni(n)
  <2> DEFINE dovrsavaju == {t \in Razgovori : razg[t].s = n /\ razg[t].r # n
                                /\ razg[t].faza \in {"brava", "zapamti"} \cup PodBravom}
             gotovi == {t \in Razgovori \ dovrsavaju : n \in {razg[t].s, razg[t].r}}
  <2>1. /\ odbijeneOd' = [odbijeneOd EXCEPT ![n] = prazne]
        /\ \A u \in Razgovori : razg'[u] = IF u \in gotovi THEN Slobodan
                                           ELSE IF u \in dovrsavaju
                                                THEN [razg[u] EXCEPT !.prekinut = TRUE]
                                                ELSE razg[u]
    BY <1>6 DEF PonovnoPokreni, NoviZivot
  <2> HIDE DEF gotovi, dovrsavaju, prazne
  <2>2. ASSUME NEW u \in Razgovori, u \in gotovi  PROVE RazgovorPotreban(u)'
    BY <2>1, <2>2, SlobodanPotreban
  <2>3. ASSUME NEW u \in Razgovori, u \notin gotovi  PROVE IstiRazgovor(u)
    <3>1. razg[u] \in RazgovorTip  BY <1>1, RazgovorBrojevi
    <3>2. razg'[u] = razg[u] \/ razg'[u] = [razg[u] EXCEPT !.prekinut = TRUE]
      BY <2>1, <2>3
    <3> QED  BY <3>1, <3>2 DEF IstiRazgovor, RazgovorTip
  <2> QED  BY <1>2, <1>3, <2>1, <2>2, <2>3, TihoPotrebno
<1> QED  BY <1>4, <1>5, <1>6

\* A rule that changes has a new generation: nothing decided or remembered under
\* the old one holds. An edge that moves forward leaves the generation, and all
\* that was refused stays refused.
LEMMA PraviloPotrebno ==
    ASSUME IInvPotrebno, TypeOK', NEW n \in Cvor, PromijeniPravilo(n) \/ PomakniRub(n)
    PROVE  Potrebno'
<1>1. TypeOK /\ ZapisOdPocetka /\ PotrebnoSeTrazi  BY DEF IInvPotrebno, IInv, Potrebno
<1>2. UNCHANGED <<knjiga, rupe, zapisano, odbijeneOd, razg>>
  BY DEF PromijeniPravilo, PomakniRub, trajno, pamcenje
<1>3. \A c \in Cvor :
         JosOdbija(ograda[c], ograda'[c]) \/ ograda[c].narastaj < ograda'[c].narastaj
  BY <1>1, PromjenaPravilaRaste DEF JosOdbija
<1>4. \A c \in Cvor : Trazeno'[c] = Trazeno[c]  BY <1>2, IstoTrazeno
<1>5. ZapisOdPocetka' /\ PotrebnoSeTrazi'
  BY <1>1, <1>2 DEF ZapisOdPocetka, PotrebnoSeTrazi, Nema
<1>6. \A c \in Cvor : TrazenoOstaje(c)  BY <1>4 DEF TrazenoOstaje
<1>7. OkolinaStoji  BY <1>2, <1>3, <1>6 DEF OkolinaStoji, AutorDodaje
<1>8. \A u \in Razgovori :
         /\ IstiRazgovor(u)
         /\ razg[u].faza \in PodBravom =>
               LET r == razg[u].r IN
               rupe'[r] = rupe[r] /\ zapisano'[r] = zapisano[r] /\ knjiga'[r] = knjiga[r]
  BY <1>2 DEF IstiRazgovor
<1>9. \A c, s \in Cvor : OdbijeneIste(c, s)  BY <1>2 DEF OdbijeneIste
<1> QED  BY <1>5, <1>7, <1>8, <1>9, KorakPotreban

\* The author writes the next version: it is above all that others hold.
LEMMA NapisanoPotrebno ==
    ASSUME IInvPotrebno, TypeOK', Napisi
    PROVE  Potrebno'
<1> DEFINE K == knjiga[Autor]
           g == Granica(K)
<1>1. /\ TypeOK /\ Poceci /\ ZapisOdPocetka /\ PotrebnoSeTrazi
      /\ \A u \in Razgovori : RazgovorUredan(u)
  BY DEF IInvPotrebno, IInv, Uredno, Potrebno
<1>2. /\ UNCHANGED <<rupe, zapisano, ograda, odbijeneOd, razg>>
      /\ knjiga' = [knjiga EXCEPT ![Autor] = @ \cup {Granica(@) + 1}]
  BY DEF Napisi, postavke, pamcenje
<1>3. Autor \in Cvor /\ K \in SUBSET Verzije /\ g \in Nat /\ K = 1 .. g
  BY <1>1, KnjigaTip DEF Poceci
<1>4. /\ knjiga'[Autor] = K \cup {g + 1}
      /\ \A c \in Cvor : c # Autor => knjiga'[c] = knjiga[c]
  BY <1>1, <1>2, <1>3 DEF TypeOK
<1>5. AutorDodaje  BY <1>3, <1>4 DEF AutorDodaje
<1>6. ZapisOdPocetka'  BY <1>1, <1>2 DEF ZapisOdPocetka
<1>7. PotrebnoSeTrazi'
  <2> SUFFICES ASSUME NEW n \in Primatelji, NEW v \in knjiga'[Autor] \ knjiga'[n],
                      v <= Granica(knjiga'[n]), zapisano[n].ima, v \notin zapisano[n].odbija
               PROVE  v \in Clanovi(rupe[n].trazi)
    BY <1>2 DEF PotrebnoSeTrazi, Nema
  <2>1. n \in Cvor /\ n # Autor /\ knjiga'[n] = knjiga[n]  BY <1>4 DEF Primatelji
  <2>2. Granica(knjiga[n]) \in Nat /\ Granica(knjiga[n]) <= g
    BY <1>1, <1>3, <2>1, KnjigaTip, GranicaUnije DEF Poceci
  <2>3. v # g + 1  BY <1>3, <2>1, <2>2
  <2>4. v \in Nema(n)  BY <1>4, <2>1, <2>3 DEF Nema
  <2> QED  BY <1>1, <2>1, <2>4 DEF PotrebnoSeTrazi
<1>8. OkolinaStoji
  <2>1. \A c \in Cvor : TrazenoOstaje(c)
    BY <1>2, IstoTrazeno DEF TrazenoOstaje
  <2>2. \A c \in Cvor : knjiga[c] \subseteq knjiga'[c]  BY <1>4
  <2> QED  BY <1>2, <1>5, <2>1, <2>2 DEF OkolinaStoji, JosOdbija
<1>9. ASSUME NEW u \in Razgovori
      PROVE  /\ IstiRazgovor(u)
             /\ razg[u].faza \in PodBravom =>
                   LET r == razg[u].r IN
                   rupe'[r] = rupe[r] /\ zapisano'[r] = zapisano[r] /\ knjiga'[r] = knjiga[r]
  <2>1. razg[u].faza \in PodBravom => razg[u].r \in Primatelji
    BY <1>1 DEF RazgovorUredan, PrimaUredno, PodBravom
  <2>2. razg[u].faza \in PodBravom => knjiga'[razg[u].r] = knjiga[razg[u].r]
    BY <1>4, <2>1 DEF Primatelji
  <2> QED  BY <1>2, <2>2 DEF IstiRazgovor
<1>10. \A c, s \in Cvor : OdbijeneIste(c, s)  BY <1>2 DEF OdbijeneIste
<1> QED  BY <1>6, <1>7, <1>8, <1>9, <1>10, KorakPotreban

\* A channel is deleted when no talk is about the node (purge.go).
LEMMA ObrisanoPotrebno ==
    ASSUME IInvPotrebno, TypeOK', NEW n \in Primatelji, ObrisiKanal(n), MirnoBrisanje
    PROVE  Potrebno'
<1>1. /\ TypeOK /\ IInv /\ ZapisOdPocetka /\ PotrebnoSeTrazi /\ n \in Cvor /\ n # Autor
      /\ \A u \in Razgovori : RazgovorPotreban(u)
      /\ \A c, s \in Cvor : OdbijeneUredne(c, s)
  BY DEF IInvPotrebno, IInv, Potrebno, Primatelji
<1>2. /\ knjiga' = [knjiga EXCEPT ![n] = {}] /\ rupe' = [rupe EXCEPT ![n] = BezRupa]
      /\ odbijeneOd' = [odbijeneOd EXCEPT ![n] =
                           [s \in Cvor |-> [granica |-> 0, ograda |-> BezOgrade]]]
      /\ UNCHANGED <<zapisano, ograda, razg>> /\ ~URazgovoru(n)
  BY DEF ObrisiKanal, ZaboraviOdbijene, postavke, MirnoBrisanje
<1>3. /\ knjiga'[n] = {} /\ rupe'[n] = BezRupa
      /\ \A s \in Cvor : odbijeneOd'[n][s] = [granica |-> 0, ograda |-> BezOgrade]
      /\ \A c \in Cvor : c # n => /\ knjiga'[c] = knjiga[c] /\ rupe'[c] = rupe[c]
                                  /\ odbijeneOd'[c] = odbijeneOd[c]
  BY <1>1, <1>2 DEF TypeOK
<1>4. /\ Autor \in Cvor /\ knjiga'[Autor] = knjiga[Autor] /\ Granica({}) = 0
      /\ Granica(knjiga[Autor]) \in Nat
      /\ \A v \in knjiga[Autor] : v \in Nat /\ 0 < v
  <2>1. Granica({}) = 0  BY DEF Granica
  <2>2. Autor \in Cvor /\ knjiga'[Autor] = knjiga[Autor]  BY <1>1, <1>3, KnjigaTip
  <2> QED  BY <1>1, <2>1, <2>2, KnjigaTip, GranicaBroj
<1>5. \A c \in Cvor : c # n => Trazeno'[c] = Trazeno[c]  BY <1>2, <1>3, IstoTrazeno
<1>6. ZapisOdPocetka'
  BY <1>1, <1>2, <1>3 DEF ZapisOdPocetka, Primatelji
<1>7. PotrebnoSeTrazi'
  <2> SUFFICES ASSUME NEW c \in Primatelji, NEW v \in knjiga[Autor] \ knjiga'[c],
                      v <= Granica(knjiga'[c]), zapisano[c].ima, v \notin zapisano[c].odbija
               PROVE  v \in Clanovi(rupe'[c].trazi)
    BY <1>2, <1>4 DEF PotrebnoSeTrazi, Nema
  <2>1. CASE c = n
    <3>1. Granica(knjiga'[c]) = 0  BY <1>3, <1>4, <2>1
    <3>2. v \in Nat /\ 0 < v  BY <1>4
    <3> QED  BY <3>1, <3>2
  <2>2. CASE c # n
    BY <1>1, <1>3, <2>2 DEF PotrebnoSeTrazi, Nema, Primatelji
  <2> QED  BY <2>1, <2>2
<1>8. ASSUME NEW c \in Cvor, NEW s \in Cvor  PROVE OdbijeneUredne(c, s)'
  <2>1. CASE c = n
    <3>1. /\ odbijeneOd'[c][s].granica = 0 /\ odbijeneOd'[c][s].ograda.narastaj = 0
          /\ Narastajem(odbijeneOd'[c][s].ograda, ograda'[c])
      BY <1>3, <2>1 DEF BezOgrade, Narastajem, JosOdbija
    <3>2. ograda'[c].narastaj \in Nat  BY <1>1, <1>2, KnjigaTip
    <3>3. 0 <= Granica(knjiga'[Autor]) /\ 0 <= ograda'[c].narastaj  BY <1>4, <3>2
    <3>4. TrazenoDo(c, odbijeneOd[c][s].granica)'
      BY <1>4, <3>1 DEF TrazenoDo, Nema
    <3> QED  BY <3>1, <3>3, <3>4 DEF OdbijeneUredne
  <2>2. CASE c # n
    <3>1. OdbijeneUredne(c, s)  BY <1>1
    <3> QED
      BY <1>2, <1>3, <1>4, <1>5, <2>2, <3>1 DEF OdbijeneUredne, TrazenoDo, Nema
  <2> QED  BY <2>1, <2>2
<1>9. ASSUME NEW u \in Razgovori  PROVE RazgovorPotreban(u)'
  <2>1. razg[u].r \in Cvor  BY <1>1, RazgovorBrojevi
  <2>2. razg[u].faza # "nema" => razg[u].r # n
    BY <1>2 DEF URazgovoru
  <2>3. IstiRazgovor(u)  BY <1>2 DEF IstiRazgovor
  <2>4. razg[u].faza # "nema" => PrimateljMiran(u)
    BY <1>2, <1>3, <1>5, <2>1, <2>2 DEF PrimateljMiran, TrazenoOstaje, JosOdbija
  <2>5. AutorDodaje  BY <1>4 DEF AutorDodaje
  <2> QED  BY <1>1, <2>3, <2>4, <2>5, TudjiPotreban
<1> QED  BY <1>6, <1>7, <1>8, <1>9 DEF Potrebno

-----------------------------------------------------------------------------
(* The start and every step *)

LEMMA PocetnoPotrebno == Init => Potrebno
<1> SUFFICES ASSUME Init PROVE Potrebno  OBVIOUS
<1>1. /\ rupe = [n \in Cvor |-> BezRupa]
      /\ zapisano = [n \in Cvor |-> [ima |-> FALSE, odbija |-> {}]]
      /\ odbijeneOd = [n \in Cvor |-> [s \in Cvor |-> [granica |-> 0, ograda |-> BezOgrade]]]
      /\ razg = [t \in Razgovori |-> Slobodan]
  BY DEF Init
<1>2. TypeOK  BY PocetnoTip
<1>3. \A n \in Primatelji : n \in Cvor  BY DEF Primatelji
<1>4. ZapisOdPocetka /\ PotrebnoSeTrazi
  BY <1>1, <1>3 DEF ZapisOdPocetka, PotrebnoSeTrazi
<1>5. ASSUME NEW n \in Cvor, NEW s \in Cvor  PROVE OdbijeneUredne(n, s)
  <2>1. odbijeneOd[n][s] = [granica |-> 0, ograda |-> BezOgrade]  BY <1>1
  <2>2. odbijeneOd[n][s].granica = 0 /\ odbijeneOd[n][s].ograda.narastaj = 0
    BY <2>1 DEF BezOgrade
  <2>5. Narastajem(odbijeneOd[n][s].ograda, ograda[n])
    BY <2>1 DEF BezOgrade, Narastajem, JosOdbija
  <2>3. TrazenoDo(n, 0)  BY <1>2, NistaIspodPrve
  <2>4. Granica(knjiga[Autor]) \in Nat /\ ograda[n].narastaj \in Nat  BY <1>2, KnjigaTip
  <2> QED  BY <2>2, <2>3, <2>4, <2>5 DEF OdbijeneUredne
<1>6. ASSUME NEW u \in Razgovori  PROVE RazgovorPotreban(u)
  <2>1. razg[u].faza = "nema"  BY <1>1 DEF Slobodan
  <2> QED
    BY <2>1 DEF RazgovorPotreban, MojeUredno, UpisPotreban, ProsirenoPotrebno,
       OdbijenoPotrebno, Pise, PodBravom
<1> QED  BY <1>4, <1>5, <1>6 DEF Potrebno

\* Every step leaves what is needed asked for.
LEMMA KorakPotrebno ==
    ASSUME MirnoBrisanje, RubNeIdeNatrag, IInvPotrebno, TypeOK', [Next]_vars
    PROVE  Potrebno'
<1>1. CASE Napisi
  BY <1>1, NapisanoPotrebno
<1>2. ASSUME NEW t \in Razgovori,
             \/ \E v \in Veze : Zapocni(t, v[1], v[2])
             \/ Korak(t) \/ BravaNijeStigla(t) \/ Prekid(t) \/ UpisPao(t)
      PROVE  Potrebno'
  <2>1. CASE \/ \E v \in Veze : Zapocni(t, v[1], v[2])
             \/ GranicaPosiljatelja(t) \/ RupePosiljatelja(t)
             \/ GranicaPrimatelja(t) \/ RupePrimatelja(t) \/ SloziDeltu(t)
    BY <2>1, PocetakPotreban
  <2>2. CASE Odluci(t)  BY <2>2, OdlucenoPotrebno
  <2>3. CASE ZapisiRupe(t)  BY <2>3, ZapisanoPotrebno
  <2>4. CASE UpisiVerzije(t)  BY <2>4, UpisanoPotrebno
  <2>5. CASE SuziRupe(t)  BY <2>5, SuzenoPotrebno
  <2>6. CASE ZapamtiOdbijene(t)  BY <2>6, ZapamcenoPotrebno
  <2>7. CASE \/ NePrati(t) \/ ZapamtiUvoz(t)
             \/ BravaNijeStigla(t) \/ Prekid(t) \/ UpisPao(t)
    BY <2>7, KrajPotreban
  <2> QED  BY <1>2, <2>1, <2>2, <2>3, <2>4, <2>5, <2>6, <2>7 DEF Korak
<1>3. ASSUME NEW n \in Podesivi,
             \/ PromijeniPravilo(n) \/ PomakniRub(n) \/ VratiRub(n)
             \/ PromijeniPretplatu(n) \/ ObrisiKanal(n)
      PROVE  Potrebno'
  <2>1. n \in Primatelji /\ n \in Cvor
    BY RazmjenaPretpostavka DEF Primatelji
  <2>2. CASE PromijeniPravilo(n) \/ PomakniRub(n)  BY <2>1, <2>2, PraviloPotrebno
  <2>3. CASE VratiRub(n)
    BY <2>3 DEF VratiRub, Smetnja, RubNeIdeNatrag
  <2>4. CASE PromijeniPretplatu(n)  BY <2>1, <2>4, CvorPotreban
  <2>5. CASE ObrisiKanal(n)  BY <2>1, <2>5, ObrisanoPotrebno
  <2> QED  BY <1>3, <2>2, <2>3, <2>4, <2>5
<1>4. ASSUME NEW n \in Primatelji,
             PonovnoPokreni(n) \/ PripremiRupe(n) \/ \E s \in Cvor : Istekne(n, s)
      PROVE  Potrebno'
  <2>1. n \in Cvor  BY DEF Primatelji
  <2> QED  BY <1>4, <2>1, CvorPotreban, PripremljenoPotrebno
<1>5. CASE UNCHANGED vars
  <2>1. UNCHANGED <<knjiga, rupe, zapisano, ograda, odbijeneOd, razg>>  BY <1>5 DEF vars
  <2>2. \A u \in Razgovori : IstiRazgovor(u)  BY <2>1 DEF IstiRazgovor
  <2>3. \A n, s \in Cvor : OdbijeneIste(n, s)  BY <2>1 DEF OdbijeneIste
  <2> QED  BY <2>1, <2>2, <2>3, TihoPotrebno
<1> QED  BY <1>1, <1>2, <1>3, <1>4, <1>5 DEF Next

-----------------------------------------------------------------------------
(* What a talk skips *)

\* Only the sender's own step makes a delta.
LEMMA SamoSloziDeltu ==
    ASSUME TypeOK, [Next]_vars, NEW t \in Razgovori,
           razg[t].faza = "pocetak", razg'[t].faza = "delta"
    PROVE  SloziDeltu(t)
<1>1. razg \in [Razgovori -> RazgovorTip]  BY DEF TypeOK
<1>2. razg' # razg  OBVIOUS
<1>3. ASSUME NEW T, Zavrsi(T)  PROVE FALSE
  BY <1>3 DEF Zavrsi, Slobodan
<1>4. ASSUME NEW u \in Razgovori, u # t, NEW e, Nastavi(u, e)  PROVE FALSE
  BY <1>1, <1>4 DEF Nastavi
<1>5. ASSUME NEW e, Nastavi(t, e)  PROVE e.faza = "delta"
  BY <1>1, <1>5 DEF Nastavi
<1>6. ASSUME NEW u \in Razgovori,
             \/ \E v \in Veze : Zapocni(u, v[1], v[2])
             \/ Korak(u) \/ BravaNijeStigla(u) \/ Prekid(u) \/ UpisPao(u)
      PROVE  SloziDeltu(t)
  <2>1. CASE NePrati(u) \/ ZapamtiUvoz(u) \/ BravaNijeStigla(u) \/ Prekid(u) \/ UpisPao(u)
    BY <2>1, <1>3 DEF NePrati, ZapamtiUvoz, BravaNijeStigla, Prekid, UpisPao
  <2>2. CASE u # t
    <3>1. CASE \/ \E v \in Veze : Zapocni(u, v[1], v[2])
               \/ GranicaPosiljatelja(u) \/ RupePosiljatelja(u) \/ GranicaPrimatelja(u)
               \/ RupePrimatelja(u) \/ SloziDeltu(u)
      BY <2>2, <3>1, <1>4 DEF Zapocni, GranicaPosiljatelja, RupePosiljatelja,
         GranicaPrimatelja, RupePrimatelja, SloziDeltu
    <3>2. CASE \/ Odluci(u) \/ ZapisiRupe(u) \/ UpisiVerzije(u) \/ SuziRupe(u)
               \/ ZapamtiOdbijene(u)
      BY <2>2, <3>2, <1>4 DEF Odluci, ZapisiRupe, UpisiVerzije, SuziRupe, ZapamtiOdbijene
    <3> QED  BY <1>6, <2>1, <3>1, <3>2 DEF Korak
  <2>3. CASE u = t
    <3>1. CASE GranicaPosiljatelja(t) \/ RupePosiljatelja(t) \/ GranicaPrimatelja(t)
               \/ RupePrimatelja(t)
      <4>1. PICK e : Nastavi(t, e) /\ e.faza = razg[t].faza
        BY <1>1, <3>1 DEF GranicaPosiljatelja, RupePosiljatelja, GranicaPrimatelja,
           RupePrimatelja, RazgovorTip
      <4> QED  BY <4>1, <1>5
    <3>2. CASE \/ \E v \in Veze : Zapocni(t, v[1], v[2])
               \/ Odluci(t) \/ ZapisiRupe(t) \/ UpisiVerzije(t) \/ SuziRupe(t)
               \/ ZapamtiOdbijene(t)
      BY <3>2 DEF Zapocni, Odluci, ZapisiRupe, UpisiVerzije, SuziRupe, ZapamtiOdbijene
    <3> QED  BY <1>6, <2>1, <2>3, <3>1, <3>2 DEF Korak
  <2> QED  BY <2>2, <2>3
<1>7. ASSUME NEW n \in Primatelji, PonovnoPokreni(n)  PROVE FALSE
  BY <1>7 DEF PonovnoPokreni, Slobodan
<1>8. \/ Napisi
      \/ \E n \in Podesivi : \/ PromijeniPravilo(n) \/ PomakniRub(n) \/ VratiRub(n)
                             \/ PromijeniPretplatu(n) \/ ObrisiKanal(n)
      \/ \E n \in Primatelji : PripremiRupe(n) \/ \E s \in Cvor : Istekne(n, s)
      \/ UNCHANGED vars
      => razg' = razg
  BY DEF Napisi, PromijeniPravilo, PomakniRub, VratiRub, PromijeniPretplatu, ObrisiKanal,
     PripremiRupe, Istekne, vars
<1> QED  BY <1>2, <1>6, <1>7, <1>8 DEF Next

\* What a delta skips lies below a frontier of the receiver, where it asks for
\* what it needs, or below its refusals, where it does so too.
LEMMA PreskocenoTrazeno ==
    ASSUME IInvPotrebno, IInv', NEW t \in Razgovori, SloziDeltu(t)
    PROVE  PreskokIskren(t)
<1> DEFINE x == razg[t]
           r == x.r
           od == razg'[t].delta.od
<1>1. /\ TypeOK /\ RazgovorUredan(t) /\ RazgovorPotreban(t) /\ RazgovorUredan(t)'
  BY DEF IInvPotrebno, IInv, Uredno, Potrebno
<1>2. x.faza = "pocetak" /\ razg \in [Razgovori -> RazgovorTip]
  BY <1>1 DEF SloziDeltu, TypeOK
<1>3. /\ razg'[t].faza = "delta" /\ razg'[t].prima = x.prima
  BY <1>2 DEF SloziDeltu, Nastavi, RazgovorTip
<1>4. od <= Veci(x.prima.fs, x.prima.moje)
  BY <1>1, <1>3 DEF RazgovorUredan, DeltaUredna
<1>5. /\ r \in Primatelji /\ x.prima.fs <= Granica(knjiga[r])
      /\ PravilomStoji(t) => TrazenoDo(r, x.prima.moje)
  BY <1>1, <1>2 DEF RazgovorUredan, PrimaUredno, RazgovorPotreban, MojeUredno
<1>6. TrazenoDo(r, Granica(knjiga[r]))  BY <1>5, GranicaTrazena
<1>7. /\ r \in Cvor /\ knjiga[r] \in SUBSET Verzije /\ Granica(knjiga[r]) \in Nat
      /\ x.prima.fs \in Nat /\ x.prima.moje \in Nat
      /\ knjiga[Autor] \in SUBSET Verzije
  BY <1>1, <1>5, RazgovorBrojevi, KnjigaTip DEF Primatelji
<1>8. od \in Nat
  BY <1>2 DEF IInv, TypeOK, RazgovorTip, Granice
<1>9. ASSUME PravilomStoji(t), NEW v \in Nema(r), v <= od, v \notin ograda[r].odbija
      PROVE  v \in Trazeno[r]
  <2>1. v \in Nat  BY <1>7 DEF Nema, Verzije
  <2>2. v <= x.prima.fs \/ v <= x.prima.moje
    BY <1>4, <1>7, <1>8, <1>9, <2>1 DEF Veci
  <2>3. v <= Granica(knjiga[r]) \/ v <= x.prima.moje
    BY <1>5, <1>7, <2>1, <2>2
  <2> QED  BY <1>5, <1>6, <1>9, <2>3 DEF TrazenoDo
<1>10. \A v \in Trazeno[r] : v \notin ograda[r].odbija => v \in Clanovi(RupeNaPocetku(r).trazi)
  BY <1>1, <1>7, UskladjenoTrazi DEF IInvPotrebno, Potrebno
<1> QED  BY <1>7, <1>9, <1>10 DEF PreskokIskren, PravilomStoji

LEMMA PotrebnoStalno ==
    ASSUME MirnoBrisanje, RubNeIdeNatrag
    PROVE  Spec => []IInvPotrebno
<1>1. Init => IInvPotrebno
  BY UrednoOcuvano, PocetnoPotrebno DEF IInvPotrebno
<1>2. IInvPotrebno /\ [Next]_vars => IInvPotrebno'
  <2> SUFFICES ASSUME IInvPotrebno, [Next]_vars  PROVE IInvPotrebno'
    OBVIOUS
  <2>1. IInv'  BY UrednoOcuvano DEF IInvPotrebno
  <2>2. TypeOK'  BY <2>1 DEF IInv
  <2>3. Potrebno'  BY <2>2, KorakPotrebno
  <2> QED  BY <2>1, <2>3 DEF IInvPotrebno
<1> QED  BY <1>1, <1>2, PTL DEF Spec

\* A version a node misses below its frontier and would keep is asked for: it is
\* never only refused, however the rule changed while it was under way
\* (rupe.go, upis.go, granica_odbijenih.go).
THEOREM PotrebnoSeTraziOcuvano ==
    ASSUME MirnoBrisanje, RubNeIdeNatrag
    PROVE  Spec => []PotrebnoSeTrazi
<1>1. IInvPotrebno => PotrebnoSeTrazi  BY DEF IInvPotrebno, Potrebno
<1> QED  BY <1>1, PotrebnoStalno, PTL

\* A talk skips nothing silently: what is below the point a delta goes from, and
\* missing, the receiver refuses or asks for, although it read its frontier first
\* and its refusals and gaps later, while other talks wrote into it (granicaZaDeltu).
THEOREM PreskokNeSkrivaOcuvano ==
    ASSUME MirnoBrisanje, RubNeIdeNatrag
    PROVE  Spec => PreskokNeSkriva
<1>1. IInvPotrebno /\ IInv' /\ [Next]_vars
      => [\A t \in Razgovori : PreskokIskren(t)]_vars
  <2> SUFFICES ASSUME IInvPotrebno, IInv', [Next]_vars, NEW t \in Razgovori
               PROVE  PreskokIskren(t)
    OBVIOUS
  <2>1. CASE razg[t].faza = "pocetak" /\ razg'[t].faza = "delta"
    BY <2>1, SamoSloziDeltu, PreskocenoTrazeno DEF IInvPotrebno, IInv
  <2> QED  BY <2>1 DEF PreskokIskren
<1>2. Spec => []IInvPotrebno  BY PotrebnoStalno
<1>3. Spec => []IInv  BY UrednoOcuvano, PTL DEF Spec
<1> QED  BY <1>1, <1>2, <1>3, PTL DEF Spec, PreskokNeSkriva
=============================================================================
