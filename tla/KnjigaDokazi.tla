----------------------------- MODULE KnjigaDokazi -----------------------------
(***************************************************************************)
(* Theorems about the ledger of one node, for any nodes, records, channels, *)
(* histories of other nodes and bounds: the type invariant, that            *)
(* maintenance never lowers a frontier, and that it does not change what a  *)
(* rebuild of the surface shows.                                            *)
(***************************************************************************)
EXTENDS Knjiga, TLAPS, NaturalsInduction, WellFoundedInduction

\* Labels are natural numbers under a bound.
LEMMA OznakeSu ==
    /\ ZadnjaOznaka \in Nat /\ Oznake \subseteq Nat
    /\ \A o \in Oznake : o <= ZadnjaOznaka
    /\ \A v \in Verzija : v.oznaka \in Oznake /\ v.autor \in Cvor /\ v.kanal \in Kanali
                          /\ v.zapis \in Zapis /\ v.arh \in BOOLEAN /\ v.dobra \in BOOLEAN
<1>1. ZadnjaOznaka \in Nat  BY KnjigaPretpostavka DEF ZadnjaOznaka
<1>2. \A v \in Verzija : v.oznaka \in Oznake /\ v.autor \in Cvor /\ v.kanal \in Kanali
                          /\ v.zapis \in Zapis /\ v.arh \in BOOLEAN /\ v.dobra \in BOOLEAN
  BY DEF Verzija
<1> QED  BY <1>1, <1>2 DEF Oznake

\* A set of versions has a largest one (what MAX of the queries returns).
LEMMA NajvecaPostoji ==
    ASSUME NEW S \in SUBSET Verzija, S # {}
    PROVE  Najveca(S) \in S /\ \A w \in S : w.oznaka <= Najveca(S).oznaka
<1> DEFINE T == {ZadnjaOznaka - v.oznaka : v \in S}
           R == OpToRel(<, Nat)
<1>1. /\ IsWellFoundedOn(R, Nat)
      /\ \A x, y \in Nat : x < y => <<x, y>> \in R
  <2>1. IsWellFoundedOn(R, Nat)  BY NatLessThanWellFounded, Zenon
  <2>2. ASSUME NEW x \in Nat, NEW y \in Nat, x < y  PROVE <<x, y>> \in R
    BY <2>2, Zenon DEF OpToRel
  <2> QED  BY <2>1, <2>2
<1> HIDE DEF R
<1>2. T \subseteq Nat /\ T # {}
  <2>1. ASSUME NEW v \in S  PROVE ZadnjaOznaka - v.oznaka \in Nat
    <3>1. v.oznaka \in Nat /\ v.oznaka <= ZadnjaOznaka /\ ZadnjaOznaka \in Nat
      BY OznakeSu
    <3> QED  BY <3>1
  <2> QED  BY <2>1
<1>3. PICK x \in T : \A y \in T : ~(<<y, x>> \in R)
  <2> HIDE DEF T
  <2>1. IsWellFoundedOn(R, Nat) /\ T \subseteq Nat /\ T # {}  BY <1>1, <1>2
  <2> QED  BY ONLY <2>1, WFMin, Zenon
<1>4. PICK m \in S : x = ZadnjaOznaka - m.oznaka  OBVIOUS
<1>5. ASSUME NEW w \in S  PROVE w.oznaka <= m.oznaka
  <2>1. ZadnjaOznaka - w.oznaka \in T  OBVIOUS
  <2>2. ~(ZadnjaOznaka - w.oznaka < x)  BY <1>1, <1>2, <1>3, <2>1
  <2>3. w.oznaka \in Nat /\ m.oznaka \in Nat /\ ZadnjaOznaka \in Nat  BY OznakeSu
  <2> QED  BY <1>4, <2>2, <2>3
<1> QED  BY <1>5 DEF Najveca

\* Labels are unique, so the largest version is the one that is not below any.
LEMMA NajvecaJedina ==
    ASSUME NEW S \in SUBSET Verzija,
           \A v, w \in S : v.oznaka = w.oznaka => v = w,
           NEW m \in S, \A w \in S : w.oznaka <= m.oznaka
    PROVE  Najveca(S) = m
<1>1. Najveca(S) \in S /\ m.oznaka <= Najveca(S).oznaka /\ Najveca(S).oznaka <= m.oznaka
  BY NajvecaPostoji
<1>2. m.oznaka \in Nat /\ Najveca(S).oznaka \in Nat  BY <1>1, OznakeSu
<1> QED  BY <1>1, <1>2

\* What a rebuild shows is a version of the ledger, or nothing.
LEMMA IzKnjigeTip ==
    ASSUME NEW S \in SUBSET Verzija, NEW z
    PROVE  IzKnjige(S, z) \in S \cup {Nema}
<1>1. OdZapisa(S, z) \subseteq S /\ OdZapisa(S, z) \in SUBSET Verzija  BY DEF OdZapisa
<1>2. NajvecaIli(OdZapisa(S, z)) \in S \cup {Nema}
  BY <1>1, NajvecaPostoji DEF NajvecaIli
<1> QED  BY <1>2 DEF IzKnjige

LEMMA ObnovljenaTip ==
    ASSUME NEW S \in SUBSET Verzija, NEW W, S \subseteq W,
           NEW p \in [Zapis -> W \cup {Nema}]
    PROVE  Obnovljena(S, p) \in [Zapis -> W \cup {Nema}]
BY IzKnjigeTip DEF Obnovljena

-----------------------------------------------------------------------------
(* The type invariant *)

\* An own new version with a fresh label keeps the labels apart.
LEMMA NovaVerzija ==
    ASSUME TypeOK, NEW v \in Verzija, \A w \in svijet : w.oznaka # v.oznaka
    PROVE  /\ svijet \cup {v} \subseteq Verzija
           /\ \A x, y \in svijet \cup {v} : x.oznaka = y.oznaka => x = y
BY DEF TypeOK

LEMMA PocetniTip == Init => TypeOK
<1> SUFFICES ASSUME Init PROVE TypeOK  OBVIOUS
<1>1. svijet \in Svjetovi /\ svijet \subseteq Verzija
      /\ \A v, w \in svijet : v.oznaka = w.oznaka => v = w
  BY KnjigaPretpostavka DEF Init
<1>2. knjiga \subseteq svijet  BY DEF Init
<1>3. povrsina \in [Zapis -> svijet \cup {Nema}]
  <2>1. \A z \in Zapis : IzKnjige(knjiga, z) \in knjiga \cup {Nema}
    BY <1>1, <1>2, IzKnjigeTip
  <2> QED  BY <1>2, <2>1 DEF Init
<1>4. sat \in PrvoVrijeme .. ZadnjeVrijeme /\ zadnja \in Oznake \cup {0} /\ prati \subseteq Kanal
  BY KnjigaPretpostavka DEF Init
<1> QED  BY <1>1, <1>2, <1>3, <1>4 DEF TypeOK

LEMMA UpisTip ==
    ASSUME TypeOK, NEW z \in Zapis, NEW k \in Kanali, NEW arh \in BOOLEAN, Upisi(z, k, arh)
    PROVE  TypeOK'
<1>1. PICK o \in NoveOznake :
          LET v == NoviUpis(o, z, k, arh)
          IN  /\ knjiga' = knjiga \cup {v}
              /\ svijet' = svijet \cup {v}
              /\ povrsina' = [povrsina EXCEPT ![z] = IF arh THEN Nema ELSE v]
              /\ zadnja' = o
  BY DEF Upisi
<1> DEFINE v == NoviUpis(o, z, k, arh)
<1>2. o \in Oznake /\ \A w \in svijet : w.oznaka # o  BY DEF NoveOznake
<1>3. v \in Verzija /\ v.oznaka = o  BY <1>2 DEF NoviUpis, Verzija, Cvor
<1>4. /\ svijet' \subseteq Verzija
      /\ \A x, y \in svijet' : x.oznaka = y.oznaka => x = y
  BY <1>1, <1>2, <1>3, NovaVerzija
<1> HIDE DEF v
<1>5. povrsina' \in [Zapis -> svijet' \cup {Nema}]  BY <1>1 DEF TypeOK, v
<1>6. UNCHANGED <<prati, sat>>  BY DEF Upisi
<1> QED  BY <1>1, <1>2, <1>4, <1>5, <1>6 DEF TypeOK, v

LEMMA PrimiTip ==
    ASSUME TypeOK, NEW S \in SUBSET Primljive, Primi(S)
    PROVE  TypeOK'
<1>1. knjiga' = knjiga \cup S /\ UNCHANGED <<svijet, prati, sat, zadnja>>
      /\ povrsina' = PrimijenjenaPovrsina(knjiga', S)
  BY DEF Primi, Apply
<1>2. S \subseteq svijet /\ knjiga' \subseteq svijet  BY <1>1 DEF Primljive, TypeOK
<1>3. knjiga' \in SUBSET Verzija  BY <1>2 DEF TypeOK
<1>4. \A z \in Zapis : IzKnjige(knjiga', z) \in svijet \cup {Nema}
  BY <1>2, <1>3, IzKnjigeTip
<1>5. povrsina' \in [Zapis -> svijet \cup {Nema}]
  BY <1>1, <1>4 DEF PrimijenjenaPovrsina, TypeOK
<1> QED  BY <1>1, <1>2, <1>5 DEF TypeOK

LEMMA BrisiTip ==
    ASSUME TypeOK, NEW S, Brisi(S)
    PROVE  TypeOK'
BY DEF TypeOK, Brisi

LEMMA ObrisanKanalTip ==
    ASSUME TypeOK, NEW k \in Kanal, PurgeChannel(k)
    PROVE  TypeOK'
<1> DEFINE T == TudjiSpomenici(k)
           tudje == {v \in knjiga : v.kanal = k /\ v.autor # Ja}
           R(f) == {Ponovljen(v, f[v]) : v \in T}
           nova(f) == (knjiga \ tudje) \cup R(f)
<1>1. PICK f \in [T -> Oznake] :
          /\ \A v \in T : f[v] \in OznakeIza(v)
          /\ \A v, w \in T : v # w => f[v] # f[w]
          /\ knjiga' = nova(f)
          /\ svijet' = svijet \cup R(f)
          /\ povrsina' = [z \in Zapis |->
                CASE z \in ZaObnovu(k) -> IzKnjige(nova(f), z)
                  [] z \in SPovrsine(k) -> Nema
                  [] OTHER -> povrsina[z]]
  BY Zenon DEF PurgeChannel
<1>2. T \subseteq knjiga /\ T \subseteq Verzija /\ knjiga \subseteq svijet
  BY DEF TudjiSpomenici, TypeOK
<1>3. ASSUME NEW v \in T
      PROVE  /\ Ponovljen(v, f[v]) \in Verzija
             /\ Ponovljen(v, f[v]).oznaka = f[v]
             /\ \A w \in svijet : w.oznaka # f[v]
  <2>1. f[v] \in Oznake /\ \A w \in svijet : w.oznaka # f[v]
    BY <1>1 DEF OznakeIza
  <2>2. v \in Verzija  BY <1>2
  <2> QED  BY <2>1, <2>2 DEF Ponovljen, Verzija, Cvor
<1> HIDE DEF T
<1>4. svijet' \subseteq Verzija  BY <1>1, <1>3 DEF TypeOK
<1>5. ASSUME NEW x \in svijet', NEW y \in svijet', x.oznaka = y.oznaka  PROVE x = y
  <2>1. CASE x \in svijet /\ y \in svijet  BY <1>5, <2>1 DEF TypeOK
  <2>2. CASE x \in R(f) /\ y \in R(f)
    <3>1. PICK v \in T : x = Ponovljen(v, f[v])  BY <2>2
    <3>2. PICK w \in T : y = Ponovljen(w, f[w])  BY <2>2
    <3>3. f[v] = f[w]  BY <1>3, <1>5, <3>1, <3>2
    <3> QED  BY <1>1, <3>1, <3>2, <3>3
  <2>3. CASE x \in svijet /\ y \in R(f)  BY <1>3, <1>5, <2>3
  <2>4. CASE x \in R(f) /\ y \in svijet  BY <1>3, <1>5, <2>4
  <2> QED  BY <1>1, <2>1, <2>2, <2>3, <2>4
<1>6. knjiga' \subseteq svijet'  BY <1>1, <1>2
<1>7. povrsina' \in [Zapis -> svijet' \cup {Nema}]
  <2>1. nova(f) \in SUBSET Verzija /\ nova(f) \subseteq svijet'  BY <1>1, <1>4, <1>6
  <2>2. \A z : IzKnjige(nova(f), z) \in svijet' \cup {Nema}
    <3> HIDE DEF nova
    <3> QED  BY <2>1, IzKnjigeTip
  <2>3. \A z \in Zapis : povrsina[z] \in svijet' \cup {Nema}  BY <1>1 DEF TypeOK
  <2> HIDE DEF nova
  <2> QED  BY <1>1, <2>2, <2>3
<1>8. UNCHANGED <<prati, sat, zadnja>>  BY DEF PurgeChannel
<1> QED  BY <1>4, <1>5, <1>6, <1>7, <1>8 DEF TypeOK

LEMMA KorakTip == TypeOK /\ [Next]_vars => TypeOK'
<1> SUFFICES ASSUME TypeOK, [Next]_vars PROVE TypeOK'  OBVIOUS
<1>1. ASSUME NEW u \in UpisiKanala, NEW arh \in BOOLEAN, Upisi(u[1], u[2], arh)
      PROVE  TypeOK'
  <2>1. u[1] \in Zapis /\ u[2] \in Kanali  BY KnjigaPretpostavka
  <2> QED  BY <1>1, <2>1, UpisTip
<1>2. ASSUME NEW S \in SUBSET Primljive, Primi(S)  PROVE TypeOK'
  BY <1>2, PrimiTip
<1>3. CASE Sazmi \/ PurgeArchived \/ DeleteVersion \/ Prorijedi \/ ProrijediZamijenjene
  BY <1>3, BrisiTip DEF Sazmi, PurgeArchived, DeleteVersion, Prorijedi, ProrijediZamijenjene
<1>4. ASSUME NEW k \in Kanal, PurgeChannel(k)  PROVE TypeOK'
  BY <1>4, ObrisanKanalTip
<1>5. ASSUME NEW k \in Kanal, PromijeniPretplatu(k)  PROVE TypeOK'
  BY <1>5 DEF PromijeniPretplatu, TypeOK
<1>6. CASE ObrisiNeispravne
  <2>1. knjiga' \subseteq knjiga /\ svijet' = svijet /\ UNCHANGED <<prati, sat, zadnja>>
        /\ povrsina' = Obnovljena(knjiga', povrsina)
    BY <1>6 DEF ObrisiNeispravne
  <2>2. knjiga' \in SUBSET Verzija /\ knjiga' \subseteq svijet  BY <2>1 DEF TypeOK
  <2>3. povrsina' \in [Zapis -> svijet \cup {Nema}]
    BY <2>1, <2>2, ObnovljenaTip DEF TypeOK
  <2> QED  BY <2>1, <2>2, <2>3 DEF TypeOK
<1>7. CASE Otkucaj \/ SatNatrag
  BY <1>7, KnjigaPretpostavka DEF Otkucaj, SatNatrag, TypeOK
<1>8. CASE PonovnoPokreni
  <2>1. UNCHANGED <<knjiga, svijet, prati, sat>> /\ zadnja' = 0
        /\ povrsina' = Obnovljena(knjiga, povrsina)
    BY <1>8 DEF PonovnoPokreni
  <2>2. knjiga \in SUBSET Verzija /\ knjiga \subseteq svijet  BY DEF TypeOK
  <2>3. povrsina' \in [Zapis -> svijet \cup {Nema}]
    BY <2>1, <2>2, ObnovljenaTip DEF TypeOK
  <2> QED  BY <2>1, <2>3 DEF TypeOK
<1>9. CASE UNCHANGED vars  BY <1>9 DEF vars, TypeOK
<1> QED  BY <1>1, <1>2, <1>3, <1>4, <1>5, <1>6, <1>7, <1>8, <1>9 DEF Next

\* Every state of the ledger is well typed, and no two versions anyone wrote
\* share a label (ledger.go, Record and ArchiveNakon).
THEOREM KnjigaTipOcuvan == Spec => []TypeOK
<1> QED  BY PocetniTip, KorakTip, PTL DEF Spec

-----------------------------------------------------------------------------
(* Maintenance keeps the frontier *)

\* What is deleted outside the largest versions of the frontier lowers nothing.
LEMMA BrisanjeIspodGranice ==
    ASSUME TypeOK, NEW S, Brisi(S), S \cap NajveceUGranici = {},
           NEW a \in Cvor, NEW k \in Kanali
    PROVE  Granica(a, k)' >= Granica(a, k)
<1> DEFINE G == OdKljuca(UGranici(knjiga), a, k)
           H == OdKljuca(UGranici(knjiga \ S), a, k)
<1>1. knjiga' = knjiga \ S /\ sat' = sat /\ zadnja' = zadnja  BY DEF Brisi
<1>2. Sada' = Sada  BY <1>1 DEF Sada
<1>3. OdKljuca(UGranici(knjiga), a, k)' = H
  BY <1>1, <1>2 DEF OdKljuca, UGranici
<1>4. Granica(a, k)' = (IF H = {} THEN 0 ELSE Najveca(H).oznaka)
  BY <1>3 DEF Granica
<1>5. Granica(a, k) = (IF G = {} THEN 0 ELSE Najveca(G).oznaka)
  BY DEF Granica
<1>6. G \in SUBSET Verzija /\ H \subseteq G /\ H \in SUBSET Verzija
  BY DEF OdKljuca, UGranici, TypeOK
<1>7. CASE G = {}
  <2>1. H = {}  BY <1>6, <1>7
  <2>2. Granica(a, k)' = 0 /\ Granica(a, k) = 0  BY <1>4, <1>5, <1>7, <2>1
  <2> QED  BY <2>2
<1>8. CASE G # {}
  <2> DEFINE m == Najveca(G)
  <2>1. m \in G  BY <1>6, <1>8, NajvecaPostoji
  <2>2. m \in UGranici(knjiga) /\ m.autor = a /\ m.kanal = k  BY <2>1 DEF OdKljuca
  <2>3. m \in NajveceUGranici  BY <2>2 DEF NajveceUGranici, NajvecePoKljucu
  <2>4. m \notin S  BY <2>3
  <2>5. m \in H  BY <2>2, <2>4 DEF OdKljuca, UGranici
  <2>6. Najveca(H) \in H /\ m.oznaka <= Najveca(H).oznaka  BY <1>6, <2>5, NajvecaPostoji
  <2>7. m.oznaka \in Nat /\ Najveca(H).oznaka \in Nat  BY <1>6, <2>1, <2>6, OznakeSu
  <2>8. Granica(a, k)' = Najveca(H).oznaka /\ Granica(a, k) = m.oznaka
    BY <1>4, <1>5, <1>8, <2>5
  <2> QED  BY <2>6, <2>7, <2>8
<1> QED  BY <1>7, <1>8

\* Maintenance never lowers the frontier of an author in a channel
\* (sazimljive, spomeniciZaBrisanje, Prorijedi, ProrijediZamijenjene, and
\* DeleteVersion when the exchange would receive the whole ledger).
THEOREM GranicaNePadaOcuvana == Spec => GranicaNePada
<1> DEFINE A == Odrzavanje /\ (DeleteVersion => SveUGranici) =>
                    \A a \in Cvor, k \in Kanali : Granica(a, k)' >= Granica(a, k)
<1>1. TypeOK => A
  <2> SUFFICES ASSUME TypeOK, Odrzavanje, DeleteVersion => SveUGranici,
                      NEW a \in Cvor, NEW k \in Kanali
               PROVE  Granica(a, k)' >= Granica(a, k)
    OBVIOUS
  <2>1. CASE Sazmi
    <3>1. PICK S \in SUBSET Sazimljive : Brisi(S)  BY <2>1 DEF Sazmi
    <3> QED  BY <3>1, BrisanjeIspodGranice DEF Sazimljive
  <2>2. CASE PurgeArchived
    BY <2>2, BrisanjeIspodGranice DEF PurgeArchived, SpomeniciZaBrisanje
  <2>3. CASE DeleteVersion
    <3>1. PICK v \in SmijeBrisati : Brisi({v})  BY <2>3 DEF DeleteVersion
    <3>2. NajveceUGranici = NajvecePoKljucu(knjiga)  BY <2>3 DEF SveUGranici, NajveceUGranici
    <3> QED  BY <3>1, <3>2, BrisanjeIspodGranice DEF SmijeBrisati
  <2>4. CASE Prorijedi
    <3>1. PICK S \in SUBSET Prorijedive : Brisi(S)  BY <2>4 DEF Prorijedi
    <3> QED  BY <3>1, BrisanjeIspodGranice DEF Prorijedive
  <2>5. CASE ProrijediZamijenjene
    BY <2>5, BrisanjeIspodGranice DEF ProrijediZamijenjene, Zamijenjene
  <2> QED  BY <2>1, <2>2, <2>3, <2>4, <2>5 DEF Odrzavanje
<1>2. TypeOK => [A]_vars  BY <1>1
<1> QED  BY <1>2, KnjigaTipOcuvan, PTL DEF GranicaNePada

-----------------------------------------------------------------------------
(* Maintenance keeps what a rebuild shows *)

\* A record whose last version stays is rebuilt as before.
LEMMA BrisanjeIspodZadnje ==
    ASSUME TypeOK, NEW S, Brisi(S), S \cap ZadnjaZapisa(knjiga) = {}, NEW z \in Zapis
    PROVE  IzKnjige(knjiga', z) = IzKnjige(knjiga, z)
<1> DEFINE G == OdZapisa(knjiga, z)
           H == OdZapisa(knjiga', z)
<1>1. knjiga' = knjiga \ S  BY DEF Brisi
<1>2. H \subseteq G /\ G \in SUBSET Verzija /\ H \in SUBSET Verzija
      /\ \A v, w \in G : v.oznaka = w.oznaka => v = w
  BY <1>1 DEF OdZapisa, TypeOK
<1>3. CASE G = {}
  BY <1>2, <1>3 DEF IzKnjige, NajvecaIli
<1>4. CASE G # {}
  <2> DEFINE m == Najveca(G)
  <2>1. m \in G /\ \A w \in G : w.oznaka <= m.oznaka  BY <1>2, <1>4, NajvecaPostoji
  <2>2. m \in knjiga /\ m.zapis = z  BY <2>1 DEF OdZapisa
  <2>3. m \in ZadnjaZapisa(knjiga)  BY <2>2 DEF ZadnjaZapisa
  <2>4. m \in H  BY <1>1, <2>2, <2>3 DEF OdZapisa
  <2> HIDE DEF m
  <2>5. Najveca(H) = m  BY <1>2, <2>1, <2>4, NajvecaJedina
  <2>6. NajvecaIli(H) = m /\ NajvecaIli(G) = m  BY <1>4, <2>4, <2>5 DEF NajvecaIli, m
  <2> QED  BY <2>6 DEF IzKnjige
<1> QED  BY <1>3, <1>4

\* Each kind of maintenance leaves a record as a rebuild would show it.
LEMMA OdrzavanjeIsto ==
    ASSUME TypeOK, NEW z \in Zapis \ Prognoza,
           Sazmi \/ PurgeArchived \/ DeleteVersion \/ Prorijedi \/ ProrijediZamijenjene
    PROVE  IzKnjige(knjiga', z) = IzKnjige(knjiga, z)
<1>1. CASE Sazmi
  <2>1. PICK S \in SUBSET Sazimljive : Brisi(S)  BY <1>1 DEF Sazmi
  <2> QED  BY <2>1, BrisanjeIspodZadnje DEF Sazimljive
<1>2. CASE PurgeArchived
  <2> DEFINE D == SpomeniciZaBrisanje
             G == OdZapisa(knjiga, z)
             H == OdZapisa(knjiga', z)
  <2>1. knjiga' = knjiga \ D  BY <1>2 DEF PurgeArchived, Brisi
  <2>2. G \in SUBSET Verzija /\ H \in SUBSET Verzija /\ H \subseteq G
    BY <2>1 DEF OdZapisa, TypeOK
  <2>3. CASE \A w \in G : w.arh
    <3>1. \A X \in SUBSET G : NajvecaIli(X) = Nema \/ NajvecaIli(X).arh
      BY <2>2, <2>3, NajvecaPostoji DEF NajvecaIli
    <3>2. IzKnjige(knjiga, z) = Nema  BY <3>1 DEF IzKnjige
    <3>3. IzKnjige(knjiga', z) = Nema  BY <2>2, <3>1 DEF IzKnjige
    <3> QED  BY <3>2, <3>3
  <2>4. CASE ~(\A w \in G : w.arh)
    <3>1. H = G  BY <2>1, <2>4 DEF OdZapisa, SpomeniciZaBrisanje
    <3> QED  BY <3>1 DEF IzKnjige
  <2> QED  BY <2>3, <2>4
<1>3. CASE DeleteVersion
  <2>1. PICK v \in SmijeBrisati : Brisi({v})  BY <1>3 DEF DeleteVersion
  <2> QED  BY <2>1, BrisanjeIspodZadnje DEF SmijeBrisati
<1>4. CASE Prorijedi
  <2>1. PICK S \in SUBSET Prorijedive : Brisi(S)  BY <1>4 DEF Prorijedi
  <2>2. OdZapisa(knjiga', z) = OdZapisa(knjiga, z)
    BY <2>1 DEF Prorijedive, Brisi, OdZapisa
  <2> QED  BY <2>2 DEF IzKnjige
<1>5. CASE ProrijediZamijenjene
  BY <1>5, BrisanjeIspodZadnje DEF ProrijediZamijenjene, Zamijenjene
<1> QED  BY <1>1, <1>2, <1>3, <1>4, <1>5

\* No deleted record comes back, and no record falls back to an older
\* version, by maintenance (sazimljive, spomeniciZaBrisanje,
\* stanjeZaBrisanje, ProrijediZamijenjene).
THEOREM ObnovaIstaOcuvana == Spec => ObnovaPokazujeIsto
<1> DEFINE A == Odrzavanje =>
                    \A z \in Zapis \ Prognoza : IzKnjige(knjiga', z) = IzKnjige(knjiga, z)
<1>1. TypeOK => A
  BY OdrzavanjeIsto DEF Odrzavanje
<1>2. TypeOK => [A]_vars  BY <1>1
<1> QED  BY <1>2, KnjigaTipOcuvan, PTL DEF ObnovaPokazujeIsto

-----------------------------------------------------------------------------
(* The deletion of a channel *)

\* What PurgeChannel writes: a tombstone a millisecond behind each it repeats.
LEMMA PonovljeniSu ==
    ASSUME TypeOK, NEW k \in Kanal, PurgeChannel(k)
    PROVE  \E f \in [TudjiSpomenici(k) -> Oznake] :
              LET R == {Ponovljen(v, f[v]) : v \in TudjiSpomenici(k)}
              IN  /\ knjiga' = (knjiga \ {v \in knjiga : v.kanal = k /\ v.autor # Ja}) \cup R
                  /\ svijet' = svijet \cup R
                  /\ \A v \in TudjiSpomenici(k) :
                        /\ v \in knjiga /\ v \in svijet /\ v \in Verzija /\ v.arh
                        /\ Ponovljen(v, f[v]).oznaka = f[v]
                        /\ Ponovljen(v, f[v]).zapis = v.zapis
                        /\ Ponovljen(v, f[v]).arh
                        /\ Vrijeme(f[v]) = Vrijeme(v.oznaka) + 1
<1> DEFINE T == TudjiSpomenici(k)
           R(f) == {Ponovljen(v, f[v]) : v \in T}
<1>1. PICK f \in [T -> Oznake] :
          /\ \A v \in T : f[v] \in OznakeIza(v)
          /\ knjiga' = (knjiga \ {v \in knjiga : v.kanal = k /\ v.autor # Ja}) \cup R(f)
          /\ svijet' = svijet \cup R(f)
  BY Zenon DEF PurgeChannel
<1>2. ASSUME NEW v \in T
      PROVE  /\ v \in knjiga /\ v \in svijet /\ v \in Verzija /\ v.arh
             /\ Ponovljen(v, f[v]).oznaka = f[v]
             /\ Ponovljen(v, f[v]).zapis = v.zapis
             /\ Ponovljen(v, f[v]).arh
             /\ Vrijeme(f[v]) = Vrijeme(v.oznaka) + 1
  <2>1. v \in knjiga /\ v \in svijet /\ v \in Verzija /\ v.arh
    BY DEF TudjiSpomenici, TypeOK
  <2>2. Vrijeme(f[v]) = Vrijeme(v.oznaka) + 1  BY <1>1 DEF OznakeIza
  <2>3. /\ Ponovljen(v, f[v]).oznaka = f[v]
        /\ Ponovljen(v, f[v]).zapis = v.zapis
        /\ Ponovljen(v, f[v]).arh
    BY <2>1 DEF Ponovljen, Verzija
  <2> QED  BY <2>1, <2>2, <2>3
<1> QED  BY <1>1, <1>2, Zenon

\* An earlier moment means a smaller label.
LEMMA VrijemeRaste ==
    ASSUME NEW a \in Nat, NEW b \in Nat, Vrijeme(a) < Vrijeme(b)
    PROVE  a < b
BY DEF Vrijeme

\* The deletion of a channel changes nothing for a node that holds everything:
\* the tombstones it repeats (ArchiveNakon) stay below what was written later.
THEOREM IshodOcuvan == Spec => BrisanjeKanalaNeMijenjaIshod
<1> DEFINE Kasnija(w, z) ==
               /\ w # Nema
               /\ \A v \in OdZapisa(svijet, z) :
                      v.arh => Vrijeme(v.oznaka) + 1 < Vrijeme(w.oznaka)
           A == (\E k \in Kanal : PurgeChannel(k)) =>
                  \A z \in Zapis :
                     LET w == IzKnjige(svijet, z)
                     IN  (/\ w # Nema
                          /\ \A v \in OdZapisa(svijet, z) :
                                v.arh => Vrijeme(v.oznaka) + 1 < Vrijeme(w.oznaka))
                         => IzKnjige(svijet', z) = w
<1>1. TypeOK /\ TypeOK' => A
  <2> SUFFICES ASSUME TypeOK, TypeOK', NEW k \in Kanal, PurgeChannel(k), NEW z \in Zapis,
                      Kasnija(IzKnjige(svijet, z), z)
               PROVE  IzKnjige(svijet', z) = IzKnjige(svijet, z)
    OBVIOUS
  <2> DEFINE T == TudjiSpomenici(k)
             G == OdZapisa(svijet, z)
             H == OdZapisa(svijet', z)
             w == IzKnjige(svijet, z)
  <2>1. PICK f \in [T -> Oznake] :
            /\ svijet' = svijet \cup {Ponovljen(v, f[v]) : v \in T}
            /\ \A v \in T : /\ v \in svijet /\ v \in Verzija /\ v.arh
                            /\ Ponovljen(v, f[v]).oznaka = f[v]
                            /\ Ponovljen(v, f[v]).zapis = v.zapis
                            /\ Vrijeme(f[v]) = Vrijeme(v.oznaka) + 1
    BY PonovljeniSu
  <2>2. G \in SUBSET Verzija /\ H \in SUBSET Verzija
        /\ \A x, y \in H : x.oznaka = y.oznaka => x = y
    BY DEF OdZapisa, TypeOK
  <2>3. w # Nema /\ w = Najveca(G) /\ G # {} /\ ~w.arh
    BY DEF IzKnjige, NajvecaIli
  <2>4. w \in G /\ \A x \in G : x.oznaka <= w.oznaka  BY <2>2, <2>3, NajvecaPostoji
  <2>5. w \in H  BY <2>1, <2>4 DEF OdZapisa
  <2>6. ASSUME NEW x \in H  PROVE x.oznaka <= w.oznaka
    <3>1. CASE x \in svijet
      BY <2>4, <3>1 DEF OdZapisa
    <3>2. CASE x \notin svijet
      <4>1. PICK v \in T : x = Ponovljen(v, f[v])  BY <2>1, <3>2 DEF OdZapisa
      <4>2. v \in G /\ v.arh  BY <2>1, <4>1 DEF OdZapisa
      <4>3. Vrijeme(x.oznaka) = Vrijeme(v.oznaka) + 1  BY <2>1, <4>1
      <4>4. Vrijeme(x.oznaka) < Vrijeme(w.oznaka)  BY <4>2, <4>3
      <4>5. x.oznaka \in Nat /\ w.oznaka \in Nat  BY <2>2, <2>4, OznakeSu
      <4>6. x.oznaka < w.oznaka  BY <4>4, <4>5, VrijemeRaste
      <4> QED  BY <4>5, <4>6
    <3> QED  BY <3>1, <3>2
  <2> HIDE DEF w, H
  <2>7. Najveca(H) = w  BY <2>2, <2>5, <2>6, NajvecaJedina
  <2> USE DEF H
  <2>8. NajvecaIli(OdZapisa(svijet', z)) = w  BY <2>5, <2>7 DEF NajvecaIli
  <2>9. IzKnjige(svijet', z) = w  BY <2>3, <2>8 DEF IzKnjige
  <2> QED  BY <2>9 DEF w
<1>2. TypeOK /\ TypeOK' => [A]_vars  BY <1>1
<1> QED  BY <1>2, KnjigaTipOcuvan, PTL DEF BrisanjeKanalaNeMijenjaIshod

-----------------------------------------------------------------------------
(* Deleted stays deleted *)

\* A tombstone at or above what was last keeps the record down, unless
\* something newer came.
LEMMA SpomenikDrzi ==
    ASSUME TypeOK', NEW z \in Zapis, NEW v \in Verzija, NEW x \in OdZapisa(knjiga', z),
           x.arh, v.oznaka <= x.oznaka, IzKnjige(knjiga', z) # Nema
    PROVE  IzKnjige(knjiga', z).oznaka > v.oznaka
<1> DEFINE H == OdZapisa(knjiga', z)
           w == IzKnjige(knjiga', z)
<1>1. H \in SUBSET Verzija /\ \A a, b \in H : a.oznaka = b.oznaka => a = b
  BY DEF OdZapisa, TypeOK
<1>2. w = Najveca(H) /\ ~w.arh  BY DEF IzKnjige, NajvecaIli
<1>3. w \in H /\ x.oznaka <= w.oznaka  BY <1>1, <1>2, NajvecaPostoji
<1>4. x.oznaka # w.oznaka  BY <1>1, <1>2, <1>3
<1>5. x.oznaka \in Nat /\ w.oznaka \in Nat /\ v.oznaka \in Nat  BY <1>1, <1>3, OznakeSu
<1> HIDE DEF w
<1>6. w.oznaka > v.oznaka  BY <1>3, <1>4, <1>5
<1> QED  BY <1>6 DEF w

\* A record written here whose last version is a deletion comes back only by a
\* newer version (vlastitoUKnjizi, HandleOcistiKnjigu, Compact and the rest).
THEOREM ObrisanoOcuvano == Spec => VlastitoOstajeObrisano
<1> DEFINE A == \A z \in Zapis \ Prognoza :
                   LET v == NajvecaIli(OdZapisa(knjiga, z))
                       w == IzKnjige(knjiga', z)
                   IN  (/\ Vlastite(OdZapisa(knjiga, z)) # {}
                        /\ v.arh /\ Ispravna(v, sat)
                        /\ w # Nema) => w.oznaka > v.oznaka
<1>1. TypeOK /\ TypeOK' /\ Next => A
  <2> SUFFICES ASSUME TypeOK, TypeOK', Next, NEW z \in Zapis \ Prognoza,
                      Vlastite(OdZapisa(knjiga, z)) # {},
                      NajvecaIli(OdZapisa(knjiga, z)).arh,
                      Ispravna(NajvecaIli(OdZapisa(knjiga, z)), sat),
                      IzKnjige(knjiga', z) # Nema
               PROVE  IzKnjige(knjiga', z).oznaka > NajvecaIli(OdZapisa(knjiga, z)).oznaka
    OBVIOUS
  <2> DEFINE G == OdZapisa(knjiga, z)
             v == NajvecaIli(G)
  <2>1. G # {} /\ G \in SUBSET Verzija /\ v = Najveca(G)
        /\ \A x, y \in G : x.oznaka = y.oznaka => x = y
    BY DEF Vlastite, NajvecaIli, OdZapisa, TypeOK
  <2>2. v \in G /\ v \in Verzija /\ \A x \in G : x.oznaka <= v.oznaka
    BY <2>1, NajvecaPostoji
  <2>3. v \in knjiga /\ v.zapis = z /\ v.oznaka \in Nat  BY <2>2, OznakeSu DEF OdZapisa
  <2> HIDE DEF v
  <2>4. v.arh /\ Ispravna(v, sat)  BY DEF v
  <2>5. ASSUME v \in knjiga'  PROVE IzKnjige(knjiga', z).oznaka > v.oznaka
    <3>1. v \in OdZapisa(knjiga', z) /\ v.oznaka <= v.oznaka  BY <2>3, <2>5 DEF OdZapisa
    <3> QED  BY <2>2, <2>4, <3>1, SpomenikDrzi
  <2>6. ASSUME NEW u \in UpisiKanala, NEW arh \in BOOLEAN, Upisi(u[1], u[2], arh)
        PROVE  v \in knjiga'
    BY <2>3, <2>6 DEF Upisi
  <2>7. ASSUME NEW S \in SUBSET Primljive, Primi(S)  PROVE v \in knjiga'
    BY <2>3, <2>7 DEF Primi, Apply
  <2>8. ~(Sazmi \/ PurgeArchived \/ DeleteVersion \/ Prorijedi \/ ProrijediZamijenjene)
    <3>1. IzKnjige(knjiga, z) = Nema  BY <2>4 DEF IzKnjige, v
    <3> QED  BY <3>1, OdrzavanjeIsto
  <2>9. ASSUME NEW k \in Kanal, PurgeChannel(k)
        PROVE  IzKnjige(knjiga', z).oznaka > v.oznaka
    <3> DEFINE T == TudjiSpomenici(k)
    <3>1. PICK f \in [T -> Oznake] :
              /\ knjiga' = (knjiga \ {x \in knjiga : x.kanal = k /\ x.autor # Ja})
                             \cup {Ponovljen(x, f[x]) : x \in T}
              /\ \A x \in T : /\ Ponovljen(x, f[x]).oznaka = f[x]
                              /\ Ponovljen(x, f[x]).zapis = x.zapis
                              /\ Ponovljen(x, f[x]).arh
                              /\ Vrijeme(f[x]) = Vrijeme(x.oznaka) + 1
      BY <2>9, PonovljeniSu
    <3>2. CASE v.kanal # k \/ v.autor = Ja
      BY <2>3, <2>5, <3>1, <3>2
    <3>3. CASE v.kanal = k /\ v.autor # Ja
      <4>1. v \in UGranici(knjiga)
        <5>1. sat \in Nat /\ Sada \in Nat /\ sat <= Sada
          <6>1. sat \in Nat /\ Vrijeme(zadnja) \in Nat
            BY KnjigaPretpostavka DEF TypeOK, Vrijeme, Oznake
          <6> QED  BY <6>1 DEF Sada
        <5>2. Vrijeme(v.oznaka) \in Nat  BY <2>3 DEF Vrijeme
        <5>3. Ispravna(v, Sada)
          BY <2>4, <5>1, <5>2, KnjigaPretpostavka DEF Ispravna
        <5> QED  BY <2>3, <5>3 DEF UGranici
      <4> DEFINE U == OdZapisa(UGranici(knjiga), z)
      <4>2. v \in U /\ U \subseteq G  BY <2>3, <4>1 DEF OdZapisa, UGranici
      <4>3. Najveca(U) = v
        <5>1. U \in SUBSET Verzija /\ \A x, y \in U : x.oznaka = y.oznaka => x = y
          BY <2>1, <4>2
        <5>2. \A x \in U : x.oznaka <= v.oznaka  BY <2>2, <4>2
        <5> HIDE DEF U
        <5> QED  BY <4>2, <5>1, <5>2, NajvecaJedina
      <4>4. v = NajvecaIli(U)  BY <4>2, <4>3 DEF NajvecaIli
      <4>5. v \in T  BY <2>3, <2>4, <3>3, <4>4 DEF TudjiSpomenici
      <4> DEFINE x == Ponovljen(v, f[v])
      <4>6. x \in knjiga' /\ x.arh /\ x.zapis = z /\ x.oznaka = f[v]
            /\ Vrijeme(f[v]) = Vrijeme(v.oznaka) + 1
        BY <2>3, <3>1, <4>5
      <4>7. x.oznaka \in Nat /\ f[v] \in Nat  BY <3>1, <4>5, <4>6, OznakeSu
      <4>8. v.oznaka < f[v]
        <5>1. Vrijeme(v.oznaka) < Vrijeme(f[v])  BY <2>3, <4>6 DEF Vrijeme
        <5> QED  BY <2>3, <4>7, <5>1, VrijemeRaste
      <4>9. x \in OdZapisa(knjiga', z) /\ v.oznaka <= x.oznaka
        BY <2>3, <4>6, <4>7, <4>8 DEF OdZapisa
      <4> HIDE DEF x
      <4> QED  BY <2>2, <4>6, <4>9, SpomenikDrzi
    <3> QED  BY <3>2, <3>3
  <2>10. ASSUME ObrisiNeispravne  PROVE v \in knjiga'
    BY <2>3, <2>4, <2>10 DEF ObrisiNeispravne
  <2>11. ASSUME \/ \E k \in Kanal : PromijeniPretplatu(k)
                \/ Otkucaj \/ SatNatrag \/ PonovnoPokreni
         PROVE  v \in knjiga'
    BY <2>3, <2>11 DEF PromijeniPretplatu, Otkucaj, SatNatrag, PonovnoPokreni
  <2>12. IzKnjige(knjiga', z).oznaka > v.oznaka
    BY <2>5, <2>6, <2>7, <2>8, <2>9, <2>10, <2>11 DEF Next
  <2> QED  BY <2>12 DEF v
<1>2. TypeOK /\ TypeOK' /\ [Next]_vars => [A]_vars  BY <1>1
<1> QED  BY <1>2, KnjigaTipOcuvan, PTL DEF Spec, VlastitoOstajeObrisano
-----------------------------------------------------------------------------
(* The surface follows the ledger *)

\* What enters brings the record to the surface when it is its last version,
\* and changes nothing of it otherwise.
LEMMA PrimljenoSlaze ==
    ASSUME TypeOK, NEW S \in SUBSET Primljive, Primi(S), NEW z \in Zapis,
           Slazu(z), OdZapisa(knjiga', z) # {}
    PROVE  Slazu(z)'
<1> DEFINE G == OdZapisa(knjiga, z)
           H == OdZapisa(knjiga', z)
           m == Najveca(H)
<1>1. knjiga' = knjiga \cup S /\ S \subseteq svijet
      /\ povrsina' = PrimijenjenaPovrsina(knjiga', S)
  BY DEF Primi, Apply, Primljive
<1>2. G \subseteq H /\ G \in SUBSET Verzija /\ H \in SUBSET Verzija
      /\ \A v, w \in H : v.oznaka = w.oznaka => v = w
  BY <1>1 DEF OdZapisa, TypeOK
<1>3. m \in H /\ (\A w \in H : w.oznaka <= m.oznaka) /\ NajvecaIli(H) = m
  BY <1>2, NajvecaPostoji DEF NajvecaIli
<1> HIDE DEF m
<1>4. povrsina'[z] = IF m \in S THEN IzKnjige(knjiga', z) ELSE povrsina[z]
  BY <1>1, <1>3 DEF PrimijenjenaPovrsina
<1>5. CASE m \in S
  BY <1>4, <1>5 DEF Slazu
<1>6. CASE m \notin S
  <2>1. m \in G  BY <1>1, <1>3, <1>6 DEF OdZapisa
  <2>2. Najveca(G) = m  BY <1>2, <1>3, <2>1, NajvecaJedina
  <2>3. NajvecaIli(G) = m  BY <2>1, <2>2 DEF NajvecaIli
  <2>4. IzKnjige(knjiga, z) = IzKnjige(knjiga', z)  BY <1>3, <2>3 DEF IzKnjige
  <2> QED  BY <1>4, <1>6, <2>4 DEF Slazu
<1> QED  BY <1>5, <1>6

\* A rebuild shows what the ledger says of every record it has.
LEMMA ObnovljenaSlaze ==
    ASSUME NEW z \in Zapis, povrsina' = Obnovljena(knjiga', povrsina), OdZapisa(knjiga', z) # {}
    PROVE  Slazu(z)'
BY DEF Obnovljena, Slazu

\* An own record that loses versions with a channel is brought back from the
\* ledger; one that loses none stays.
LEMMA ObrisanKanalSlaze ==
    ASSUME TypeOK, NEW k \in Kanal, PurgeChannel(k), NEW z \in Zapis,
           Slazu(z), Vlastite(OdZapisa(knjiga, z)) # {}
    PROVE  Slazu(z)'
<1> DEFINE T == TudjiSpomenici(k)
           tudje == {v \in knjiga : v.kanal = k /\ v.autor # Ja}
           R(f) == {Ponovljen(v, f[v]) : v \in T}
           nova(f) == (knjiga \ tudje) \cup R(f)
<1>1. PICK f \in [T -> Oznake] :
          /\ knjiga' = nova(f)
          /\ povrsina' = [y \in Zapis |->
                CASE y \in ZaObnovu(k) -> IzKnjige(nova(f), y)
                  [] y \in SPovrsine(k) -> Nema
                  [] OTHER -> povrsina[y]]
  BY Zenon DEF PurgeChannel
<1>2. z \notin SPovrsine(k)  BY DEF SPovrsine
<1>4. CASE z \in ZaObnovu(k)
  <2> HIDE DEF nova
  <2>1. povrsina'[z] = IzKnjige(nova(f), z)  BY <1>1, <1>2, <1>4
  <2> QED  BY <1>1, <2>1 DEF Slazu
<1>3. CASE z \notin ZaObnovu(k)
  <2>2. povrsina'[z] = povrsina[z]  BY <1>1, <1>2, <1>3
  <2>3. \A v \in OdZapisa(knjiga, z) : ~(v.kanal = k /\ v.autor # Ja)
    BY <1>3 DEF ZaObnovu
  <2>4. \A v \in T : v \in knjiga /\ v \in Verzija /\ v.kanal = k /\ v.autor # Ja
    BY DEF TudjiSpomenici, TypeOK
  <2>5. \A v \in T : v.zapis # z /\ Ponovljen(v, f[v]).zapis = v.zapis
    BY <2>3, <2>4 DEF OdZapisa, Ponovljen, Verzija
  <2>6. OdZapisa(knjiga', z) = OdZapisa(knjiga, z)
    BY <1>1, <2>3, <2>5 DEF OdZapisa
  <2> QED  BY <2>2, <2>6 DEF Slazu, IzKnjige
<1> QED  BY <1>3, <1>4

\* Surface and ledger part only by an own write below the last version, by a
\* record the maintenance empties, and by a channel that leaves with records
\* of others (applyRecordRowTx, PurgeArchived, PurgeChannel): no other step
\* makes a row differ from what a rebuild would show.
THEOREM PovrsinaPratiOcuvana == Spec => PovrsinaPratiKnjigu
<1> DEFINE A == \A z \in Zapis \ Prognoza :
                   /\ Slazu(z)
                   /\ OdZapisa(knjiga', z) # {}
                   /\ (\A v \in knjiga' \ knjiga : v.zapis = z /\ v.autor = Ja =>
                           v = Najveca(OdZapisa(knjiga', z)))
                   /\ (Vlastite(OdZapisa(knjiga, z)) # {} \/ Kanal \ prati = {})
                   => Slazu(z)'
<1>1. TypeOK /\ Next => A
  <2> SUFFICES ASSUME TypeOK, Next, NEW z \in Zapis \ Prognoza, Slazu(z),
                      OdZapisa(knjiga', z) # {},
                      \A v \in knjiga' \ knjiga : v.zapis = z /\ v.autor = Ja =>
                           v = Najveca(OdZapisa(knjiga', z)),
                      Vlastite(OdZapisa(knjiga, z)) # {} \/ Kanal \ prati = {}
               PROVE  Slazu(z)'
    OBVIOUS
  <2>1. ASSUME NEW u \in UpisiKanala, NEW arh \in BOOLEAN, Upisi(u[1], u[2], arh)
        PROVE  Slazu(z)'
    <3> DEFINE v(o) == NoviUpis(o, u[1], u[2], arh)
    <3>1. PICK o \in NoveOznake :
              /\ knjiga' = knjiga \cup {v(o)}
              /\ povrsina' = [povrsina EXCEPT ![u[1]] = IF arh THEN Nema ELSE v(o)]
      BY <2>1 DEF Upisi
    <3>2. /\ v(o).oznaka = o /\ v(o).zapis = u[1] /\ v(o).autor = Ja /\ v(o).arh = arh
          /\ v(o) # Nema /\ v(o) \notin knjiga
      <4>1. o \in Oznake /\ \A w \in svijet : w.oznaka # o  BY DEF NoveOznake
      <4>2. u[1] \in Zapis /\ u[2] \in Kanali  BY KnjigaPretpostavka
      <4>3. v(o) \in Verzija  BY <4>1, <4>2 DEF NoviUpis, Verzija, Cvor
      <4>4. v(o).oznaka = o /\ v(o).zapis = u[1] /\ v(o).autor = Ja /\ v(o).arh = arh
        BY DEF NoviUpis
      <4> HIDE DEF v
      <4>5. v(o) # Nema  BY <4>3, KnjigaPretpostavka
      <4>6. v(o) \notin knjiga  BY <4>1, <4>4 DEF TypeOK
      <4> QED  BY <4>4, <4>5, <4>6
    <3> HIDE DEF v
    <3>3. povrsina \in [Zapis -> svijet \cup {Nema}]  BY DEF TypeOK
    <3>4. CASE u[1] = z
      <4>1. v(o) = Najveca(OdZapisa(knjiga', z))  BY <3>1, <3>2, <3>4
      <4>2. NajvecaIli(OdZapisa(knjiga', z)) = v(o)  BY <4>1 DEF NajvecaIli
      <4>3. povrsina'[z] = IF arh THEN Nema ELSE v(o)  BY <3>1, <3>3, <3>4
      <4> QED  BY <3>2, <4>2, <4>3 DEF Slazu, IzKnjige
    <3>5. CASE u[1] # z
      <4>1. OdZapisa(knjiga', z) = OdZapisa(knjiga, z)  BY <3>1, <3>2, <3>5 DEF OdZapisa
      <4>2. povrsina'[z] = povrsina[z]  BY <3>1, <3>3, <3>5
      <4> QED  BY <4>1, <4>2 DEF Slazu, IzKnjige
    <3> QED  BY <3>4, <3>5
  <2>2. ASSUME NEW S \in SUBSET Primljive, Primi(S)  PROVE Slazu(z)'
    BY <2>2, PrimljenoSlaze
  <2>3. CASE Sazmi \/ PurgeArchived \/ DeleteVersion \/ Prorijedi \/ ProrijediZamijenjene
    <3>1. IzKnjige(knjiga', z) = IzKnjige(knjiga, z)  BY <2>3, OdrzavanjeIsto
    <3>2. povrsina' = povrsina
      BY <2>3 DEF Sazmi, PurgeArchived, DeleteVersion, Prorijedi, ProrijediZamijenjene, Brisi
    <3> QED  BY <3>1, <3>2 DEF Slazu
  <2>4. ASSUME NEW k \in Kanal, PurgeChannel(k)  PROVE Slazu(z)'
    <3>1. k \notin prati  BY <2>4 DEF PurgeChannel
    <3> QED  BY <2>4, <3>1, ObrisanKanalSlaze
  <2>5. CASE ObrisiNeispravne
    BY <2>5, ObnovljenaSlaze DEF ObrisiNeispravne
  <2>6. CASE PonovnoPokreni
    <3>1. povrsina' = Obnovljena(knjiga', povrsina)  BY <2>6 DEF PonovnoPokreni
    <3> QED  BY <3>1, ObnovljenaSlaze
  <2>7. CASE (\E k \in Kanal : PromijeniPretplatu(k)) \/ Otkucaj \/ SatNatrag
    <3>1. knjiga' = knjiga /\ povrsina' = povrsina
      BY <2>7 DEF PromijeniPretplatu, Otkucaj, SatNatrag
    <3> QED  BY <3>1 DEF Slazu
  <2> QED  BY <2>1, <2>2, <2>3, <2>4, <2>5, <2>6, <2>7 DEF Next
<1>2. TypeOK /\ [Next]_vars => [A]_vars  BY <1>1
<1> QED  BY <1>2, KnjigaTipOcuvan, PTL DEF Spec, PovrsinaPratiKnjigu
===============================================================================
