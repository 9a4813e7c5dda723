-------------------------- MODULE NadogradnjaDokazi --------------------------
(***************************************************************************)
(* What holds of an upgrade for any releases, number of copies and bounds: *)
(* the types, and that the program an upgrade replaces stays on the disk.  *)
(* The second is not inductive: at most steps of the job it matters at     *)
(* which of the two places the program stands.                             *)
(***************************************************************************)
EXTENDS Nadogradnja, SequenceTheorems, TLAPS

Poslovi == [korak : Koraci, staro : Izdanje \cup {Nema}, novo : Izdanje, radio : BOOLEAN]

\* Where the replaced program stands while the job is at a step: at its place
\* until it is moved, and beside it from there to its return.
Prije == {"gasi", "gasiSe", "kopira", "obrisi", "premjesti"}
Poslije == {"postavi", "pokrece", "ceka", "vracaSe", "odlozi", "vrati"}

StojiNaMjestu ==
    oslonac # Nema /\ posao # Nema =>
        /\ posao.korak \in Prije => datoteka["gocop"] = oslonac
        /\ posao.korak \in Poslije => datoteka["prethodni"] = oslonac
        /\ posao.korak = "prva" => datoteka["gocop"] = Nema

\* What is typed in TypeOK and beside it.
Tipovi ==
    /\ TypeOK
    /\ posao \in Poslovi \cup {Nema}
    /\ klik # "" => postava

IInv ==
    /\ Tipovi
    /\ PrethodniNaDisku
    /\ StojiNaMjestu

-----------------------------------------------------------------------------
(* Types *)

\* Starting a process makes a release run and may raise the database to it.
LEMMA UpaliTip ==
    ASSUME NEW p \in Izdanje, baza \in Izdanje, Upali(p)
    PROVE  proces' \in Izdanje /\ gasiSe' = FALSE /\ baza' \in Izdanje
BY DEF Upali, Veca

\* A start of the node keeps the types of what it changes.
LEMMA PokreniTip ==
    ASSUME TypeOK, Pokreni
    PROVE  /\ baza' \in Izdanje
           /\ proces' \in Izdanje \cup {Nema} /\ gasiSe' \in BOOLEAN /\ (gasiSe' => proces' # Nema)
           /\ zeljeno' \in BOOLEAN /\ pao' \in BOOLEAN /\ padovi' \in Nat /\ buditi' \in Nat
<1> DEFINE p == datoteka["gocop"]
<1>1. p \in Izdanje \cup {Nema}
      BY DEF TypeOK, Mjesta
<1>2. CASE proces = Nema /\ p # Nema
      <2>1. Upali(p)
            BY <1>2 DEF Pokreni
      <2>2. p \in Izdanje
            BY <1>1, <1>2
      <2> QED BY <2>1, <2>2, UpaliTip DEF Pokreni, TypeOK
<1>3. CASE ~(proces = Nema /\ p # Nema)
      BY <1>3 DEF Pokreni, TypeOK
<1> QED BY <1>2, <1>3

\* Cvor.Zaustavi tells only a running process to end.
LEMMA ZaustaviTip ==
    ASSUME TypeOK, Zaustavi
    PROVE  /\ proces' \in Izdanje \cup {Nema} /\ gasiSe' \in BOOLEAN /\ (gasiSe' => proces' # Nema)
           /\ zeljeno' \in BOOLEAN /\ pao' \in BOOLEAN /\ padovi' \in Nat /\ buditi' \in Nat
BY DEF TypeOK, Zaustavi

\* A step of the job changes one field of it.
LEMMA KorakTip ==
    ASSUME NEW k \in Koraci, posao \in Poslovi, Korak(k)
    PROVE  posao' \in Poslovi /\ posao'.korak = k /\ posao'.novo = posao.novo
BY DEF Korak, Poslovi

\* A copy is added at the end and the oldest goes: never more than are kept.
LEMMA KopijeTip ==
    ASSUME NadogradnjaPretpostavka, NEW S \in Seq(Izdanje), Len(S) <= CuvajKopija,
           NEW b \in Izdanje
    PROVE  LET sve == Append(S, b)
               nove == IF Len(sve) > CuvajKopija THEN Tail(sve) ELSE sve
           IN  nove \in Seq(Izdanje) /\ Len(nove) <= CuvajKopija
<1> DEFINE sve == Append(S, b)
<1>1. sve \in Seq(Izdanje) /\ Len(sve) = Len(S) + 1 /\ sve # <<>>
      BY AppendProperties
<1>2. Tail(sve) \in Seq(Izdanje) /\ Len(Tail(sve)) = Len(sve) - 1
      BY <1>1, HeadTailProperties
<1> QED BY <1>1, <1>2 DEF NadogradnjaPretpostavka

\* A rename (zamijeni) leaves every place with a release or empty.
LEMMA PremjestiTip ==
    ASSUME TypeOK, NEW iz \in Mjesta, NEW u \in Mjesta, Premjesti(iz, u)
    PROVE  datoteka' \in [Mjesta -> Izdanje \cup {Nema}]
BY DEF TypeOK, Premjesti

\* Counting up and down stays in the natural numbers.
LEMMA Brojac ==
    ASSUME NEW b \in Nat
    PROVE  b + 1 \in Nat /\ (b > 0 => b # 0 /\ b - 1 \in Nat)
OBVIOUS

\* No step of the job, the tray or the machine breaks a type.
LEMMA TipoviKorak ==
    ASSUME Tipovi, [Next]_vars
    PROVE  Tipovi'
<1> USE NadogradnjaPretpostavka
<1> USE DEF Tipovi
<1>1. CASE UNCHANGED vars
      BY <1>1 DEF vars, stanjeCvora, granice, TypeOK
<1>2. ASSUME NEW novo \in Izdanje, Nadogradi(novo) PROVE Tipovi'
      <2>1. datoteka' \in [Mjesta -> Izdanje \cup {Nema}]
            BY <1>2 DEF Nadogradi, TypeOK
      <2>2. posao' \in Poslovi
            BY <1>2 DEF Nadogradi, TypeOK, Poslovi, Koraci, Mjesta
      <2> QED BY <1>2, <2>1, <2>2 DEF Nadogradi, TypeOK, stanjeCvora, Poslovi
<1>3. CASE Izadi
      <2>1. padovi' \in Nat /\ buditi' \in Nat
            <3>1. padovi \in Nat /\ buditi \in Nat
                  BY DEF TypeOK
            <3>2. padovi' = padovi \/ padovi' = padovi + 1
                  BY <1>3, Zenon DEF Izadi
            <3>3. buditi' = buditi \/ buditi' = buditi + 1
                  BY <1>3, Zenon DEF Izadi
            <3>4. padovi' \in Nat
                  BY <3>1, <3>2, Brojac, Zenon
            <3>5. buditi' \in Nat
                  BY <3>1, <3>3, Brojac, Zenon
            <3> QED BY <3>4, <3>5
      <2>2. pao' \in BOOLEAN /\ gasiSe' = FALSE /\ proces' = Nema /\ postava
            BY <1>3 DEF Izadi, TypeOK
      <2> QED BY <1>3, <2>1, <2>2 DEF Izadi, TypeOK, granice
<1>4. CASE Budi
      <2>0. buditi' \in Nat /\ postava
            <3>1. buditi \in Nat /\ buditi > 0 /\ buditi' = buditi - 1
                  BY <1>4 DEF Budi, TypeOK
            <3>2. buditi # 0 /\ buditi' \in Nat
                  BY <3>1, Brojac, Zenon
            <3>3. postava
                  BY <3>2, Zenon DEF TypeOK
            <3> QED BY <3>2, <3>3
      <2>1. CASE zeljeno /\ proces = Nema /\ ~pao /\ datoteka["gocop"] # Nema
            <3>1. datoteka["gocop"] \in Izdanje
                  BY <2>1 DEF TypeOK, Mjesta
            <3>2. Upali(datoteka["gocop"])
                  BY <1>4, <2>1 DEF Budi
            <3>3. proces' \in Izdanje /\ gasiSe' = FALSE /\ baza' \in Izdanje
                  BY <3>1, <3>2, UpaliTip DEF TypeOK
            <3> QED BY <1>4, <2>0, <3>3 DEF Budi, TypeOK, granice
      <2>2. CASE ~(zeljeno /\ proces = Nema /\ ~pao /\ datoteka["gocop"] # Nema)
            BY <1>4, <2>0, <2>2 DEF Budi, TypeOK, granice
      <2> QED BY <2>1, <2>2
<1>5. CASE Klikni
      BY <1>5 DEF Klikni, TypeOK, stanjeCvora
<1>6. CASE KlikDjeluje
      <2>1. CASE klik = "pokreni"
            BY <1>6, <2>1, PokreniTip DEF KlikDjeluje, TypeOK, granice
      <2>2. CASE klik # "pokreni"
            <3>1. Zaustavi /\ UNCHANGED baza
                  BY <1>6, <2>2 DEF KlikDjeluje
            <3> QED BY <1>6, <3>1, ZaustaviTip DEF KlikDjeluje, TypeOK, granice
      <2> QED BY <2>1, <2>2
<1>7. CASE PrekidNapajanja
      BY <1>7 DEF PrekidNapajanja, TypeOK
<1>8. CASE PokreniPostavu
      <2>1. CASE datoteka["gocop"] # Nema
            BY <1>8, <2>1, PokreniTip DEF PokreniPostavu, TypeOK, granice
      <2>2. CASE datoteka["gocop"] = Nema
            BY <1>8, <2>2 DEF PokreniPostavu, TypeOK, granice, stanjeCvora
      <2> QED BY <2>1, <2>2
<1>9. CASE Posao
      <2>1. posao # Nema /\ posao \in Poslovi /\ postava
            BY <1>9 DEF Posao, PostaviPrvi, Gasi, Ugaseno, Kopiraj, ObrisiPrethodni, SkloniStari,
                        PostaviNovi, PokreniNovi, NoviOdgovara, NoviNeOdgovara, NoviUgasen,
                        OdloziNeuspjeli, VratiPrethodni, Kraj, NaKoraku, TypeOK
      <2>2. CASE PostaviPrvi
            BY <1>9, <2>1, <2>2, PremjestiTip DEF PostaviPrvi, ZavrsiPaljenjem, stanjeCvora, TypeOK, Poslovi, Koraci, Mjesta
      <2>3. CASE Gasi
            BY <2>1, <2>3, ZaustaviTip DEF Gasi, granice, TypeOK, Poslovi, Koraci
      <2>4. CASE Ugaseno
            BY <2>1, <2>4, KorakTip DEF Ugaseno, stanjeCvora, TypeOK, Poslovi, Koraci
      <2>5. CASE Kopiraj
            <3>1. kopije' \in Seq(Izdanje) /\ Len(kopije') <= CuvajKopija
                  BY <2>5, KopijeTip DEF Kopiraj, TypeOK
            <3>2. posao' \in Poslovi
                  BY <2>1, <2>5, KorakTip DEF Kopiraj, Zavrsi, Koraci
            <3> QED BY <2>1, <2>5, <3>1, <3>2 DEF Kopiraj, stanjeCvora, TypeOK, Poslovi
      <2>6. CASE ObrisiPrethodni
            BY <2>1, <2>6, KorakTip DEF ObrisiPrethodni, stanjeCvora, granice, TypeOK, Poslovi, Koraci, Mjesta
      <2>7. CASE SkloniStari
            BY <2>1, <2>7, KorakTip, PremjestiTip DEF SkloniStari, Zavrsi, stanjeCvora, TypeOK, Poslovi, Koraci, Mjesta
      <2>8. CASE PostaviNovi
            BY <2>1, <2>8, KorakTip, PremjestiTip DEF PostaviNovi, Zavrsi, stanjeCvora, TypeOK, Poslovi, Koraci, Mjesta
      <2>9. CASE PokreniNovi
            BY <2>1, <2>9, KorakTip, PokreniTip DEF PokreniNovi, granice, TypeOK, Poslovi, Koraci
      <2>10. CASE NoviOdgovara
            BY <2>1, <2>10 DEF NoviOdgovara, stanjeCvora, granice, TypeOK
      <2>11. CASE NoviNeOdgovara
            BY <2>1, <2>11, KorakTip, ZaustaviTip DEF NoviNeOdgovara, TypeOK, Poslovi, Koraci
      <2>12. CASE NoviUgasen
            BY <2>1, <2>12, KorakTip DEF NoviUgasen, stanjeCvora, TypeOK, Poslovi, Koraci
      <2>13. CASE OdloziNeuspjeli
            BY <2>1, <2>13, KorakTip, PremjestiTip DEF OdloziNeuspjeli, stanjeCvora, TypeOK, Poslovi, Koraci, Mjesta
      <2>14. CASE VratiPrethodni
            BY <2>1, <2>14, PremjestiTip DEF VratiPrethodni, ZavrsiPaljenjem, stanjeCvora, TypeOK, Poslovi, Koraci, Mjesta
      <2>15. CASE Kraj
            <3>1. CASE posao.radio
                  BY <2>1, <2>15, <3>1, PokreniTip DEF Kraj, granice, TypeOK
            <3>2. CASE ~posao.radio
                  BY <2>1, <2>15, <3>2 DEF Kraj, granice, stanjeCvora, TypeOK
            <3> QED BY <3>1, <3>2
      <2> QED BY <1>9, <2>2, <2>3, <2>4, <2>5, <2>6, <2>7, <2>8, <2>9, <2>10, <2>11, <2>12, <2>13,
                 <2>14, <2>15 DEF Posao
<1> QED BY <1>1, <1>2, <1>3, <1>4, <1>5, <1>6, <1>7, <1>8, <1>9 DEF Next

-----------------------------------------------------------------------------
(* The replaced program *)

\* No step loses the program the last upgrade replaces.
LEMMA PrethodniKorak ==
    ASSUME IInv, [Next]_vars
    PROVE  PrethodniNaDisku' /\ StojiNaMjestu'
<1> USE DEF PrethodniNaDisku, Prije, Poslije
<1>0. /\ posao # Nema => posao \in Poslovi
      /\ StojiNaMjestu
      /\ oslonac # Nema => oslonac \in {datoteka["gocop"], datoteka["prethodni"]}
      /\ datoteka \in [Mjesta -> Izdanje \cup {Nema}]
      BY DEF IInv, Tipovi, TypeOK
<1>1. CASE UNCHANGED <<datoteka, oslonac, posao>>
      BY <1>0, <1>1 DEF StojiNaMjestu
<1>2. ASSUME NEW novo \in Izdanje, Nadogradi(novo)
      PROVE  PrethodniNaDisku' /\ StojiNaMjestu'
      <2>1. /\ datoteka'["gocop"] = datoteka["gocop"]
            /\ datoteka'["prethodni"] = datoteka["prethodni"]
            BY <1>0, <1>2 DEF Nadogradi, Mjesta
      <2>2. CASE datoteka["gocop"] = Nema
            BY <1>0, <1>2, <2>1, <2>2 DEF Nadogradi, StojiNaMjestu
      <2>3. CASE datoteka["gocop"] # Nema
            BY <1>0, <1>2, <2>1, <2>3 DEF Nadogradi, StojiNaMjestu
      <2> QED BY <2>2, <2>3
<1>3. CASE Izadi
      BY <1>1, <1>3 DEF Izadi
<1>4. CASE Budi
      BY <1>1, <1>4 DEF Budi
<1>5. CASE Klikni
      BY <1>1, <1>5 DEF Klikni
<1>6. CASE KlikDjeluje
      BY <1>1, <1>6 DEF KlikDjeluje
<1>7. CASE PrekidNapajanja
      BY <1>0, <1>7 DEF PrekidNapajanja, StojiNaMjestu
<1>8. CASE PokreniPostavu
      BY <1>1, <1>8 DEF PokreniPostavu
<1>9. CASE Posao
      <2>1. CASE PostaviPrvi
            BY <1>0, <2>1 DEF PostaviPrvi, NaKoraku, ZavrsiPaljenjem, Premjesti, StojiNaMjestu, Poslovi, Koraci, Mjesta
      <2>2. CASE Gasi
            BY <1>0, <2>2 DEF Gasi, NaKoraku, StojiNaMjestu, Poslovi, Koraci
      <2>3. CASE Ugaseno
            BY <1>0, <2>3 DEF Ugaseno, NaKoraku, Korak, StojiNaMjestu, Poslovi, Koraci
      <2>4. CASE Kopiraj
            BY <1>0, <2>4 DEF Kopiraj, NaKoraku, Zavrsi, Korak, StojiNaMjestu, Poslovi, Koraci
      <2>5. CASE ObrisiPrethodni
            BY <1>0, <2>5 DEF ObrisiPrethodni, NaKoraku, Korak, StojiNaMjestu, Poslovi, Koraci, Mjesta
      <2>6. CASE SkloniStari
            BY <1>0, <2>6 DEF SkloniStari, NaKoraku, Zavrsi, Korak, Premjesti, StojiNaMjestu, Poslovi, Koraci, Mjesta
      <2>7. CASE PostaviNovi
            BY <1>0, <2>7 DEF PostaviNovi, NaKoraku, Zavrsi, Korak, Premjesti, StojiNaMjestu, Poslovi, Koraci, Mjesta
      <2>8. CASE PokreniNovi
            BY <1>0, <2>8 DEF PokreniNovi, NaKoraku, Korak, StojiNaMjestu, Poslovi, Koraci
      <2>9. CASE NoviOdgovara
            BY <1>0, <2>9 DEF NoviOdgovara, StojiNaMjestu
      <2>10. CASE NoviNeOdgovara
            BY <1>0, <2>10 DEF NoviNeOdgovara, NaKoraku, Korak, StojiNaMjestu, Poslovi, Koraci
      <2>11. CASE NoviUgasen
            BY <1>0, <2>11 DEF NoviUgasen, NaKoraku, Korak, StojiNaMjestu, Poslovi, Koraci
      <2>12. CASE OdloziNeuspjeli
            BY <1>0, <2>12 DEF OdloziNeuspjeli, NaKoraku, Korak, Premjesti, StojiNaMjestu, Poslovi, Koraci, Mjesta
      <2>13. CASE VratiPrethodni
            BY <1>0, <2>13 DEF VratiPrethodni, NaKoraku, ZavrsiPaljenjem, Premjesti, StojiNaMjestu, Poslovi, Koraci, Mjesta
      <2>14. CASE Kraj
            BY <1>0, <2>14 DEF Kraj, StojiNaMjestu
      <2> QED BY <1>9, <2>1, <2>2, <2>3, <2>4, <2>5, <2>6, <2>7, <2>8, <2>9, <2>10, <2>11, <2>12, <2>13, <2>14
              DEF Posao
<1>10. CASE UNCHANGED vars
      BY <1>1, <1>10 DEF vars
<1> QED BY <1>2, <1>3, <1>4, <1>5, <1>6, <1>7, <1>8, <1>9, <1>10 DEF Next

-----------------------------------------------------------------------------
(* Theorems *)

\* An installation starts typed, with no upgrade behind it.
LEMMA IInvPocetak == Init => IInv
<1> SUFFICES ASSUME Init PROVE IInv
    OBVIOUS
<1>1. Tipovi
      <2>1. Prvo \in Izdanje
            BY NadogradnjaPretpostavka
      <2>2. kopije \in Seq(Izdanje) /\ Len(kopije) <= CuvajKopija
            <3>1. << >> \in Seq(Izdanje) /\ Len(<< >>) = 0
                  BY EmptySeq, Zenon
            <3>2. 0 <= CuvajKopija
                  BY NadogradnjaPretpostavka
            <3>3. kopije = << >>
                  BY DEF Init
            <3> QED BY <3>1, <3>2, <3>3, Zenon
      <2>3. datoteka \in [Mjesta -> Izdanje \cup {Nema}]
            BY <2>1 DEF Init
      <2>4. padovi \in Nat /\ buditi \in Nat /\ baza \in Izdanje
            BY <2>1 DEF Init
      <2> QED BY <2>2, <2>3, <2>4 DEF Init, Tipovi, TypeOK
<1>2. PrethodniNaDisku /\ StojiNaMjestu
      BY DEF Init, PrethodniNaDisku, StojiNaMjestu
<1> QED BY <1>1, <1>2 DEF IInv

\* Every step keeps the types and the replaced program.
LEMMA IInvKorak == IInv /\ [Next]_vars => IInv'
<1> SUFFICES ASSUME IInv, [Next]_vars PROVE IInv'
    OBVIOUS
<1>1. Tipovi'
      BY TipoviKorak DEF IInv
<1>2. PrethodniNaDisku' /\ StojiNaMjestu'
      BY PrethodniKorak
<1> QED BY <1>1, <1>2 DEF IInv

\* The invariant holds always: Postava never loses the program it replaces
\* and never leaves a job, a process or a timer behind (Ugradi, cekaj).
THEOREM IInvOcuvana == Spec => []IInv
BY IInvPocetak, IInvKorak, PTL DEF Spec

\* Every state of an installation is well typed: the process, the job and the
\* timers are there only while Postava runs, and a process is told to end only
\* while it runs (Cvor, posaoUgradnje), for any releases and any failures.
THEOREM TipOcuvan == Spec => []TypeOK
<1>1. IInv => TypeOK
      BY DEF IInv, Tipovi
<1> QED BY <1>1, IInvOcuvana, PTL

\* Whatever fails, loses power or is clicked, the program the last upgrade
\* began with is at its place or beside it (Ugradi), for any releases, any
\* number of jobs, failures and power losses.
THEOREM PrethodniOstaje == Spec => []PrethodniNaDisku
<1>1. IInv => PrethodniNaDisku
      BY DEF IInv
<1> QED BY <1>1, IInvOcuvana, PTL

-----------------------------------------------------------------------------
(* The copy of the old database *)

\* No more jobs so far than copies are kept.
DostaKopija == nadogradnji <= CuvajKopija

\* No release before the installed one is offered.
BezStarijih == \A i \in Izdanje : Prvo <= i

\* Steps of a job that has made no copy yet, and those it may end at without.
PrijeKopije == {"gasi", "gasiSe", "kopira"}

\* Every copy is of a job of its own, so none has been thrown away: the first
\* is of the database as it was installed, and before it nothing has changed.
KopijeUredne ==
    /\ nadogradnji \in Nat
    /\ Len(kopije) + (IF posao # Nema /\ posao.korak \in PrijeKopije THEN 1 ELSE 0) <= nadogradnji
    /\ kopije # <<>> => kopije[1] = Prvo
    /\ kopije = <<>> => /\ baza = Prvo /\ datoteka["gocop"] = Prvo
                        /\ posao # Nema => posao.korak \in PrijeKopije \cup {"kraj"}

\* Where no copy was made and no program was moved, a start leaves the database
\* as it was installed.
LEMMA UpaliPrvo ==
    ASSUME baza = Prvo, Upali(Prvo)
    PROVE  baza' = Prvo
BY DEF Upali, Veca

\* A step that makes no copy, installs nothing and keeps the job before its copy
\* or without one.
LEMMA KopijeStoje ==
    ASSUME KopijeUredne, kopije' = kopije, nadogradnji' = nadogradnji,
           Tipovi, posao' # Nema => posao' \in Poslovi,
           posao' # Nema /\ posao'.korak \in PrijeKopije =>
               posao # Nema /\ posao.korak \in PrijeKopije,
           kopije = <<>> => /\ baza' = Prvo /\ datoteka'["gocop"] = Prvo
                            /\ posao' # Nema => posao'.korak \in PrijeKopije \cup {"kraj"}
    PROVE  KopijeUredne'
<1>1. Len(kopije) \in Nat  BY LenProperties DEF Tipovi, TypeOK
<1> QED  BY <1>1 DEF KopijeUredne

\* A start of the node without a copy.
LEMMA PokreniPrvo ==
    ASSUME KopijeUredne, Pokreni, kopije = <<>>
    PROVE  baza' = Prvo
BY UpaliPrvo DEF Pokreni, KopijeUredne

\* Jobs are only counted up.
LEMMA BrojPoslova ==
    ASSUME nadogradnji \in Nat, [Next]_vars
    PROVE  nadogradnji' \in Nat /\ (DostaKopija' => DostaKopija)
<1>1. CASE \E novo \in Izdanje : Nadogradi(novo)
  BY <1>1, NadogradnjaPretpostavka DEF Nadogradi, DostaKopija
<1>2. CASE ~\E novo \in Izdanje : Nadogradi(novo)
  <2>1. nadogradnji' = nadogradnji
    BY <1>2 DEF Next, Posao, PostaviPrvi, Gasi, Ugaseno, Kopiraj, ObrisiPrethodni, SkloniStari,
       PostaviNovi, PokreniNovi, NoviOdgovara, NoviNeOdgovara, NoviUgasen, OdloziNeuspjeli,
       VratiPrethodni, Kraj, Izadi, Budi, Klikni, KlikDjeluje, PrekidNapajanja,
       PokreniPostavu, OstaleGranice, granice, vars
  <2> QED  BY <2>1 DEF DostaKopija
<1> QED  BY <1>1, <1>2

\* While no copy had to go, every step keeps the copies in order.
LEMMA KopijeKorak ==
    ASSUME DostaKopija, Tipovi, KopijeUredne, [Next]_vars
    PROVE  KopijeUredne'
<1>1. /\ datoteka \in [Mjesta -> Izdanje \cup {Nema}] /\ "gocop" \in Mjesta
      /\ "novi" \in Mjesta /\ "prethodni" \in Mjesta /\ "neuspjeli" \in Mjesta
      /\ posao # Nema => posao \in Poslovi
      /\ kopije \in Seq(Izdanje) /\ Len(kopije) \in Nat /\ baza \in Izdanje
      /\ Nema \notin Izdanje /\ Prvo \in Izdanje /\ Prvo # Nema
  <2>1. kopije \in Seq(Izdanje) /\ Len(kopije) \in Nat
    BY LenProperties DEF Tipovi, TypeOK
  <2> QED  BY <2>1, NadogradnjaPretpostavka DEF Tipovi, TypeOK, Mjesta
<1>2. ASSUME NEW novo \in Izdanje, Nadogradi(novo)  PROVE KopijeUredne'
  <2>1. /\ posao = Nema /\ nadogradnji < NajviseNadogradnji
        /\ nadogradnji' = nadogradnji + 1 /\ UNCHANGED <<kopije, baza>>
        /\ datoteka'["gocop"] = datoteka["gocop"]
    BY <1>1, <1>2 DEF Nadogradi
  <2>2. datoteka["gocop"] = Prvo => posao'.korak = "gasi"
    BY <1>1, <1>2 DEF Nadogradi
  <2> QED  BY <1>1, <2>1, <2>2 DEF KopijeUredne, PrijeKopije
<1>3. CASE Kopiraj
  <2>1. /\ NaKoraku("kopira") /\ UNCHANGED <<datoteka, baza, nadogradnji>>
        /\ posao # Nema /\ posao \in Poslovi
    BY <1>1, <1>3 DEF Kopiraj, NaKoraku, OstaleGranice
  <2>2. /\ nadogradnji \in Nat
        /\ Len(kopije) + 1 <= nadogradnji
    BY <2>1 DEF KopijeUredne, NaKoraku, PrijeKopije
  <2>3. CuvajKopija \in Nat  BY NadogradnjaPretpostavka
  <2>4. CASE Zavrsi /\ UNCHANGED kopije
    <3>1. posao' \in Poslovi /\ posao'.korak = "kraj"
      BY <2>1, <2>4, KorakTip DEF Zavrsi, Koraci
    <3> QED  BY <1>1, <2>1, <2>2, <2>4, <3>1 DEF KopijeUredne, PrijeKopije
  <2>5. CASE Korak("obrisi") /\ kopije' = IF Len(Append(kopije, baza)) > CuvajKopija
                                        THEN Tail(Append(kopije, baza)) ELSE Append(kopije, baza)
    <3>1. /\ Len(Append(kopije, baza)) = Len(kopije) + 1 /\ Append(kopije, baza) # <<>>
          /\ kopije # <<>> => Append(kopije, baza)[1] = kopije[1]
          /\ kopije = <<>> => Append(kopije, baza)[1] = baza
      <4>1. kopije = <<>> => Len(kopije) = 0  BY <1>1, EmptySeq
      <4>2. kopije # <<>> => 1 \in 1 .. Len(kopije)  BY <1>1, EmptySeq
      <4> QED  BY <1>1, <4>1, <4>2, AppendProperties
    <3>2. kopije' = Append(kopije, baza)
      BY <1>1, <2>2, <2>3, <2>5, <3>1 DEF DostaKopija
    <3>3. posao'.korak = "obrisi"
      BY <2>1, <2>5, KorakTip DEF Koraci
    <3>4. Len(kopije') <= nadogradnji' /\ kopije' # <<>> /\ Len(kopije') + 0 <= nadogradnji'
      BY <1>1, <2>1, <2>2, <3>1, <3>2
    <3>5. kopije'[1] = Prvo  BY <3>1, <3>2 DEF KopijeUredne
    <3> QED  BY <2>1, <2>2, <3>3, <3>4, <3>5 DEF KopijeUredne, PrijeKopije
  <2> QED  BY <1>3, <2>4, <2>5 DEF Kopiraj
<1>4. CASE Posao /\ ~Kopiraj
  <2>1. posao # Nema /\ posao \in Poslovi /\ kopije' = kopije /\ nadogradnji' = nadogradnji
    BY <1>1, <1>4 DEF Posao, PostaviPrvi, Gasi, Ugaseno, ObrisiPrethodni, SkloniStari,
       PostaviNovi, PokreniNovi, NoviOdgovara, NoviNeOdgovara, NoviUgasen,
       OdloziNeuspjeli, VratiPrethodni, Kraj, NaKoraku, OstaleGranice, granice
  <2>2. kopije = <<>> => posao.korak \in PrijeKopije \cup {"kraj"}  BY <2>1 DEF KopijeUredne
  <2>3. CASE Gasi
    <3>1. posao' \in Poslovi /\ posao'.korak = "gasiSe" /\ posao.korak = "gasi"
          /\ UNCHANGED <<datoteka, baza>>
      BY <2>1, <2>3 DEF Gasi, NaKoraku, Poslovi, Koraci, Tipovi, TypeOK
    <3> QED  BY <2>1, <3>1, KopijeStoje DEF PrijeKopije, KopijeUredne
  <2>4. CASE Ugaseno
    <3>1. /\ posao.korak = "gasiSe" /\ UNCHANGED <<datoteka, baza>>
          /\ posao' = Nema \/ (posao' \in Poslovi /\ posao'.korak = "kopira")
      BY <2>1, <2>4, KorakTip DEF Ugaseno, NaKoraku, Koraci
    <3> QED  BY <2>1, <3>1, KopijeStoje DEF PrijeKopije, KopijeUredne
  <2>5. CASE Kraj
    <3>1. posao' = Nema /\ datoteka' = datoteka
          /\ (Pokreni \/ baza' = baza)
      BY <2>5 DEF Kraj
    <3>2. kopije = <<>> => baza' = Prvo  BY <3>1, PokreniPrvo DEF KopijeUredne
    <3> QED  BY <2>1, <3>1, <3>2, KopijeStoje DEF PrijeKopije, KopijeUredne
  <2>6. CASE ~(Gasi \/ Ugaseno \/ Kraj)
    <3>1. /\ posao.korak \in {"prva", "obrisi", "premjesti", "postavi", "pokrece", "ceka",
                              "vracaSe", "odlozi", "vrati"}
          /\ \/ posao' = Nema
             \/ /\ posao' \in Poslovi
                /\ posao'.korak \in {"premjesti", "postavi", "pokrece", "ceka", "vracaSe",
                                     "odlozi", "vrati", "kraj"}
      BY <1>4, <2>1, <2>6, KorakTip DEF Posao, PostaviPrvi, ObrisiPrethodni, SkloniStari,
         PostaviNovi, PokreniNovi, NoviOdgovara, NoviNeOdgovara, NoviUgasen, OdloziNeuspjeli,
         VratiPrethodni, NaKoraku, Zavrsi, ZavrsiPaljenjem, Koraci, Poslovi
    <3>2. kopije # <<>>  BY <2>2, <3>1 DEF PrijeKopije
    <3> QED  BY <2>1, <3>1, <3>2, KopijeStoje DEF PrijeKopije
  <2> QED  BY <2>3, <2>4, <2>5, <2>6
<1>5. CASE Izadi \/ Klikni \/ UNCHANGED vars
  <2>1. UNCHANGED <<kopije, nadogradnji, baza, datoteka, posao>>
    BY <1>5 DEF Izadi, Klikni, vars, granice
  <2> QED  BY <1>1, <2>1, KopijeStoje DEF KopijeUredne
<1>6. CASE Budi
  <2>1. /\ UNCHANGED <<kopije, nadogradnji, datoteka, posao>>
        /\ (Upali(datoteka["gocop"]) \/ baza' = baza)
    BY <1>6 DEF Budi, granice
  <2>2. kopije = <<>> => baza' = Prvo  BY <2>1, UpaliPrvo DEF KopijeUredne
  <2> QED  BY <1>1, <2>1, <2>2, KopijeStoje DEF KopijeUredne
<1>7. CASE KlikDjeluje \/ PokreniPostavu
  <2>1. /\ UNCHANGED <<kopije, nadogradnji, datoteka, posao>>
        /\ (Pokreni \/ baza' = baza)
    BY <1>7 DEF KlikDjeluje, PokreniPostavu, granice
  <2>2. kopije = <<>> => baza' = Prvo  BY <2>1, PokreniPrvo DEF KopijeUredne
  <2> QED  BY <1>1, <2>1, <2>2, KopijeStoje DEF KopijeUredne
<1>8. CASE PrekidNapajanja
  <2>1. posao' = Nema /\ UNCHANGED <<kopije, nadogradnji, baza, datoteka>>
    BY <1>8 DEF PrekidNapajanja
  <2> QED  BY <2>1, KopijeStoje DEF KopijeUredne
<1> QED  BY <1>2, <1>3, <1>4, <1>5, <1>6, <1>7, <1>8 DEF Next

\* While no copy had to go, a program older than the database finds a copy from
\* before the change (nadogradnja.go:228-229): for any releases, failures, power
\* losses and clicks, and any number of copies kept.
THEOREM KopijaOstaje ==
    ASSUME BezStarijih
    PROVE  Spec => []KopijaStareBaze
<1> DEFINE Kopije == nadogradnji \in Nat /\ (DostaKopija => KopijeUredne)
<1>1. Init => Kopije
  <2> SUFFICES ASSUME Init  PROVE KopijeUredne
    BY DEF KopijeUredne
  <2>1. Len(kopije) = 0  BY EmptySeq DEF Init
  <2>2. datoteka["gocop"] = Prvo  BY DEF Init, Mjesta
  <2>3. nadogradnji = 0 /\ posao = Nema /\ kopije = <<>> /\ baza = Prvo  BY DEF Init
  <2> QED  BY <2>1, <2>2, <2>3 DEF KopijeUredne
<1>2. IInv /\ Kopije /\ [Next]_vars => Kopije'
  BY KopijeKorak, BrojPoslova DEF IInv
<1>3. IInv /\ Kopije => KopijaStareBaze
  <2> SUFFICES ASSUME IInv, KopijeUredne, datoteka["gocop"] # Nema, datoteka["gocop"] < baza
               PROVE  \E i \in 1 .. Len(kopije) : kopije[i] <= datoteka["gocop"]
    BY DEF KopijaStareBaze, DostaKopija
  <2>1. datoteka["gocop"] \in Izdanje /\ Prvo \in Izdanje /\ kopije \in Seq(Izdanje)
        /\ Izdanje \subseteq Nat
    BY NadogradnjaPretpostavka DEF IInv, Tipovi, TypeOK, Mjesta
  <2>2. kopije # <<>>  BY <2>1 DEF KopijeUredne
  <2>3. 1 \in 1 .. Len(kopije)  BY <2>1, <2>2, EmptySeq
  <2>4. kopije[1] <= datoteka["gocop"]  BY <2>1, <2>2 DEF KopijeUredne, BezStarijih
  <2> QED  BY <2>3, <2>4
<1> QED  BY <1>1, <1>2, <1>3, IInvOcuvana, PTL DEF Spec
=============================================================================
