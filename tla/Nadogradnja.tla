---------------------------- MODULE Nadogradnja -----------------------------
(***************************************************************************)
(* Installation and upgrade of the program (internal/postava, the tray of  *)
(* cmd/gocop-postava). Postava runs the node's program as its child,       *)
(* restarts it when it falls, and replaces it: it stops the node, copies   *)
(* the database, keeps the previous program beside the new one, starts the *)
(* new one and waits for it to answer, and otherwise puts the previous     *)
(* program back. The job is one goroutine, the clicks of the tray, the     *)
(* node's exits and its restarts are others; the machine may lose power    *)
(* between any two steps.                                                  *)
(*                                                                         *)
(* A release is a number. Ispravno are those that start and answer; the    *)
(* others exit. A program brings the database to its release when it       *)
(* starts; one that exits may or may not have done it. The check of        *)
(* signatures is data; the way of a system service (nadogradi_usluga) and  *)
(* the return to an allowed older release are not here.                    *)
(***************************************************************************)
EXTENDS Integers, Sequences

CONSTANTS
    Izdanje,            \* releases
    Prvo,               \* the installed one
    Ispravno,           \* releases that start and answer
    Nema,               \* no file, no process, no job
    CuvajKopija,        \* copies of the database that are kept
    NajvisePadova,      \* exits after which Postava gives up
    NajviseNadogradnji, \* bound: jobs
    NajvisePrekida,     \* bound: power losses
    NajviseKvarova,     \* bound: renames, copies and stops that fail
    NajviseKlikova      \* bound: clicks on start or stop

ASSUME NadogradnjaPretpostavka ==
    /\ Izdanje \subseteq Nat /\ Nema \notin Izdanje
    /\ Prvo \in Ispravno /\ Ispravno \subseteq Izdanje
    /\ CuvajKopija \in Nat \ {0} /\ NajvisePadova \in Nat \ {0}
    /\ {NajviseNadogradnji, NajvisePrekida, NajviseKvarova, NajviseKlikova} \subseteq Nat

Mjesta == {"gocop", "prethodni", "neuspjeli", "novi"}
Koraci == {"prva", "gasi", "gasiSe", "kopira", "obrisi", "premjesti", "postavi", "pokrece",
           "ceka", "vracaSe", "odlozi", "vrati", "kraj"}

VARIABLES
    datoteka,   \* datoteka[m]: the release of the file at place m, or Nema
    baza,       \* the release the database was brought to
    kopije,     \* copies of the database: their releases, the oldest first
    proces,     \* the release that runs, or Nema
    gasiSe,     \* the process that runs was told to end
    zeljeno,    \* the user wants the node to run
    pao,        \* Postava gave up
    padovi,     \* exits nobody asked for
    buditi,     \* restarts that wait for their time (cekaj)
    postava,    \* Postava runs
    posao,      \* the job: its step, releases and whether the node was wanted
    oslonac,    \* what stood at its place when the last upgrade began (history)
    klik,       \* what a click that has read the state will do
    nadogradnji, prekida, kvarova, klikova  \* counted against the bounds

stanjeCvora == <<proces, gasiSe, zeljeno, pao, padovi, buditi>>
granice == <<nadogradnji, prekida, kvarova, klikova>>
vars == <<datoteka, baza, kopije, stanjeCvora, postava, posao, oslonac, klik, granice>>

Veca(a, b) == IF a < b THEN b ELSE a

-----------------------------------------------------------------------------
(* The child process *)

\* pokreniZakljucano, when no process runs; a bad release may have changed
\* the database before it exits.
Upali(p) ==
    /\ proces' = p /\ gasiSe' = FALSE
    /\ \/ baza' = Veca(baza, p)
       \/ p \notin Ispravno /\ baza' = baza

\* Cvor.Pokreni, with the program at its place
Pokreni ==
    /\ zeljeno' = TRUE /\ pao' = FALSE /\ padovi' = 0
    /\ IF proces = Nema /\ datoteka["gocop"] # Nema
       THEN Upali(datoteka["gocop"])
       ELSE UNCHANGED <<proces, gasiSe, baza>>
    /\ UNCHANGED buditi

\* Cvor.Zaustavi up to its wait: the input of the process is closed.
Zaustavi ==
    /\ zeljeno' = FALSE
    /\ gasiSe' = (proces # Nema)
    /\ UNCHANGED <<proces, pao, padovi, buditi>>

\* Mutation: the closed input is not forgotten with the process.
IzadiPodStarim ==
    /\ proces # Nema
    /\ gasiSe \/ proces \notin Ispravno
    /\ proces' = Nema
    /\ UNCHANGED <<gasiSe, padovi, pao, buditi, datoteka, baza, kopije, zeljeno, postava, posao,
                   oslonac, klik, granice>>

\* cekaj: the process exits, because it was told to, or because it cannot run.
\* An exit nobody asked for is counted; a restart waits, or Postava gives up.
Izadi ==
    /\ proces # Nema
    /\ gasiSe \/ proces \notin Ispravno
    /\ proces' = Nema /\ gasiSe' = FALSE
    /\ padovi' = IF zeljeno THEN padovi + 1 ELSE padovi
    /\ pao' = (pao \/ (zeljeno /\ padovi + 1 >= NajvisePadova))
    /\ buditi' = IF zeljeno /\ ~pao' THEN buditi + 1 ELSE buditi
    /\ UNCHANGED <<datoteka, baza, kopije, zeljeno, postava, posao, oslonac, klik, granice>>

\* The restart's time comes; it is dropped when the node is not wanted, runs,
\* or was given up meanwhile.
Budi ==
    /\ buditi > 0
    /\ buditi' = buditi - 1
    /\ IF zeljeno /\ proces = Nema /\ ~pao /\ datoteka["gocop"] # Nema
       THEN Upali(datoteka["gocop"])
       ELSE UNCHANGED <<proces, gasiSe, baza>>
    /\ UNCHANGED <<datoteka, kopije, zeljeno, pao, padovi, postava, posao, oslonac, klik, granice>>

-----------------------------------------------------------------------------
(* The job *)

Korak(k) == posao' = [posao EXCEPT !.korak = k]
NaKoraku(k) == posao # Nema /\ posao.korak = k
Kvar == kvarova < NajviseKvarova /\ kvarova' = kvarova + 1
BezKvara == UNCHANGED kvarova
Premjesti(iz, u) == datoteka' = [datoteka EXCEPT ![u] = datoteka[iz], ![iz] = Nema]

OstaleGranice == UNCHANGED <<nadogradnji, prekida, klikova>>

\* The job ends: the node is started when it was wanted before it, or always.
Zavrsi == Korak("kraj")
ZavrsiPaljenjem == posao' = [posao EXCEPT !.korak = "kraj", !.radio = TRUE]

\* Nadogradi: zauzmi, dopustenaNadogradnja, Pripremi; a newer release than the
\* file and the process is offered, anything when nothing is installed.
Nadogradi(novo) ==
    LET staro == datoteka["gocop"]
        postavljeno == {staro, proces} \ {Nema}
    IN  /\ postava /\ posao = Nema /\ nadogradnji < NajviseNadogradnji
        /\ \A i \in postavljeno : i < novo
        /\ datoteka' = [datoteka EXCEPT !["novi"] = novo]
        /\ posao' = [korak |-> IF staro = Nema THEN "prva" ELSE "gasi",
                     staro |-> staro, novo |-> novo, radio |-> FALSE]
        /\ oslonac' = IF staro = Nema THEN oslonac ELSE staro
        /\ nadogradnji' = nadogradnji + 1
        /\ UNCHANGED <<baza, kopije, stanjeCvora, postava, klik, prekida, kvarova, klikova>>

\* Postavi: the first installation; the tray then starts the node (preuzmi).
PostaviPrvi ==
    /\ NaKoraku("prva")
    /\ \/ Premjesti("novi", "gocop") /\ ZavrsiPaljenjem /\ BezKvara
       \/ Kvar /\ posao' = Nema /\ UNCHANGED datoteka
    /\ UNCHANGED <<baza, kopije, stanjeCvora, postava, oslonac, klik>> /\ OstaleGranice

\* Ugradi: what the node did is remembered and the node told to stop.
Gasi ==
    /\ NaKoraku("gasi")
    /\ posao' = [posao EXCEPT !.korak = "gasiSe", !.radio = zeljeno]
    /\ Zaustavi
    /\ UNCHANGED <<datoteka, baza, kopije, postava, oslonac, klik, granice>>

\* The process it told has exited; one that does not die ends the job, and
\* the node stays unwanted.
Ugaseno ==
    /\ NaKoraku("gasiSe")
    /\ \/ ~gasiSe /\ Korak("kopira") /\ BezKvara
       \/ gasiSe /\ Kvar /\ posao' = Nema
    /\ UNCHANGED <<datoteka, baza, kopije, stanjeCvora, postava, oslonac, klik>> /\ OstaleGranice

\* Mutation: one copy fewer is kept.
KopirajBezZadnje ==
    /\ NaKoraku("kopira")
    /\ LET sve == Append(kopije, baza)
       IN  kopije' = IF Len(sve) >= CuvajKopija THEN Tail(sve) ELSE sve
    /\ Korak("obrisi")
    /\ UNCHANGED <<datoteka, baza, stanjeCvora, postava, oslonac, klik, granice>>

\* KopirajBazu, pocisti
Kopiraj ==
    /\ NaKoraku("kopira")
    /\ \/ /\ LET sve == Append(kopije, baza)
             IN  kopije' = IF Len(sve) > CuvajKopija THEN Tail(sve) ELSE sve
          /\ Korak("obrisi") /\ BezKvara
       \/ Zavrsi /\ Kvar /\ UNCHANGED kopije
    /\ UNCHANGED <<datoteka, baza, stanjeCvora, postava, oslonac, klik>> /\ OstaleGranice

ObrisiPrethodni ==
    /\ NaKoraku("obrisi")
    /\ datoteka' = [datoteka EXCEPT !["prethodni"] = Nema]
    /\ Korak("premjesti")
    /\ UNCHANGED <<baza, kopije, stanjeCvora, postava, oslonac, klik, granice>>

SkloniStari ==
    /\ NaKoraku("premjesti")
    /\ \/ Premjesti("gocop", "prethodni") /\ Korak("postavi") /\ BezKvara
       \/ Zavrsi /\ Kvar /\ UNCHANGED datoteka
    /\ UNCHANGED <<baza, kopije, stanjeCvora, postava, oslonac, klik>> /\ OstaleGranice

\* The new program to its place; when that fails the old one is moved back,
\* and an error of that is ignored.
PostaviNovi ==
    /\ NaKoraku("postavi")
    /\ \/ Premjesti("novi", "gocop") /\ Korak("pokrece") /\ BezKvara
       \/ Premjesti("prethodni", "gocop") /\ Zavrsi /\ Kvar
       \/ /\ UNCHANGED datoteka /\ Zavrsi
          /\ kvarova + 2 <= NajviseKvarova /\ kvarova' = kvarova + 2
    /\ UNCHANGED <<baza, kopije, stanjeCvora, postava, oslonac, klik>> /\ OstaleGranice

PokreniNovi ==
    /\ NaKoraku("pokrece")
    /\ Korak("ceka") /\ Pokreni
    /\ UNCHANGED <<datoteka, kopije, postava, oslonac, klik, granice>>

Odgovara == proces = posao.novo /\ proces \in Ispravno /\ ~gasiSe

\* cekajIzdanje: the new release answers; or it was given up, or its time
\* passed (a sound release may be too slow), and Ugradi stops it.
NoviOdgovara ==
    /\ NaKoraku("ceka") /\ Odgovara
    /\ posao' = Nema
    /\ UNCHANGED <<datoteka, baza, kopije, stanjeCvora, postava, oslonac, klik, granice>>

NoviNeOdgovara ==
    /\ NaKoraku("ceka")
    /\ \/ ~Odgovara /\ BezKvara
       \/ Odgovara /\ Kvar
    /\ Korak("vracaSe") /\ Zaustavi
    /\ UNCHANGED <<datoteka, baza, kopije, postava, oslonac, klik>> /\ OstaleGranice

\* An error of this stop is ignored.
NoviUgasen ==
    /\ NaKoraku("vracaSe")
    /\ \/ ~gasiSe /\ BezKvara
       \/ gasiSe /\ Kvar
    /\ Korak("odlozi")
    /\ UNCHANGED <<datoteka, baza, kopije, stanjeCvora, postava, oslonac, klik>> /\ OstaleGranice

\* Mutation: the failed program is moved to the previous one's place.
OdloziNaPrethodni ==
    /\ NaKoraku("odlozi") /\ Korak("vrati") /\ Premjesti("gocop", "prethodni")
    /\ UNCHANGED <<baza, kopije, stanjeCvora, postava, oslonac, klik, granice>>

\* The failed program is put aside, over the one that failed before.
OdloziNeuspjeli ==
    /\ NaKoraku("odlozi")
    /\ Korak("vrati")
    /\ \/ Premjesti("gocop", "neuspjeli") /\ BezKvara
       \/ Kvar /\ datoteka' = [datoteka EXCEPT !["neuspjeli"] = Nema]
    /\ UNCHANGED <<baza, kopije, stanjeCvora, postava, oslonac, klik>> /\ OstaleGranice

\* Mutation: the previous program is put back and not started.
VratiBezPaljenja ==
    /\ NaKoraku("vrati") /\ Premjesti("prethodni", "gocop") /\ posao' = Nema
    /\ UNCHANGED <<baza, kopije, stanjeCvora, postava, oslonac, klik, granice>>

VratiPrethodni ==
    /\ NaKoraku("vrati")
    /\ \/ Premjesti("prethodni", "gocop") /\ ZavrsiPaljenjem /\ BezKvara
       \/ Kvar /\ posao' = Nema /\ UNCHANGED datoteka
    /\ UNCHANGED <<baza, kopije, stanjeCvora, postava, oslonac, klik>> /\ OstaleGranice

Kraj ==
    /\ NaKoraku("kraj")
    /\ posao' = Nema
    /\ IF posao.radio THEN Pokreni ELSE UNCHANGED <<stanjeCvora, baza>>
    /\ UNCHANGED <<datoteka, kopije, postava, oslonac, klik, granice>>

Posao ==
    \/ PostaviPrvi \/ Gasi \/ Ugaseno \/ Kopiraj \/ ObrisiPrethodni \/ SkloniStari \/ PostaviNovi
    \/ PokreniNovi \/ NoviOdgovara \/ NoviNeOdgovara \/ NoviUgasen
    \/ OdloziNeuspjeli \/ VratiPrethodni \/ Kraj

-----------------------------------------------------------------------------
(* The tray and the machine *)

\* prekidacKlik reads the state of the node, not whether a job runs: the menu
\* shows the item as disabled only once it is drawn again.
Klikni ==
    /\ postava /\ klik = "" /\ klikova < NajviseKlikova
    /\ datoteka["gocop"] # Nema
    /\ klik' = IF pao \/ proces = Nema THEN "pokreni" ELSE "zaustavi"
    /\ klikova' = klikova + 1
    /\ UNCHANGED <<datoteka, baza, kopije, stanjeCvora, postava, posao, oslonac, nadogradnji, prekida, kvarova>>

KlikDjeluje ==
    /\ klik # "" /\ klik' = ""
    /\ IF klik = "pokreni" THEN Pokreni ELSE Zaustavi /\ UNCHANGED baza
    /\ UNCHANGED <<datoteka, kopije, postava, posao, oslonac, granice>>

\* Everything in memory is lost, and the child process with it.
PrekidNapajanja ==
    /\ postava /\ prekida < NajvisePrekida /\ prekida' = prekida + 1
    /\ postava' = FALSE /\ posao' = Nema /\ klik' = ""
    /\ proces' = Nema /\ gasiSe' = FALSE /\ zeljeno' = FALSE
    /\ pao' = FALSE /\ padovi' = 0 /\ buditi' = 0
    /\ UNCHANGED <<datoteka, baza, kopije, oslonac, nadogradnji, kvarova, klikova>>

\* pocetak: Postava starts, and with it the node that is installed.
PokreniPostavu ==
    /\ ~postava /\ postava' = TRUE
    /\ IF datoteka["gocop"] # Nema THEN Pokreni ELSE UNCHANGED <<stanjeCvora, baza>>
    /\ UNCHANGED <<datoteka, kopije, posao, oslonac, klik, granice>>

Init ==
    /\ datoteka = [m \in Mjesta |-> IF m = "gocop" THEN Prvo ELSE Nema]
    /\ baza = Prvo /\ kopije = <<>>
    /\ proces = Nema /\ gasiSe = FALSE /\ zeljeno = FALSE
    /\ pao = FALSE /\ padovi = 0 /\ buditi = 0
    /\ postava = FALSE /\ posao = Nema /\ oslonac = Nema /\ klik = ""
    /\ nadogradnji = 0 /\ prekida = 0 /\ kvarova = 0 /\ klikova = 0

Next ==
    \/ \E novo \in Izdanje : Nadogradi(novo)
    \/ Posao
    \/ Izadi
    \/ Budi
    \/ Klikni
    \/ KlikDjeluje
    \/ PrekidNapajanja
    \/ PokreniPostavu

Spec == Init /\ [][Next]_vars

\* The goroutine of the job goes on, a process told to end (or unable to run)
\* exits, and timers come to their time.
PostenSpec == Spec /\ WF_vars(Posao) /\ WF_vars(Izadi) /\ WF_vars(Budi) /\ WF_vars(KlikDjeluje)

-----------------------------------------------------------------------------
(* Properties *)

\* Types; a process is told to end only while it runs, and Postava has
\* neither a job, a process nor a timer while it does not run.
TypeOK ==
    /\ datoteka \in [Mjesta -> Izdanje \cup {Nema}]
    /\ baza \in Izdanje /\ kopije \in Seq(Izdanje) /\ Len(kopije) <= CuvajKopija
    /\ proces \in Izdanje \cup {Nema} /\ gasiSe \in BOOLEAN /\ (gasiSe => proces # Nema)
    /\ zeljeno \in BOOLEAN /\ pao \in BOOLEAN /\ padovi \in Nat /\ buditi \in Nat
    /\ posao # Nema => posao.korak \in Koraci
    /\ ~postava => posao = Nema /\ proces = Nema /\ buditi = 0

\* The program an upgrade replaces stays on the disk, at its place or beside
\* it, wherever renames fail, power is lost or a click comes between, until
\* the next upgrade (INSTALACIJA.md: "Prethodni program ostaje").
PrethodniNaDisku == oslonac # Nema => oslonac \in {datoteka["gocop"], datoteka["prethodni"]}

\* Once a newer release has changed the database and is gone, a copy from
\* before it is kept, for the administrator to decide (nadogradnja.go:228-229).
\* It is sure for as many jobs as copies are kept, since every job adds one.
KopijaStareBaze ==
    nadogradnji <= CuvajKopija /\ posao = Nema /\ datoteka["gocop"] # Nema /\ datoteka["gocop"] < baza
      => \E i \in 1 .. Len(kopije) : kopije[i] <= datoteka["gocop"]

\* An upgrade of a node that ran ends with a program that runs, the new or the
\* previous one, unless something failed, power was lost or the user clicked.
CvorOpetRadi ==
    (posao # Nema /\ posao.radio) ~>
        ((proces \in Ispravno /\ zeljeno) \/ kvarova + prekida + klikova > 0)
=============================================================================
