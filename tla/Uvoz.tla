-------------------------------- MODULE Uvoz --------------------------------
(***************************************************************************)
(* Versions carried by hand: a node exports a key into a file (an archive  *)
(* of the ledger, or a COP package) together with what it does not vouch   *)
(* for, and another node imports it while talks go on                      *)
(* (internal/peers/archive.go, cop.go and rupe_uvoz.go).                   *)
(*                                                                         *)
(* Every step of the exchange is one of Razmjena. Files add their own: an  *)
(* export reads its record of gaps, the versions and a counter one after   *)
(* another; an import decides, reads its frontier, widens the record under *)
(* the lock, lets the lock go, and writes the versions in batches, each    *)
(* under the lock again. Nothing narrows the record after an import.       *)
(***************************************************************************)
EXTENDS RazmjenaDostava

CONSTANTS
    Izvoznici,       \* nodes that export
    Uvoznici,        \* nodes that import
    Vrste,           \* kinds of files: "arhiva", "paket"
    NajviseDatoteka, \* bound: how many exports are begun
    NajviseUvoza,    \* bound: how many imports are begun
    Serija           \* versions per batch (2000 in the source)

ASSUME UvozPretpostavka ==
    /\ Izvoznici \subseteq Cvor
    /\ Uvoznici \subseteq Primatelji
    /\ Vrste \subseteq {"arhiva", "paket"}
    /\ NajviseDatoteka \in Nat /\ NajviseUvoza \in Nat
    /\ Serija \in Nat \ {0}

VARIABLES
    datoteke,   \* the files there are: versions, and the exporter's gaps
    izvozi,     \* izvozi[n]: the export n is making
    uvozi,      \* uvozi[n]: the import n is making
    izvezeno,   \* exports begun so far
    uvezeno     \* imports begun so far

varsDatoteka == <<datoteke, izvozi, uvozi, izvezeno, uvezeno>>
varsUvoz == <<vars, varsDatoteka>>

NemaIzvoza == [faza |-> "nema", nejamci |-> Prazno, raslo |-> FALSE, verzije |-> {}]
NemaUvoza == [faza |-> "nema", verzije |-> {}, bacio |-> {}, rupe |-> Prazno,
              ograda |-> BezOgrade, promjena |-> PraznaPromjena, novo |-> FALSE]

\* The import of n wrote a batch and still holds the lock.
UvozPodBravom(n) == uvozi[n].faza = "upisano"

InitUvoz ==
    /\ Init
    /\ datoteke = {}
    /\ izvozi = [n \in Cvor |-> NemaIzvoza]
    /\ uvozi = [n \in Cvor |-> NemaUvoza]
    /\ izvezeno = 0 /\ uvezeno = 0

\* The import goes on while versions are left to write.
DalijeUvozi(u) == IF u.verzije = {} THEN NemaUvoza ELSE [u EXCEPT !.faza = "serije"]

NastaviIzvoz(n, novi) == izvozi' = [izvozi EXCEPT ![n] = novi]
NastaviUvoz(n, novi) == uvozi' = [uvozi EXCEPT ![n] = novi]

-----------------------------------------------------------------------------
(* The counter of grown gaps, as an export sees it: this step wrote the      *)
(* record of n, and n vouches for less than before (javiRast).               *)

Raslo(n) ==
    /\ <<rupe[n], zapisano[n]>>' # <<rupe[n], zapisano[n]>>
    /\ Virtualno(n) \/ Raste(rupe'[n], UskladjenoPravilo(n))

\* The exports under way learn of it.
JaviIzvozima ==
    izvozi' = [n \in Cvor |-> IF izvozi[n].faza # "nema" /\ Raslo(n)
                              THEN [izvozi[n] EXCEPT !.raslo = TRUE] ELSE izvozi[n]]

-----------------------------------------------------------------------------
(* Export: the counter and the record, then the versions, then the counter   *)

PocniIzvoz(n) ==
    /\ izvozi[n].faza = "nema" /\ izvezeno < NajviseDatoteka
    /\ izvezeno' = izvezeno + 1
    /\ NastaviIzvoz(n, [NemaIzvoza EXCEPT !.faza = "pocetak", !.nejamci = NeJamciNaPocetku(n)])
    /\ UNCHANGED <<vars, datoteke, uvozi, uvezeno>>

\* InChannels: all versions of the key. Without any there is no file.
ProcitajZaIzvoz(n) ==
    /\ izvozi[n].faza = "pocetak"
    /\ NastaviIzvoz(n, IF knjiga[n] = {} THEN NemaIzvoza
                       ELSE [izvozi[n] EXCEPT !.faza = "procitano", !.verzije = knjiga[n]])
    /\ UNCHANGED <<vars, datoteke, uvozi, izvezeno, uvezeno>>

\* Mutation: what was recorded after the start of the export is not told.
ZaIzvozBezSumnje(n) ==
    Presjek(izvozi[n].nejamci, Raspon(0, Granica(izvozi[n].verzije)))

\* The gaps a file tells, up to its largest version. When a gap was recorded
\* meanwhile, nothing in the file is vouched for. The own key has no gap.
ZaIzvoz(n) ==
    LET sumnja == IF izvozi[n].raslo THEN Iznad(0) ELSE Prazno
        ne == IF n = Autor THEN Prazno ELSE Uz(izvozi[n].nejamci, sumnja)
    IN Presjek(ne, Raspon(0, Granica(izvozi[n].verzije)))

ZapisiDatoteku(n) ==
    /\ izvozi[n].faza = "procitano"
    /\ datoteke' = datoteke \cup {[verzije |-> izvozi[n].verzije, rupe |-> ZaIzvoz(n)]}
    /\ NastaviIzvoz(n, NemaIzvoza)
    /\ UNCHANGED <<vars, uvozi, izvezeno, uvezeno>>

-----------------------------------------------------------------------------
(* Import                                                                    *)

\* The state of the fence, and then what is taken (zaUvoz). An archive is
\* taken whole; of a package what the node follows and its fence accepts.
PocniUvoz(n, d, vrsta) ==
    LET bacio == IF vrsta = "paket" THEN d.verzije \cap ograda[n].odbija ELSE {} IN
    /\ uvozi[n].faza = "nema" /\ uvezeno < NajviseUvoza
    /\ uvezeno' = uvezeno + 1
    /\ vrsta = "paket" => prati[n]
    /\ NastaviUvoz(n, [NemaUvoza EXCEPT !.faza = "odluceno", !.verzije = d.verzije \ bacio,
                                        !.bacio = bacio, !.rupe = d.rupe,
                                        !.ograda = ograda[n]])
    /\ UNCHANGED <<vars, datoteke, izvozi, izvezeno>>

\* Mutation: the exporter's gaps are not taken over.
PromjenaUvozaBezRupa(n, fs) ==
    [PraznaPromjena EXCEPT !.fs = fs,
        !.odbijeno = OdbijenoKljuca([prima |-> [fs |-> fs, moje |-> 0]],
                                    uvozi[n].verzije, uvozi[n].bacio)]

\* promjenaUvoza: what was refused, and the exporter's gaps as uncertain.
\* Nothing is covered, so an import takes nothing out of the record.
PromjenaUvoza(n, fs) ==
    [PraznaPromjena EXCEPT !.fs = fs, !.nesigurno = uvozi[n].rupe,
        !.odbijeno = OdbijenoKljuca([prima |-> [fs |-> fs, moje |-> 0]],
                                    uvozi[n].verzije, uvozi[n].bacio)]

\* The frontier is read after the decisions and before the lock.
GranicaUvoza(n) ==
    /\ uvozi[n].faza = "odluceno"
    /\ NastaviUvoz(n, [uvozi[n] EXCEPT !.faza = "promjena", !.bacio = {}, !.rupe = Prazno,
                                       !.promjena = PromjenaUvoza(n, Granica(knjiga[n]))])
    /\ UNCHANGED <<vars, datoteke, izvozi, izvezeno, uvezeno>>

\* Mutation: the gaps are recorded only with the last batch.
RupeUvozaNaKraju(n) ==
    /\ uvozi[n].faza = "promjena" /\ brava[n] = Slobodna
    /\ NastaviUvoz(n, DalijeUvozi([uvozi[n] EXCEPT !.promjena = PraznaPromjena,
                                                  !.ograda = BezOgrade]))
    /\ UNCHANGED <<vars, datoteke, izvozi, izvezeno, uvezeno>>

\* Mutation: talks under way do not learn that an import recorded gaps.
RupeUvozaBezBrojaca(n) ==
    LET staro == UskladjenoPravilo(n) IN
    /\ uvozi[n].faza = "promjena" /\ brava[n] = Slobodna
    /\ rupe' = [rupe EXCEPT ![n] = Prosiri(UzOgradu([r |-> n, prima |-> uvozi[n], upis |-> uvozi[n]]), staro)]
    /\ zapisano' = [zapisano EXCEPT ![n] = [ima |-> TRUE, odbija |-> ograda[n].odbija]]
    /\ izvozi' = izvozi
    /\ NastaviUvoz(n, DalijeUvozi([uvozi[n] EXCEPT !.promjena = PraznaPromjena,
                                                  !.ograda = BezOgrade]))
    /\ UNCHANGED <<knjiga, postavke, brava, pamcenje, razg, oznake, smetnji, datoteke, izvezeno, uvezeno>>

\* rupePodBravom: the record is widened, and the lock let go at once.
RupeUvoza(n) ==
    LET u == uvozi[n]
        staro == UskladjenoPravilo(n)
        promjena == UzOgradu([r |-> n, prima |-> u, upis |-> u])
    IN
    /\ u.faza = "promjena" /\ brava[n] = Slobodna
    /\ IF Ima(u, Prazno) THEN PromijeniRupe(n, staro, Prosiri(promjena, staro))
       ELSE UNCHANGED <<rupe, zapisano, rastRupa>>
    /\ JaviIzvozima
    /\ NastaviUvoz(n, DalijeUvozi([u EXCEPT !.promjena = PraznaPromjena, !.ograda = BezOgrade]))
    /\ UNCHANGED <<knjiga, postavke, brava, pamcenje, razg, noviUvoz, zaborav, noviZapis,
                   smetnji, datoteke, izvezeno, uvezeno>>

\* primijeniPodBravom: the next batch enters the ledger, in order of versions.
UpisiSeriju(n) ==
    LET serija == PrvihOd(uvozi[n].verzije, Serija) IN
    /\ uvozi[n].faza = "serije" /\ serija # {} /\ brava[n] = Slobodna
    /\ knjiga' = [knjiga EXCEPT ![n] = @ \cup serija]
    /\ NastaviUvoz(n, [uvozi[n] EXCEPT !.faza = "upisano", !.verzije = @ \ serija,
                                       !.novo = ~(serija \subseteq knjiga[n])])
    /\ UNCHANGED <<rupe, zapisano, postavke, brava, pamcenje, razg, oznake, smetnji,
                   datoteke, izvozi, izvezeno, uvezeno>>

\* A batch that added something counts as an import, and the lock is let go.
ZabiljeziSeriju(n) ==
    /\ UvozPodBravom(n)
    /\ IF uvozi[n].novo THEN ZabiljeziUvoz(n) ELSE UNCHANGED <<zaCvor, noviUvoz>>
    /\ NastaviUvoz(n, DalijeUvozi([uvozi[n] EXCEPT !.novo = FALSE]))
    /\ UNCHANGED <<trajno, postavke, brava, odbijeneOd, razg, rastRupa, zaborav, noviZapis,
                   smetnji, datoteke, izvozi, izvezeno, uvezeno>>

\* A write fails, or the one who waits for the lock goes away: the record may
\* stay wide, and some batches in the ledger.
UvozPao(n) ==
    /\ "upis" \in Smetnje
    /\ uvozi[n].faza \in {"promjena", "serije"}
    /\ NastaviUvoz(n, NemaUvoza)
    /\ UNCHANGED <<vars, datoteke, izvozi, izvezeno, uvezeno>>

-----------------------------------------------------------------------------
(* The exchange beside files                                                 *)

\* A talk waits for the lock longer than it may, because an import holds it.
BravuDrziUvoz(t) ==
    /\ razg[t].faza = "brava" /\ UvozPodBravom(razg[t].r)
    /\ Zavrsi({t})
    /\ UNCHANGED <<trajno, postavke, brava, pamcenje, smetnji, varsDatoteka>>

\* A step of the exchange. The lock an import holds is not given to a talk.
KorakRazmjene ==
    /\ \/ Napisi
       \/ \E t \in Razgovori : \/ \E v \in Veze : Zapocni(t, v[1], v[2])
                              \/ Korak(t)
                              \/ BravaNijeStigla(t) \/ Prekid(t) \/ UpisPao(t)
       \/ \E n \in Podesivi : PromijeniPravilo(n) \/ PomakniRub(n) \/ VratiRub(n) \/ PromijeniPretplatu(n)
       \/ \E n \in Primatelji : \/ PripremiRupe(n) /\ uvozi[n] = NemaUvoza
                               \/ \E s \in Cvor : Istekne(n, s)
    /\ \A n \in Cvor : UvozPodBravom(n) => brava'[n] = Slobodna
    /\ JaviIzvozima
    /\ UNCHANGED <<datoteke, uvozi, izvezeno, uvezeno>>

\* A channel is deleted while nothing is imported into it (the deletion takes
\* no lock: in the middle it harms as it does in the middle of a talk).
ObrisiKanalIzmedjuUvoza(n) ==
    /\ ObrisiKanal(n)
    /\ uvozi[n].faza = "nema" \/ "usred razgovora" \in Smetnje
    /\ UNCHANGED varsDatoteka

\* A stop also ends the export and the import of the node; files stay.
PonovnoPokreniSve(n) ==
    /\ PonovnoPokreni(n)
    /\ NastaviIzvoz(n, NemaIzvoza)
    /\ NastaviUvoz(n, NemaUvoza)
    /\ UNCHANGED <<datoteke, izvezeno, uvezeno>>

NextUvoz ==
    \/ KorakRazmjene
    \/ \E t \in Razgovori : BravuDrziUvoz(t)
    \/ \E n \in Podesivi : ObrisiKanalIzmedjuUvoza(n)
    \/ \E n \in Primatelji : PonovnoPokreniSve(n)
    \/ \E n \in Izvoznici : PocniIzvoz(n) \/ ProcitajZaIzvoz(n) \/ ZapisiDatoteku(n)
    \/ \E n \in Uvoznici : \/ \E d \in datoteke, vrsta \in Vrste : PocniUvoz(n, d, vrsta)
                          \/ GranicaUvoza(n) \/ RupeUvoza(n) \/ UpisiSeriju(n)
                          \/ ZabiljeziSeriju(n) \/ UvozPao(n)

SpecUvoz == InitUvoz /\ [][NextUvoz]_varsUvoz

-----------------------------------------------------------------------------
\* What a file says of itself is true: every version of the author up to its
\* largest one is in it or in the gaps it tells (zaIzvoz), although the record
\* and the versions were read at two moments while talks and imports wrote.
DatotekaIstinita ==
    \A d \in datoteke : \A v \in knjiga[Autor] :
        v <= Granica(d.verzije) => v \in d.verzije \cup Clanovi(d.rupe)

\* PreskokNeSkriva while files are imported too: batches of an import move the
\* receiver's frontier between its reading by a talk and the reading of the
\* refusals and gaps, and what they pass over the receiver asks for by then.
PreskokUzUvoz == [][\A t \in Razgovori : PreskokIskren(t)]_varsUvoz
=============================================================================
