------------------------------ MODULE Razmjena ------------------------------
(***************************************************************************)
(* The exchange of one ledger key (author|channel) between nodes that keep *)
(* different parts of it: internal/peers, files razgovor.go, upis.go,      *)
(* rupe*.go, granica_odbijenih.go and granica_nakon_uvoza.go.              *)
(*                                                                         *)
(* A talk (razgovor) has two directions; for one key they do not touch     *)
(* each other except through the nodes' state, so a talk here is one       *)
(* direction, from a sender s to a receiver r, and a real talk is two of   *)
(* them. Several run at once. A talk reads what it needs at its start, the *)
(* sender composes the delta later, the receiver decides, takes the lock   *)
(* of the node and writes in three durable steps: it widens its record of  *)
(* gaps, writes the versions, and narrows the record. Anything may happen  *)
(* between any two of these steps.                                         *)
(*                                                                         *)
(* Versions of the key are 1, 2, ... in the order the author wrote them.   *)
(* The rule by which a node refuses versions (Accept) is the set of        *)
(* versions it refuses.                                                    *)
(*                                                                         *)
(* Counters that the source compares only for equality with their value at *)
(* the start of a talk (rupeMijenja, zaborava, narastaj uvoza, the number  *)
(* of a record of refusals) are sets of the talks that saw them change.    *)
(***************************************************************************)
EXTENDS Raspon, FiniteSets

CONSTANTS
    Cvor,         \* nodes
    Autor,        \* the author of the key
    Veze,         \* pairs <<s, r>> that talk
    Razgovori,    \* talk slots: how many talks run at once
    ZadnjaVerzija,\* the author writes versions 1 .. ZadnjaVerzija
    Pravila,      \* the rules a node may have: sets of refused versions
    PocetnoPravilo, \* the rule each node starts with
    PocetnaKnjiga,\* what each node starts with: a start of the sequence
    Podesivi,     \* nodes whose settings the user changes
    NajviseVerzija, \* NajviseVerzijaPoRazmjeni: versions of a key per delta
    Rez,          \* the size fence may cut a delta anywhere
    Smetnje,      \* kinds of disturbances that happen
    NajviseSmetnji \* how many of the counted ones

Verzije == 1 .. ZadnjaVerzija
Primatelji == Cvor \ {Autor}

ASSUME RazmjenaPretpostavka ==
    /\ Autor \in Cvor
    /\ Veze \subseteq {v \in Cvor \X Primatelji : v[1] # v[2]}
    /\ ZadnjaVerzija \in Nat \ {0}
    /\ Beskraj > ZadnjaVerzija
    /\ Pravila \subseteq SUBSET Verzije
    /\ PocetnoPravilo \in [Cvor -> Pravila]
    /\ PocetnaKnjiga \in [Cvor -> {1 .. k : k \in 0 .. ZadnjaVerzija}]
    /\ \A n \in Cvor : PocetnaKnjiga[n] \subseteq PocetnaKnjiga[Autor]
    /\ Podesivi \subseteq Primatelji
    /\ NajviseVerzija \in Nat \ {0}
    /\ Rez \in BOOLEAN
    /\ NajviseSmetnji \in Nat
    /\ "slobodna" \notin Razgovori

VARIABLES
    knjiga,     \* knjiga[n]: versions in the ledger of n
    rupe,       \* rupe[n]: the durable record of gaps (rupe_knjige)
    zapisano,   \* zapisano[n]: the durable rule the record was made under (rupe_pravilo)
    ograda,     \* ograda[n]: what n refuses now, and the generation of its rule
    prati,      \* prati[n]: n follows the channel
    brava,      \* brava[n]: the talk that holds the write lock of n
    odbijeneOd, \* odbijeneOd[n][s]: up to where n refused what s sent (memory)
    zaCvor,     \* zaCvor[n][r]: what n sent r since its last import (memory)
    razg,       \* the talks
    rastRupa,   \* talks whose sender recorded new gaps since their start
    noviUvoz,   \* talks whose sender counted an import since their start
    zaborav,    \* talks whose receiver forgot its refusals since their start
    noviZapis,  \* talks whose receiver replaced the record of refusals
    smetnji     \* counted disturbances so far

trajno == <<knjiga, rupe, zapisano>>
postavke == <<ograda, prati>>
pamcenje == <<odbijeneOd, zaCvor>>
oznake == <<rastRupa, noviUvoz, zaborav, noviZapis>>
vars == <<knjiga, rupe, zapisano, ograda, prati, brava, odbijeneOd, zaCvor,
          razg, rastRupa, noviUvoz, zaborav, noviZapis, smetnji>>

-----------------------------------------------------------------------------
(* Ledger *)

\* The frontier: the largest version held, 0 without any.
Granica(S) == CHOOSE m \in S \cup {0} : \A v \in S : v <= m

\* The smallest n versions of S: what SinceByNode reads under its limit.
PrvihOd(S, n) == {v \in S : Cardinality({w \in S : w <= v}) <= n}

\* What a cut leaves of S: its start.
Pocetci(S) == {{v \in S : v <= c} : c \in S \cup {0}}

-----------------------------------------------------------------------------
(* The fence of what a node accepts *)

Ograde == [narastaj : Nat, odbija : Pravila \cup {{}}]

\* What the fence refused in state o it still refuses now.
JosOdbija(o, sada) ==
    o.narastaj = sada.narastaj /\ o.odbija \subseteq sada.odbija

\* The rule now may accept what the old one refused.
SiriOd(staro, sada) == ~(staro \subseteq sada)

\* The rule has to be written into the gap record.
Sire(n) == zapisano[n].ima /\ SiriOd(zapisano[n].odbija, ograda[n].odbija)

\* The first step is not recorded yet, and the fence is on.
Virtualno(n) == ~zapisano[n].ima /\ ograda[n].odbija # {}

\* Mutation: a wider rule does not turn the refused into the wanted.
RupeBezSirenja(n) == rupe[n]

\* The record of gaps as a talk reads it: under a wider rule what was refused
\* is asked for.
RupeNaPocetku(n) == IF Sire(n) THEN Sirenjem(rupe[n]) ELSE rupe[n]

\* What n does not vouch for. The author's own key has no gap.
NeJamciNaPocetku(n) ==
    IF n = Autor THEN Prazno
    ELSE IF Virtualno(n) THEN Iznad(0)
    ELSE NeJamci(RupeNaPocetku(n))

-----------------------------------------------------------------------------
(* Talks *)

PraznaPromjena == [odbijeno |-> Prazno, uTrazi |-> Prazno, nesigurno |-> Prazno,
                   redovno |-> Prazno, popuna |-> Prazno, fs |-> 0]
BezOgrade == [narastaj |-> 0, odbija |-> {}]

PocetakPosiljatelja == [korak |-> 0, granica |-> 0, nejamci |-> Prazno, dosad |-> 0]
PocetakPrimatelja == [korak |-> 0, fs |-> 0, moje |-> 0, ograda |-> BezOgrade,
                      trazi |-> Prazno, zapisati |-> FALSE]
PraznaDelta == [verzije |-> {}, od |-> 0, rupe |-> Prazno, popuna |-> Prazno]
PrazanUpis == [verzije |-> {}, promjena |-> PraznaPromjena, pravilo |-> FALSE,
               odbijeno |-> 0, popunjava |-> FALSE]

\* A talk that is `prekinut' lost its sender: the receiver only finishes the
\* write it began. What a talk no longer needs is reset, so that equal states
\* are equal.
Slobodan == [faza |-> "nema", s |-> Autor, r |-> Autor, salje |-> PocetakPosiljatelja,
             prima |-> PocetakPrimatelja, delta |-> PraznaDelta, upis |-> PrazanUpis,
             prekinut |-> FALSE]

\* The phases in which the receiver holds its lock.
PodBravom == {"prosireno", "upisano"}

\* Talks of sender or receiver n that already read their start.
Salje(n) == {t \in Razgovori : razg[t].faza # "nema" /\ razg[t].s = n
                               /\ (razg[t].faza = "pocetak" => razg[t].salje.korak = 2)}
Prima(n) == {t \in Razgovori : razg[t].faza # "nema" /\ razg[t].r = n
                               /\ (razg[t].faza = "pocetak" => razg[t].prima.korak = 2)}
Slobodna == "slobodna"

Nastavi(t, novi) == razg' = [razg EXCEPT ![t] = novi]

\* The talk ends, or never was: its slot is free.
Zavrsi(T) ==
    /\ razg' = [t \in Razgovori |-> IF t \in T THEN Slobodan ELSE razg[t]]
    /\ rastRupa' = rastRupa \ T
    /\ noviUvoz' = noviUvoz \ T
    /\ zaborav' = zaborav \ T
    /\ noviZapis' = noviZapis \ T

-----------------------------------------------------------------------------
Init ==
    /\ knjiga = PocetnaKnjiga
    /\ rupe = [n \in Cvor |-> BezRupa]
    /\ zapisano = [n \in Cvor |-> [ima |-> FALSE, odbija |-> {}]]
    /\ ograda = [n \in Cvor |-> [narastaj |-> 0, odbija |-> PocetnoPravilo[n]]]
    /\ prati = [n \in Cvor |-> TRUE]
    /\ brava = [n \in Cvor |-> Slobodna]
    /\ odbijeneOd = [n \in Cvor |-> [s \in Cvor |-> [granica |-> 0, ograda |-> BezOgrade]]]
    /\ zaCvor = [n \in Cvor |-> [r \in Cvor |-> 0]]
    /\ razg = [t \in Razgovori |-> Slobodan]
    /\ rastRupa = {} /\ noviUvoz = {} /\ zaborav = {} /\ noviZapis = {}
    /\ smetnji = 0

\* The author writes the next version of the key.
Napisi ==
    /\ Granica(knjiga[Autor]) < ZadnjaVerzija
    /\ knjiga' = [knjiga EXCEPT ![Autor] = @ \cup {Granica(@) + 1}]
    /\ UNCHANGED <<rupe, zapisano, postavke, brava, pamcenje, razg, oznake, smetnji>>

-----------------------------------------------------------------------------
(* The start of a talk: each side reads its frontier first, and then what it *)
(* remembers and its record of gaps.                                         *)

Zapocni(t, s, r) ==
    /\ razg[t].faza = "nema"
    /\ <<s, r>> \in Veze
    /\ Nastavi(t, [Slobodan EXCEPT !.faza = "pocetak", !.s = s, !.r = r])
    /\ UNCHANGED <<trajno, postavke, brava, pamcenje, oznake, smetnji>>

GranicaPosiljatelja(t) ==
    /\ razg[t].faza = "pocetak" /\ razg[t].salje.korak = 0
    /\ Nastavi(t, [razg[t] EXCEPT !.salje = [@ EXCEPT !.korak = 1,
                                                   !.granica = Granica(knjiga[razg[t].s])]])
    /\ UNCHANGED <<trajno, postavke, brava, pamcenje, oznake, smetnji>>

RupePosiljatelja(t) ==
    LET s == razg[t].s IN
    /\ razg[t].faza = "pocetak" /\ razg[t].salje.korak = 1
    /\ Nastavi(t, [razg[t] EXCEPT !.salje = [@ EXCEPT !.korak = 2,
                                                   !.nejamci = NeJamciNaPocetku(s),
                                                   !.dosad = zaCvor[s][razg[t].r]]])
    /\ UNCHANGED <<trajno, postavke, brava, pamcenje, oznake, smetnji>>

GranicaPrimatelja(t) ==
    LET r == razg[t].r IN
    /\ razg[t].faza = "pocetak" /\ razg[t].prima.korak = 0
    /\ Nastavi(t, [razg[t] EXCEPT !.prima = [@ EXCEPT !.korak = 1,
                                                   !.fs = Granica(knjiga[r])]])
    /\ UNCHANGED <<trajno, postavke, brava, pamcenje, oznake, smetnji>>

\* A node that does not follow the channel asks for nothing in it, and nothing
\* of it comes.
NePrati(t) ==
    /\ razg[t].faza = "pocetak" /\ razg[t].prima.korak = 1
    /\ ~prati[razg[t].r]
    /\ Zavrsi({t})
    /\ UNCHANGED <<trajno, postavke, brava, pamcenje, smetnji>>

\* Mutation: the record of refusals is used although the fence gave way.
RupePrimateljaStaraOgrada(t) ==
    LET r == razg[t].r
        z == odbijeneOd[r][razg[t].s]
    IN
    /\ razg[t].faza = "pocetak" /\ razg[t].prima.korak = 1
    /\ prati[r]
    /\ Nastavi(t, [razg[t] EXCEPT !.prima = [@ EXCEPT !.korak = 2,
                        !.moje = IF z.granica > razg[t].prima.fs THEN z.granica ELSE 0,
                        !.ograda = ograda[r],
                        !.trazi = RupeNaPocetku(r).trazi,
                        !.zapisati = Sire(r) \/ Virtualno(r)]])
    /\ UNCHANGED <<trajno, postavke, brava, pamcenje, oznake, smetnji>>

\* The record of refusals is used while the fence still refuses as much, and
\* only above the own frontier.
RupePrimatelja(t) ==
    LET r == razg[t].r
        z == odbijeneOd[r][razg[t].s]
        moje == IF JosOdbija(z.ograda, ograda[r]) /\ z.granica > razg[t].prima.fs
                THEN z.granica ELSE 0
    IN
    /\ razg[t].faza = "pocetak" /\ razg[t].prima.korak = 1
    /\ prati[r]
    /\ Nastavi(t, [razg[t] EXCEPT !.prima = [@ EXCEPT !.korak = 2,
                                                   !.moje = moje,
                                                   !.ograda = ograda[r],
                                                   !.trazi = RupeNaPocetku(r).trazi,
                                                   !.zapisati = Sire(r) \/ Virtualno(r)]])
    /\ UNCHANGED <<trajno, postavke, brava, pamcenje, oznake, smetnji>>

-----------------------------------------------------------------------------
(* The sender composes the delta *)

\* The frontier the delta goes from: the receiver's, or what it refused, but
\* the latter only as far as it was sent since the sender's last import.
GranicaZaDeltu(x) == Veci(x.prima.fs, Manji(x.prima.moje, x.salje.dosad))

\* How far the asked gap is filled: the regular part of the delta goes above.
GranicaPopune(x) ==
    Manji(x.prima.trazi.do, Manji(GranicaZaDeltu(x), x.salje.granica))

\* Mutation: a gap of one version is not filled.
PopunjavaViseOdJedne(x) ==
    /\ ~Prazan(x.prima.trazi)
    /\ JamciIza(x.salje.nejamci, x.prima.trazi.od)
    /\ GranicaPopune(x) > x.prima.trazi.od + 1

Popunjava(x) ==
    /\ ~Prazan(x.prima.trazi)
    /\ JamciIza(x.salje.nejamci, x.prima.trazi.od)
    /\ GranicaPopune(x) > x.prima.trazi.od

RedovniDio(x, S) == PrvihOd({v \in S : v > GranicaZaDeltu(x)}, NajviseVerzija)

Procitano(x, S) ==
    IF Popunjava(x) THEN PrvihOd({v \in S : v > x.prima.trazi.od}, NajviseVerzija) ELSE {}

Popuna(x, S) == {v \in Procitano(x, S) : v <= GranicaPopune(x)}

\* Mutation: the sender vouches up to the bound although it read less.
DokleProcitanoDoGranice(x, S) == GranicaPopune(x)

\* How far the key was really read: up to the bound only when a version after
\* it was read too.
DokleProcitano(x, S) ==
    IF Procitano(x, S) # Popuna(x, S) THEN GranicaPopune(x)
    ELSE Veci(Granica(Popuna(x, S)), x.prima.trazi.od)

\* Mutation: a fill cut by the size fence counts as all that was read.
PokrivaBezReza(x, S, poslano) ==
    IF Popunjava(x) THEN Cist(Raspon(x.prima.trazi.od, DokleProcitano(x, S))) ELSE Prazno

\* The part of the gap the sender vouches to have filled with `poslano'.
Pokriva(x, S, poslano) ==
    IF ~Popunjava(x) THEN Prazno
    ELSE IF poslano = Popuna(x, S)
         THEN Cist(Raspon(x.prima.trazi.od, DokleProcitano(x, S)))
    ELSE IF poslano # {} THEN Raspon(x.prima.trazi.od, Granica(poslano))
    ELSE Prazno

\* Gaps recorded since the start of the talk: the sender vouches for nothing
\* above the frontier it had then.
Sumnja(t) == IF t \in rastRupa THEN Iznad(razg[t].salje.granica) ELSE Prazno

\* Mutation: gaps the sender recorded since the start are not told.
RupeDelteBezSumnje(t, redovno, popuna) ==
    LET ne == IF razg[t].s = Autor THEN Prazno ELSE razg[t].salje.nejamci
    IN Presjek(ne, Uz(Raspon(GranicaZaDeltu(razg[t]), redovno), popuna))

\* Mutation: gaps the sender had at the start are not told.
RupeDelteSamoNove(t, redovno, popuna) ==
    Presjek(IF razg[t].s = Autor THEN Prazno ELSE Sumnja(t),
            Uz(Raspon(GranicaZaDeltu(razg[t]), redovno), popuna))

\* The part of what is sent that the sender does not vouch for.
RupeDelte(t, redovno, popuna) ==
    LET ne == IF razg[t].s = Autor THEN Prazno ELSE Uz(razg[t].salje.nejamci, Sumnja(t))
    IN Presjek(ne, Uz(Raspon(GranicaZaDeltu(razg[t]), redovno), popuna))

SloziDeltu(t) ==
    LET x == razg[t]
        S == knjiga[x.s]
    IN
    /\ x.faza = "pocetak" /\ x.salje.korak = 2 /\ x.prima.korak = 2
    /\ \E red \in IF Rez THEN Pocetci(RedovniDio(x, S)) ELSE {RedovniDio(x, S)},
          pop \in IF Rez THEN Pocetci(Popuna(x, S)) ELSE {Popuna(x, S)} :
          /\ pop # {} => red = RedovniDio(x, S)
          /\ LET popuna == Pokriva(x, S, pop) IN
             Nastavi(t, [x EXCEPT !.faza = "delta",
                                  !.delta = [verzije |-> red \cup pop,
                                             od |-> GranicaZaDeltu(x),
                                             rupe |-> RupeDelte(t, Granica(red), popuna),
                                             popuna |-> popuna],
                                  !.salje = PocetakPosiljatelja])
    /\ UNCHANGED <<trajno, postavke, brava, pamcenje, oznake, smetnji>>

-----------------------------------------------------------------------------
(* The receiver decides what to write *)

\* The filled range as reported, when it is the one this talk asked for.
ValjanaPopuna(x) ==
    LET p == x.delta.popuna
        a == x.prima.trazi
    IN IF Prazan(a) \/ p.od # a.od \/ Prazan(p) \/ p.do > a.do THEN Prazno ELSE p

\* Mutation: only what the sender skipped counts as refused.
OdbijenoKljucaSamoPreskok(x, wanted, bacio) ==
    IF x.prima.moje = 0 THEN Prazno ELSE Raspon(x.prima.fs, x.prima.moje)

\* The part of the key this node only refuses: what it refused in this talk,
\* and what the sender skipped because of an earlier refusal.
OdbijenoKljuca(x, wanted, bacio) ==
    LET najmanja == CHOOSE b \in bacio : \A v \in bacio : b <= v
        ispod == Granica({v \in wanted : v < najmanja})
        sada == IF bacio = {} THEN Prazno
                ELSE RasponOdbijenog(najmanja, Granica(bacio), x.prima.fs, ispod)
    IN IF x.prima.moje = 0 THEN sada ELSE Uz(sada, Raspon(x.prima.fs, x.prima.moje))

\* What writing wanted changes in the record of gaps, when something the node
\* follows came, was refused, or was filled.
PromjenaRupa(x, wanted, bacio) ==
    LET m == Granica(wanted \cup bacio)
        popuna == ValjanaPopuna(x)
    IN IF wanted \cup bacio = {} /\ Prazan(x.delta.popuna) THEN PraznaPromjena
       ELSE [odbijeno |-> OdbijenoKljuca(x, wanted, bacio), uTrazi |-> Prazno,
             nesigurno |-> Presjek(x.delta.rupe, Raspon(0, Veci(m, popuna.do))),
             redovno |-> Cist(Raspon(Veci(x.prima.fs, x.prima.moje), m)),
             popuna |-> popuna, fs |-> x.prima.fs]

\* The change touches the record of gaps.
Ima(u, trazi) ==
    \/ ~Prazan(u.promjena.odbijeno)
    \/ ~Prazan(u.promjena.uTrazi)
    \/ MijenjaTrazi(u.promjena, trazi)

\* Nothing to write in the ledger or in trazi: the lock is not needed.
Nista(u, trazi) == u.verzije = {} /\ ~u.pravilo /\ ~MijenjaTrazi(u.promjena, trazi)

Bacio(x) == x.delta.verzije \cap ograda[x.r].odbija

\* The fence gave way since the start, and the sender skipped by what it used
\* to refuse: nothing of the key is written and the refusals are forgotten.
Preskoceno(x) == x.prima.moje # 0 /\ ~JosOdbija(x.prima.ograda, ograda[x.r])

OdlukaZaUpis(x) ==
    LET bacio == Bacio(x)
        wanted == x.delta.verzije \ bacio
    IN IF Preskoceno(x)
       THEN [PrazanUpis EXCEPT !.pravilo = x.prima.zapisati]
       ELSE [verzije |-> wanted, promjena |-> PromjenaRupa(x, wanted, bacio),
             pravilo |-> x.prima.zapisati, odbijeno |-> Granica(bacio),
             popunjava |-> FALSE]

Zapisi(r, s) == {t \in Prima(r) : razg[t].s = s}

Odluci(t) ==
    LET x == razg[t]
        upis == OdlukaZaUpis(x)
    IN
    /\ x.faza = "delta"
    /\ Nastavi(t, [x EXCEPT !.faza = IF Nista(upis, x.prima.trazi) THEN "zapamti" ELSE "brava",
                            !.delta = [PraznaDelta EXCEPT !.verzije = x.delta.verzije],
                            !.upis = upis])
    /\ IF Preskoceno(x)
       THEN /\ odbijeneOd' = [odbijeneOd EXCEPT ![x.r][x.s] = [@ EXCEPT !.granica = 0]]
            /\ noviZapis' = noviZapis \cup Zapisi(x.r, x.s)
       ELSE UNCHANGED <<odbijeneOd, noviZapis>>
    /\ UNCHANGED <<trajno, postavke, brava, zaCvor, rastRupa, noviUvoz, zaborav, smetnji>>

-----------------------------------------------------------------------------
(* Writing under the lock: widen the gaps, write the versions, narrow them   *)

\* The record before a change of keys: the first step for a node that had a
\* fence before the record began, or the widening under a wider rule.
UskladjenoPravilo(n) ==
    IF Virtualno(n) /\ knjiga[n] # {}
    THEN [rupe[n] EXCEPT !.odbijeno = Raspon(0, Veci(@.do, Granica(knjiga[n])))]
    ELSE RupeNaPocetku(n)

\* One transaction on the record of gaps of n, from `staro' to `novo'. When
\* what n does not vouch for grew, the talks n sends in learn of it.
PromijeniRupe(n, staro, novo) ==
    /\ rupe' = [rupe EXCEPT ![n] = novo]
    /\ zapisano' = [zapisano EXCEPT ![n] = [ima |-> TRUE, odbija |-> ograda[n].odbija]]
    /\ rastRupa' = IF Virtualno(n) \/ Raste(novo, staro)
                   THEN rastRupa \cup Salje(n) ELSE rastRupa

\* Mutation: the decisions hold although the fence gave way before the lock.
UzStareOdluke(x) == x.upis.promjena

\* When the fence gave way since the decisions, the refused is asked for.
UzOgradu(x) ==
    IF JosOdbija(x.prima.ograda, ograda[x.r]) THEN x.upis.promjena
    ELSE [x.upis.promjena EXCEPT !.uTrazi = Uz(@, x.upis.promjena.odbijeno),
                                 !.odbijeno = Prazno]

\* Some of the versions fill a gap: not held, and below the frontier.
PopunjavaRupu(n, S) == \E v \in S \ knjiga[n] : v < Granica(knjiga[n])

\* Mutation: the gaps are recorded without the lock.
ZapisiRupeBezBrave(t) ==
    LET x == razg[t]
        staro == UskladjenoPravilo(x.r)
        promjena == UzOgradu(x)
    IN
    /\ x.faza = "brava"
    /\ brava' = [brava EXCEPT ![x.r] = t]
    /\ PromijeniRupe(x.r, staro, Prosiri(promjena, staro))
    /\ Nastavi(t, [x EXCEPT !.faza = "prosireno",
                            !.upis = [@ EXCEPT !.promjena = promjena, !.pravilo = FALSE,
                                               !.popunjava = PopunjavaRupu(x.r, x.upis.verzije)]])
    /\ UNCHANGED <<knjiga, postavke, pamcenje, noviUvoz, zaborav, noviZapis, smetnji>>

\* Mutation: the versions are written first, the gaps only afterwards.
ZapisiRupeNakonVerzija(t) ==
    LET x == razg[t] IN
    /\ x.faza = "brava" /\ brava[x.r] = Slobodna
    /\ brava' = [brava EXCEPT ![x.r] = t]
    /\ Nastavi(t, [x EXCEPT !.faza = "prosireno",
                            !.upis = [@ EXCEPT !.pravilo = FALSE,
                                               !.popunjava = PopunjavaRupu(x.r, x.upis.verzije)]])
    /\ UNCHANGED <<trajno, postavke, pamcenje, oznake, smetnji>>

ZapisiRupe(t) ==
    LET x == razg[t]
        mijenja == x.upis.pravilo \/ Ima(x.upis, x.prima.trazi)
    IN
    /\ x.faza = "brava" /\ brava[x.r] = Slobodna
    /\ brava' = [brava EXCEPT ![x.r] = t]
    /\ \E promjena \in {IF mijenja THEN UzOgradu(x) ELSE x.upis.promjena},
          staro \in {UskladjenoPravilo(x.r)} :
       /\ IF mijenja
          THEN \E novo \in {Prosiri(promjena, staro)} : PromijeniRupe(x.r, staro, novo)
          ELSE UNCHANGED <<rupe, zapisano, rastRupa>>
       /\ Nastavi(t, [x EXCEPT !.faza = "prosireno",
                               !.upis = [@ EXCEPT !.promjena = promjena, !.pravilo = FALSE,
                                                  !.popunjava = PopunjavaRupu(x.r, x.upis.verzije)]])
    /\ UNCHANGED <<knjiga, postavke, pamcenje, noviUvoz, zaborav, noviZapis, smetnji>>

\* Apply: idempotent. Only an Apply that added something counts as filling.
UpisiVerzije(t) ==
    LET x == razg[t] IN
    /\ x.faza = "prosireno"
    /\ knjiga' = [knjiga EXCEPT ![x.r] = @ \cup x.upis.verzije]
    /\ Nastavi(t, [x EXCEPT !.faza = "upisano",
                            !.upis = [@ EXCEPT !.popunjava =
                                x.upis.popunjava /\ ~(x.upis.verzije \subseteq knjiga[x.r])]])
    /\ UNCHANGED <<rupe, zapisano, postavke, brava, pamcenje, oznake, smetnji>>

\* An import of n is counted: what was sent so far no longer counts as sent.
ZabiljeziUvoz(n) ==
    /\ zaCvor' = [zaCvor EXCEPT ![n] = [r \in Cvor |-> 0]]
    /\ noviUvoz' = noviUvoz \cup Salje(n)

\* The record is narrowed; a failure leaves it wide, and the talk goes on.
SuziRupe(t) ==
    LET x == razg[t] IN
    /\ x.faza = "upisano"
    /\ brava' = [brava EXCEPT ![x.r] = Slobodna]
    /\ \/ /\ Ima(x.upis, x.prima.trazi)
          /\ \E promjena \in {UzOgradu(x)}, staro \in {UskladjenoPravilo(x.r)} :
             \E novo \in {Suzi(promjena, staro)} : PromijeniRupe(x.r, staro, novo)
       \/ /\ ~Ima(x.upis, x.prima.trazi) \/ "suzenje" \in Smetnje
          /\ UNCHANGED <<rupe, zapisano, rastRupa>>
    /\ IF x.upis.popunjava THEN ZabiljeziUvoz(x.r) ELSE UNCHANGED <<zaCvor, noviUvoz>>
    /\ Nastavi(t, [x EXCEPT !.faza = "zapamti",
                            !.upis = [PrazanUpis EXCEPT !.odbijeno = x.upis.odbijeno]])
    /\ UNCHANGED <<knjiga, postavke, odbijeneOd, zaborav, noviZapis, smetnji>>

-----------------------------------------------------------------------------
(* After the write: what was refused, and what was sent, is remembered       *)

\* The receiver may remember what it refused: nothing was forgotten and the
\* fence did not give way; when the sender skipped, the record it skipped by
\* must be the same and still hold.
SmijeUpisati(t) ==
    LET x == razg[t] IN
    /\ t \notin zaborav
    /\ JosOdbija(x.prima.ograda, ograda[x.r])
    /\ x.prima.moje # 0 => /\ t \notin noviZapis
                           /\ odbijeneOd[x.r][x.s].granica # 0
                           /\ JosOdbija(odbijeneOd[x.r][x.s].ograda, ograda[x.r])

ZapamtiOdbijene(t) ==
    LET x == razg[t]
        z == odbijeneOd[x.r][x.s]
        vrijedi == z.granica # 0 /\ JosOdbija(z.ograda, ograda[x.r])
    IN
    /\ x.faza = "zapamti"
    /\ IF x.upis.odbijeno # 0 /\ SmijeUpisati(t)
       THEN /\ odbijeneOd' = [odbijeneOd EXCEPT ![x.r][x.s] =
                  [granica |-> IF vrijedi THEN Veci(z.granica, x.upis.odbijeno)
                               ELSE x.upis.odbijeno,
                   ograda |-> ograda[x.r]]]
            /\ noviZapis' = IF vrijedi THEN noviZapis ELSE noviZapis \cup Zapisi(x.r, x.s)
       ELSE UNCHANGED <<odbijeneOd, noviZapis>>
    /\ Nastavi(t, [x EXCEPT !.faza = "zelje", !.prima = PocetakPrimatelja,
                            !.upis = PrazanUpis])
    /\ UNCHANGED <<trajno, postavke, brava, zaCvor, rastRupa, noviUvoz, zaborav, smetnji>>

\* Mutation: a finished delta counts as everything sent.
ZapamtiUvozDoKraja(t) ==
    LET x == razg[t] IN
    /\ x.faza = "zelje" /\ ~x.prekinut
    /\ zaCvor' = [zaCvor EXCEPT ![x.s][x.r] = IF t \in noviUvoz THEN 0 ELSE Beskraj]
    /\ Zavrsi({t})
    /\ UNCHANGED <<trajno, postavke, brava, odbijeneOd, smetnji>>

\* The sender got the wishes, which the receiver sends after its write: what
\* it sent is remembered, unless an import came since the start.
ZapamtiUvoz(t) ==
    LET x == razg[t] IN
    /\ x.faza = "zelje" /\ ~x.prekinut
    /\ zaCvor' = [zaCvor EXCEPT ![x.s][x.r] =
                      IF t \in noviUvoz THEN 0 ELSE Veci(@, Granica(x.delta.verzije))]
    /\ Zavrsi({t})
    /\ UNCHANGED <<trajno, postavke, brava, odbijeneOd, smetnji>>

\* The lock did not come in time (rokCekanjaUpisa): nothing is written, and
\* the talk ends with a refusal.
BravaNijeStigla(t) ==
    /\ razg[t].faza = "brava" /\ brava[razg[t].r] # Slobodna
    /\ Zavrsi({t})
    /\ UNCHANGED <<trajno, postavke, brava, pamcenje, smetnji>>

\* The connection fails: the wishes, or what was to come before the write, do
\* not arrive. What the receiver does alone, it finishes.
Prekid(t) ==
    /\ razg[t].faza \in {"pocetak", "delta", "zelje"}
    /\ "prekid" \in Smetnje \/ razg[t].prekinut
    /\ Zavrsi({t})
    /\ UNCHANGED <<trajno, postavke, brava, pamcenje, smetnji>>

\* Mutation: a failed write keeps the lock.
UpisPaoPodBravom(t) ==
    /\ "upis" \in Smetnje
    /\ razg[t].faza = "prosireno"
    /\ Zavrsi({t})
    /\ UNCHANGED <<trajno, postavke, brava, pamcenje, smetnji>>

\* A write fails: that of the gaps, and nothing is written; or that of the
\* versions, and the record stays wider than it has to be. The talk ends.
UpisPao(t) ==
    /\ "upis" \in Smetnje
    /\ \/ razg[t].faza = "brava" /\ brava[razg[t].r] = Slobodna
       \/ razg[t].faza = "prosireno"
    /\ brava' = [brava EXCEPT ![razg[t].r] = Slobodna]
    /\ Zavrsi({t})
    /\ UNCHANGED <<trajno, postavke, pamcenje, smetnji>>

-----------------------------------------------------------------------------
(* What happens to a node outside the talks                                  *)

Smetnja(vrsta) ==
    /\ vrsta \in Smetnje
    /\ smetnji < NajviseSmetnji
    /\ smetnji' = smetnji + 1

\* Everything n remembers to have refused is forgotten (zaboraviOdbijene).
ZaboraviOdbijene(n) ==
    /\ odbijeneOd' = [odbijeneOd EXCEPT ![n] = [s \in Cvor |-> [granica |-> 0, ograda |-> BezOgrade]]]
    /\ zaborav' = zaborav \cup Prima(n)

\* The user changes what the node keeps; every change has a new generation.
PromijeniPravilo(n) ==
    /\ Smetnja("pravilo")
    /\ \E p \in Pravila \ {ograda[n].odbija} :
          ograda' = [ograda EXCEPT ![n] = [narastaj |-> @.narastaj + 1, odbija |-> p]]
    /\ UNCHANGED <<trajno, prati, brava, pamcenje, razg, oznake>>

\* The edge of the period moves with the clock; the generation of the rule
\* stays. Forward, the fence refuses more.
PomakniRub(n) ==
    /\ Smetnja("rub")
    /\ ograda[n].odbija # {}
    /\ \E p \in Pravila \ {ograda[n].odbija} :
          /\ ograda[n].odbija \subseteq p
          /\ ograda' = [ograda EXCEPT ![n].odbija = p]
    /\ UNCHANGED <<trajno, prati, brava, pamcenje, razg, oznake>>

\* The clock is set back, or a month ends on an earlier day (AddDate): the
\* fence refuses less.
VratiRub(n) ==
    /\ Smetnja("rub natrag")
    /\ \E p \in Pravila \ {{}, ograda[n].odbija} :
          /\ p \subseteq ograda[n].odbija
          /\ ograda' = [ograda EXCEPT ![n].odbija = p]
    /\ UNCHANGED <<trajno, prati, brava, pamcenje, razg, oznake>>

\* AddSubscription, RemoveSubscription
PromijeniPretplatu(n) ==
    /\ Smetnja("pretplata")
    /\ prati' = [prati EXCEPT ![n] = ~@]
    /\ ZaboraviOdbijene(n)
    /\ UNCHANGED <<trajno, ograda, brava, zaCvor, razg, rastRupa, noviUvoz, noviZapis>>

URazgovoru(n) == \E t \in Razgovori : razg[t].faza # "nema" /\ n \in {razg[t].s, razg[t].r}

\* PurgeChannel: only a channel the node does not follow. It takes no lock and
\* stops no talk, so "usred razgovora" it may also run in the middle of one.
ObrisiKanal(n) ==
    /\ "brisanje" \in Smetnje /\ ~prati[n]
    /\ knjiga[n] # {} \/ rupe[n] # BezRupa
    /\ URazgovoru(n) => "usred razgovora" \in Smetnje
    /\ knjiga' = [knjiga EXCEPT ![n] = {}]
    /\ rupe' = [rupe EXCEPT ![n] = BezRupa]
    /\ ZaboraviOdbijene(n)
    /\ IF knjiga[n] # {} THEN ZabiljeziUvoz(n) ELSE UNCHANGED <<zaCvor, noviUvoz>>
    /\ UNCHANGED <<zapisano, postavke, brava, razg, rastRupa, noviZapis, smetnji>>

NoviZivot(n) ==
    /\ odbijeneOd' = [odbijeneOd EXCEPT ![n] = [s \in Cvor |-> [granica |-> 0, ograda |-> BezOgrade]]]
    /\ zaCvor' = [zaCvor EXCEPT ![n] = [r \in Cvor |-> 0]]

\* The program stops at any point: its talks end, the lock and what was in
\* memory only are gone. A receiver that is writing what n sent finishes it.
PonovnoPokreni(n) ==
    LET dovrsavaju == {t \in Razgovori : razg[t].s = n /\ razg[t].r # n
                          /\ razg[t].faza \in {"brava", "zapamti"} \cup PodBravom}
        gotovi == {t \in Razgovori \ dovrsavaju : n \in {razg[t].s, razg[t].r}}
    IN
    /\ "pad" \in Smetnje
    /\ razg' = [t \in Razgovori |-> IF t \in gotovi THEN Slobodan
                                    ELSE IF t \in dovrsavaju THEN [razg[t] EXCEPT !.prekinut = TRUE]
                                    ELSE razg[t]]
    /\ rastRupa' = rastRupa \ gotovi /\ noviUvoz' = noviUvoz \ gotovi
    /\ zaborav' = zaborav \ gotovi /\ noviZapis' = noviZapis \ gotovi
    /\ brava' = [brava EXCEPT ![n] = Slobodna]
    /\ NoviZivot(n)
    /\ UNCHANGED <<trajno, postavke, smetnji>>

\* PripremiRupe: a program that just started (no talk, nothing in memory)
\* records its rule; when that fails, the first talk does.
PripremiRupe(n) ==
    /\ ~URazgovoru(n)
    /\ odbijeneOd[n] = [s \in Cvor |-> [granica |-> 0, ograda |-> BezOgrade]]
    /\ zaCvor[n] = [r \in Cvor |-> 0]
    /\ PromijeniRupe(n, UskladjenoPravilo(n), UskladjenoPravilo(n))
    /\ UNCHANGED <<knjiga, postavke, brava, pamcenje, razg, noviUvoz, zaborav, noviZapis, smetnji>>

\* A record of refusals older than a day (najduljeOdbijene) no longer holds.
Istekne(n, s) ==
    /\ "istek" \in Smetnje
    /\ odbijeneOd[n][s].granica # 0
    /\ odbijeneOd' = [odbijeneOd EXCEPT ![n][s] = [@ EXCEPT !.granica = 0]]
    /\ UNCHANGED <<trajno, postavke, brava, zaCvor, razg, oznake, smetnji>>

-----------------------------------------------------------------------------
Korak(t) ==
    \/ GranicaPosiljatelja(t) \/ RupePosiljatelja(t)
    \/ GranicaPrimatelja(t) \/ NePrati(t) \/ RupePrimatelja(t)
    \/ SloziDeltu(t) \/ Odluci(t)
    \/ ZapisiRupe(t) \/ UpisiVerzije(t) \/ SuziRupe(t)
    \/ ZapamtiOdbijene(t) \/ ZapamtiUvoz(t)

Next ==
    \/ Napisi
    \/ \E t \in Razgovori : \/ \E v \in Veze : Zapocni(t, v[1], v[2])
                           \/ Korak(t)
                           \/ BravaNijeStigla(t) \/ Prekid(t) \/ UpisPao(t)
    \/ \E n \in Podesivi : \/ PromijeniPravilo(n) \/ PomakniRub(n) \/ VratiRub(n)
                          \/ PromijeniPretplatu(n) \/ ObrisiKanal(n)
    \/ \E n \in Primatelji : \/ PonovnoPokreni(n) \/ PripremiRupe(n)
                            \/ \E s \in Cvor : Istekne(n, s)

Spec == Init /\ [][Next]_vars

-----------------------------------------------------------------------------
Faze == {"nema", "pocetak", "delta", "brava", "prosireno", "upisano", "zapamti", "zelje"}
Granice == 0 .. ZadnjaVerzija

RazgovorTip == [
    faza : Faze, s : Cvor, r : Cvor, prekinut : BOOLEAN,
    salje : [korak : 0 .. 2, granica : Granice, nejamci : Rasponi, dosad : Granice],
    prima : [korak : 0 .. 2, fs : Granice, moje : Granice, ograda : Ograde,
             trazi : Rasponi, zapisati : BOOLEAN],
    delta : [verzije : SUBSET Verzije, od : Granice, rupe : Rasponi, popuna : Rasponi],
    upis : [verzije : SUBSET Verzije, promjena : PromjeneKljuca, pravilo : BOOLEAN,
            odbijeno : Granice, popunjava : BOOLEAN]]

TypeOK ==
    /\ knjiga \in [Cvor -> SUBSET Verzije]
    /\ rupe \in [Cvor -> RupeKljuca]
    /\ zapisano \in [Cvor -> [ima : BOOLEAN, odbija : Pravila \cup {{}}]]
    /\ ograda \in [Cvor -> Ograde]
    /\ prati \in [Cvor -> BOOLEAN]
    /\ brava \in [Cvor -> Razgovori \cup {Slobodna}]
    /\ odbijeneOd \in [Cvor -> [Cvor -> [granica : Granice, ograda : Ograde]]]
    /\ zaCvor \in [Cvor -> [Cvor -> Granice]]
    /\ razg \in [Razgovori -> RazgovorTip]
    /\ rastRupa \subseteq Razgovori /\ noviUvoz \subseteq Razgovori
    /\ zaborav \subseteq Razgovori /\ noviZapis \subseteq Razgovori
    /\ smetnji \in 0 .. NajviseSmetnji

\* One write at a time: the lock of a node is held by the one talk that is
\* writing into it (upis.go), whatever else fails or restarts.
JedanUpis ==
    \A t \in Razgovori :
        razg[t].faza \in PodBravom <=> brava[razg[t].r] = t

\* Versions the author wrote that n does not hold.
Nema(n) == knjiga[Autor] \ knjiga[n]

\* The invariant of rupe.go: a version of a foreign key up to the frontier
\* that is not in the ledger is in odbijeno or in trazi (or the node vouches
\* for nothing, before its first step is recorded).
RupaJeZapisana ==
    \A n \in Primatelji : \A v \in Nema(n) :
        v <= Granica(knjiga[n]) => v \in Clanovi(NeJamciNaPocetku(n))

\* odbijeno holds only what the recorded rule refuses: a missing version below
\* the frontier that the node would keep is asked for.
PotrebnoSeTrazi ==
    \A n \in Primatelji : \A v \in Nema(n) :
        /\ v <= Granica(knjiga[n])
        /\ zapisano[n].ima /\ v \notin zapisano[n].odbija
        => v \in Clanovi(rupe[n].trazi)

\* What the sender says of its delta is true: every version of the author in
\* the range the delta covers is in it, or the sender says it does not vouch
\* for it (jamstvoDelte). On this the receiver stops asking.
JamstvoDelteIstinito ==
    \A t \in Razgovori : razg[t].faza = "delta" =>
        LET d == razg[t].delta IN
        \A v \in knjiga[Autor] :
            (d.od < v /\ v <= Granica(d.verzije)) \/ v \in Clanovi(d.popuna)
            => v \in d.verzije \cup Clanovi(d.rupe)

\* A talk is filling a gap of n and has not counted the import yet.
PopunaUTijeku(n) ==
    \E t \in Razgovori : razg[t].r = n /\ razg[t].faza = "upisano" /\ razg[t].upis.popunjava

\* What talk t does not send because the receiver has a frontier, or once
\* refused as much, the receiver holds, refuses or asks for.
PreskokIskren(t) ==
    LET x == razg[t] IN
    /\ x.faza = "pocetak" /\ razg'[t].faza = "delta"
    /\ JosOdbija(x.prima.ograda, ograda[x.r])
    => \A v \in Nema(x.r) :
          v <= razg'[t].delta.od
          => v \in ograda[x.r].odbija \cup Clanovi(RupeNaPocetku(x.r).trazi)

\* Below where a delta goes from (granicaZaDeltu) nothing is hidden, although
\* the receiver read its frontier first, and its refusals (granica_odbijenih.go)
\* and its gaps later, while other talks wrote into it. When its fence gave way
\* since, it drops what came (bezPreskocenog).
PreskokNeSkriva == [][\A t \in Razgovori : PreskokIskren(t)]_vars

\* A node that follows the channel has, once nothing is going on, no silent
\* gap: what it misses below its frontier is recorded, so it is asked for or
\* was refused. Following the channel again brings everything.
PonovnoPracenjeDohvatiSve ==
    \A n \in Primatelji : \A v \in Nema(n) :
        prati[n] /\ ~URazgovoru(n) /\ v <= Granica(knjiga[n])
        => v \in Clanovi(NeJamciNaPocetku(n))

-----------------------------------------------------------------------------
(* Liveness. The sync loop rings every known node each round, so a talk over  *)
(* a link that may begin again and again begins; the steps of a talk are not  *)
(* held up. Failures are left out: each ends a talk and the next one repeats. *)

Posteno ==
    /\ \A t \in Razgovori : WF_vars(Korak(t))
    /\ \A v \in Veze : SF_vars(\E t \in Razgovori : Zapocni(t, v[1], v[2]))

PostenSpec == Spec /\ Posteno

\* Once the author and the users stop, every written version is for good on
\* every node that follows the channel and accepts it, also past middlemen
\* that refuse it and after a rule that used to refuse it.
StigneSve ==
    <>[](\A n \in Primatelji : \A v \in knjiga[Autor] :
            prati[n] /\ v \notin ograda[n].odbija => v \in knjiga[n])
=============================================================================
