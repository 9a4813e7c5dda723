------------------------------- MODULE Prava --------------------------------
(***************************************************************************)
(* Rights of accounts and duties in a network (internal/repository:        *)
(* apply_ograda_prava.go, apply_prava_polja.go, apply_potvrda_prava.go,    *)
(* apply_potvrda_stanje.go, user_repo.go).                                 *)
(*                                                                         *)
(* A received version that changes who is a global administrator, or the   *)
(* password of one, waits. It is confirmed or rejected once, on a node     *)
(* that holds the network key; the decision is signed, goes to the ledger  *)
(* and travels like any other record. A record with a signed decision, and *)
(* every record once the transition (prijelaz) is signed, gets its rights  *)
(* from its whole history and the decisions; the others compare each       *)
(* version with the surface. A version written on a node holds there at    *)
(* once (prava_vlastite).                                                  *)
(*                                                                         *)
(* Every node is in the network. An account's rights are the flag and one  *)
(* more field that is guarded only for global administrators: the password *)
(* stands for the switch "active" as well. A duty's right is whether it    *)
(* gives the management of the organisation; whose it is does not change.  *)
(* Records are not deleted here (Povrsina), labels are the order of        *)
(* writing, and the ledger and the surface are one step (Povrsina again).  *)
(***************************************************************************)
EXTENDS Integers, FiniteSets, Folds

CONSTANTS
    Cvor,          \* nodes
    PrviKljuc,     \* nodes that hold the network key from the start
    KasnijiKljuc,  \* nodes that may load a copy of it
    Racun,         \* accounts
    Duznost,       \* duties
    Vlasnik,       \* Vlasnik[d]: the account of duty d
    Lozinka,       \* passwords
    Pise,          \* Pise[n]: records the users of node n write
    PocetnaKnjiga, \* PocetnaKnjiga[n]: versions from before the signatures
    Nema,          \* no rights, no row
    Mreza,         \* the record of the transition's confirmation
    ZadnjaOznaka   \* bound: labels 1 .. ZadnjaOznaka

Zapis == Racun \cup Duznost
Oznake == 1 .. ZadnjaOznaka
PravaRacuna == [zastavica : BOOLEAN, lozinka : Lozinka]
PravaDuznosti == [uprava : BOOLEAN]
PravaZapisa(z) == IF z \in Racun THEN PravaRacuna ELSE PravaDuznosti
Verzija == UNION {[oznaka : Oznake, autor : Cvor, zapis : {z}, prava : PravaZapisa(z)] :
                    z \in Zapis}

ASSUME PravaPretpostavka ==
    /\ PrviKljuc \subseteq Cvor /\ KasnijiKljuc \subseteq Cvor
    /\ Racun \cap Duznost = {} /\ Mreza \notin Zapis
    /\ Vlasnik \in [Duznost -> Racun]
    /\ Pise \in [Cvor -> SUBSET Zapis]
    /\ PocetnaKnjiga \in [Cvor -> SUBSET Verzija]
    /\ IsFiniteSet(UNION {PocetnaKnjiga[n] : n \in Cvor})
    /\ \A v, w \in UNION {PocetnaKnjiga[n] : n \in Cvor} : v.oznaka = w.oznaka => v = w
    /\ \A v \in UNION {PocetnaKnjiga[n] : n \in Cvor} :
          v.oznaka <= Cardinality(UNION {PocetnaKnjiga[n] : n \in Cvor})
    /\ \A n \in Cvor : \A v \in PocetnaKnjiga[n] :
          v.zapis \in Duznost => \E w \in PocetnaKnjiga[n] : w.zapis = Vlasnik[v.zapis]
    /\ Nema \notin [oznaka : Oznake, prava : PravaRacuna \cup PravaDuznosti]
    /\ Nema \notin PravaRacuna \cup PravaDuznosti
    /\ ZadnjaOznaka \in Nat

VARIABLES
    kljuc,      \* nodes that hold the network key
    knjiga,     \* knjiga[n]: versions of accounts and duties in the ledger
    odluke,     \* odluke[n]: signed decisions in the ledger
    vlastite,   \* vlastite[n]: labels written on n (prava_vlastite)
    povrsina,   \* povrsina[n][z]: the row (version and rights), or Nema
    popis,      \* popis[n][o]: what became of version o (prava_na_potvrdi)
    nedovrseni  \* nedovrseni[n]: records to be tried again (memory)

vars == <<kljuc, knjiga, odluke, vlastite, povrsina, popis, nedovrseni>>

-----------------------------------------------------------------------------
(* Rights *)

VerzijeZapisa(K, z) == {v \in K : v.zapis = z}
Kasnija(S) == CHOOSE x \in S : \A y \in S : y.oznaka <= x.oznaka
Zadnja(K, z) == Kasnija(VerzijeZapisa(K, z))
Red(oznaka, prava) == [oznaka |-> oznaka, prava |-> prava]
PravaPovrsine(p, z) == IF p[z] = Nema THEN Nema ELSE p[z].prava

\* imaUpravuOrganizacije, from the surface
ImaUpravu(p, r) == \E d \in Duznost : Vlasnik[d] = r /\ p[d] # Nema /\ p[d].prava.uprava

Globalni(p, r, prava) == prava # Nema /\ (prava.zastavica \/ ImaUpravu(p, r))

\* promjenaOd: version v changes guarded rights, against rights `prava`.
MijenjaPrava(p, prava, v) ==
    LET r == v.zapis
    IN  IF r \in Duznost THEN v.prava.uprava # (prava # Nema /\ prava.uprava)
        ELSE \/ v.prava.zastavica # (prava # Nema /\ prava.zastavica)
             \/ /\ Globalni(p, r, prava) \/ (prava # Nema /\ v.prava.zastavica)
                /\ v.prava.lozinka # prava.lozinka

\* Mutation: the guarded rights of the version are taken with the rest.
BezPravaZastavica(p, v) == v.prava

\* racunBezPrava, duznostBezPrava: the rights of v with what is guarded kept
\* from the surface.
BezPrava(p, v) ==
    LET bilo == p[v.zapis].prava
    IN  IF v.zapis \in Duznost THEN bilo
        ELSE [zastavica |-> bilo.zastavica,
              lozinka |-> IF Globalni(p, v.zapis, bilo) THEN bilo.lozinka ELSE v.prava.lozinka]

-----------------------------------------------------------------------------
(* izracunajStanje: rights from the history K and the decisions D of record *)
(* z, on a node with surface p and own versions vl                          *)

OdlukeZapisa(O, z) == {x \in O : x.zapis = z}
Potvrde(D) == {x \in D : x.odluka = "potvrdeno"}
Odbijanja(D) == {x \in D : x.odluka = "odbijeno"}
OOznaci(D, o) == {x \in D : x.verzija = o}

\* tocna: a rejection before a confirmation, a later decision before an
\* earlier one; Nema when there is none.
Tocna(D, o) ==
    LET odbijeno == Odbijanja(OOznaci(D, o))
    IN  IF odbijeno # {} THEN Kasnija(odbijeno)
        ELSE IF OOznaci(D, o) # {} THEN Kasnija(OOznaci(D, o)) ELSE Nema

OznakeU(K) == {v.oznaka : v \in K}

\* Confirmations of versions that are not in the ledger.
PotvrdeBezVerzije(K, D) ==
    {Kasnija(OOznaci(Potvrde(D), x.verzija)) :
        x \in {y \in Potvrde(D) : y.verzija \notin OznakeU(K)
                                  /\ OOznaci(Odbijanja(D), y.verzija) = {}}}

\* Labels that set rights.
Tocke(K, D, vl) ==
    {o \in OznakeU(K) : LET x == Tocna(D, o)
                        IN  IF x # Nema THEN x.odluka = "potvrdeno" ELSE o \in vl}
      \cup {x.verzija : x \in PotvrdeBezVerzije(K, D)}

Razdoblje(tocke, o) == Cardinality({t \in tocke : t <= o})

Postavi(s, oznaka, prava) ==
    [s EXCEPT !.prava = prava, !.tocka = oznaka,
              !.ishod = [o \in Oznake |-> IF @[o] = "ceka" THEN "zamijenjeno" ELSE @[o]]]

\* korak: one version of the history. A rejection is carried to versions with
\* the same rights between the same two points.
Korak(p, K, D, vl, s0, v) ==
    LET o == v.oznaka
        s == [s0 EXCEPT !.zadnja = o]
        x == Tocna(D, o)
        tocke == Tocke(K, D, vl)
        preneseno == \E y \in Odbijanja(D) :
                        y.prava = v.prava /\ Razdoblje(tocke, y.verzija) = Razdoblje(tocke, o)
    IN  IF x # Nema
        THEN LET t == IF x.odluka = "potvrdeno" THEN Postavi(s, o, x.prava) ELSE s
             IN  [t EXCEPT !.ishod[o] = x.odluka]
        ELSE IF o \in vl THEN Postavi(s, o, v.prava)
        ELSE IF v.prava = s.prava THEN s
        ELSE IF preneseno THEN [s EXCEPT !.ishod[o] = "odbijeno"]
        ELSE IF MijenjaPrava(p, s.prava, v) THEN [s EXCEPT !.ishod[o] = "ceka"]
        ELSE [s EXCEPT !.prava = v.prava]

IzracunajStanje(p, K, D, vl) ==
    LET bez == PotvrdeBezVerzije(K, D)
        do[i \in 0 .. ZadnjaOznaka] ==
          IF i = 0 THEN [prava |-> Nema, tocka |-> 0, zadnja |-> 0, ishod |-> [o \in Oznake |-> ""]]
          ELSE IF i \in OznakeU(K)
               THEN Korak(p, K, D, vl, do[i - 1], CHOOSE v \in K : v.oznaka = i)
          ELSE IF OOznaci(bez, i) # {}
               THEN Postavi(do[i - 1], i, (CHOOSE x \in OOznaci(bez, i) : TRUE).prava)
          ELSE do[i - 1]
    IN  do[ZadnjaOznaka]

PrijelazGotov(O) == OdlukeZapisa(O, Mreza) # {}
Mjerodavno(O, z) == OdlukeZapisa(O, z) # {} \/ PrijelazGotov(O)

-----------------------------------------------------------------------------
(* A surface transaction. Its state t: the ledger K, O and own versions vl, *)
(* the surface p, the list q, records that passed, failed, or wait.         *)

Stanje(t, z) == IzracunajStanje(t.p, VerzijeZapisa(t.K, z), OdlukeZapisa(t.O, z), t.vl)

\* racunDuznostiCeka: the account is not on the surface, and a change of it
\* waits or is rejected.
CekaRacun(t, z) ==
    /\ z \in Duznost /\ t.p[Vlasnik[z]] = Nema
    /\ \E v \in VerzijeZapisa(t.K, Vlasnik[z]) : t.q[v.oznaka] \in {"ceka", "odbijeno"}

\* primijeniVerziju: a duty leans on its account by a foreign key.
NaPovrsinu(t, z, red) ==
    IF z \in Duznost /\ t.p[Vlasnik[z]] = Nema
    THEN [t EXCEPT !.palo = @ \cup {z}]
    ELSE [t EXCEPT !.p[z] = red, !.proslo = @ \cup {z}]

\* Mutation: only the account leaves.
MakniSamoRacun(t, z) == [t EXCEPT !.p[z] = Nema, !.proslo = @ \cup {z}]

\* A record without rights leaves the surface, an account with its duties.
Makni(t, z) ==
    [t EXCEPT !.p = [y \in Zapis |-> IF y = z \/ (y \in Duznost /\ Vlasnik[y] = z)
                                     THEN Nema ELSE @[y]],
              !.proslo = @ \cup {z}]

\* zapisiIshode
ZapisiIshode(t, z, s) ==
    [t EXCEPT !.q = [o \in Oznake |->
        IF o \notin OznakeU(VerzijeZapisa(t.K, z)) THEN @[o]
        ELSE IF s.ishod[o] = "potvrdeno" THEN "" ELSE s.ishod[o]]]

\* poOdlukama and primijeniVerziju of the state s it computes
PoStanju(t, z, s) ==
    IF s.prava = Nema \/ s.zadnja = 0
    THEN IF t.p[z] # Nema THEN Makni(t, z) ELSE t
    ELSE IF CekaRacun(t, z) THEN t
    ELSE NaPovrsinu(t, z, Red(s.zadnja, s.prava))

PoOdlukama(t, z) ==
    LET s == Stanje(t, z)
    IN  PoStanju(ZapisiIshode(t, z, s), z, s)

\* zapisiPromjenuPrava: the last earlier change decides when it was rejected
\* with the same rights; earlier changes that wait are replaced.
ZapisiPromjenu(t, v) ==
    LET raniji == {w \in VerzijeZapisa(t.K, v.zapis) : w.oznaka < v.oznaka /\ t.q[w.oznaka] # ""}
        preneseno == raniji # {} /\ t.q[Kasnija(raniji).oznaka] = "odbijeno"
                     /\ Kasnija(raniji).prava = v.prava
    IN  IF t.q[v.oznaka] # "" THEN t
        ELSE [t EXCEPT !.q = [o \in Oznake |->
                IF o = v.oznaka THEN IF preneseno THEN "odbijeno" ELSE "ceka"
                ELSE IF o \in OznakeU(raniji) /\ @[o] = "ceka" THEN "zamijenjeno" ELSE @[o]]]

\* propustiPremaPovrsini, provjeri
PremaPovrsini(t, v) ==
    LET z == v.zapis
        c == ZapisiPromjenu(t, v)
    IN  IF CekaRacun(t, z) THEN t
        ELSE IF ~MijenjaPrava(t.p, PravaPovrsine(t.p, z), v)
             THEN NaPovrsinu(t, z, Red(v.oznaka, v.prava))
        ELSE IF t.p[z] = Nema THEN c
        ELSE NaPovrsinu(c, z, Red(v.oznaka, BezPrava(t.p, v)))

\* zaPovrsinu and what follows it in ApplyVersions
Primijeni(t, v) ==
    IF Mjerodavno(t.O, v.zapis) THEN PoOdlukama(t, v.zapis)
    ELSE IF v = Zadnja(t.K, v.zapis) THEN PremaPovrsini(t, v)
    ELSE t

\* The versions V in the order of labels.
PoOznakama(t0, V) ==
    LET do[i \in 0 .. ZadnjaOznaka] ==
          IF i = 0 THEN t0
          ELSE IF i \in OznakeU(V) THEN Primijeni(do[i - 1], CHOOSE v \in V : v.oznaka = i)
          ELSE do[i - 1]
    IN  do[ZadnjaOznaka]

\* vratiDjecu: duties of account r alive in the ledger and not on the surface
VratiDjecu(t, r) ==
    LET djeca == {d \in Duznost : Vlasnik[d] = r /\ t.p[d] = Nema /\ VerzijeZapisa(t.K, d) # {}}
    IN  PoOznakama(t, {Zadnja(t.K, d) : d \in djeca})

\* In a savepoint, which gave u: z waits when it failed, and an account brings
\* its duties back.
UTocki(t, z, u) ==
    LET s == [u EXCEPT !.palo = t.palo, !.proslo = t.proslo]
    IN  IF u.palo # {} THEN [t EXCEPT !.ceka = @ \cup {z}]
        ELSE IF z \in Racun /\ z \in u.proslo /\ u.p[z] # Nema
             THEN [VratiDjecu(s, z) EXCEPT !.palo = t.palo, !.proslo = t.proslo]
        ELSE s

\* obnoviZapis, of a received decision or of one signed here
ObnoviZapis(t, z) ==
    IF Mjerodavno(t.O, z)
    THEN UTocki(t, z, PoOdlukama([t EXCEPT !.palo = {}, !.proslo = {}], z))
    ELSE t

\* Passes over the versions V in the order of labels, while any of what
\* failed gets through.
Prolaz(t0, V) == PoOznakama([t0 EXCEPT !.palo = {}], V)

Prolazi(t0, V) ==
    LET nakon[i \in 0 .. Cardinality(V)] ==
          IF i = 0 THEN [t0 EXCEPT !.palo = {v.zapis : v \in V}]
          ELSE Prolaz(nakon[i - 1], {v \in V : v.zapis \in nakon[i - 1].palo})
    IN  nakon[Cardinality(V)]

\* Mutation: decisions are recorded and nothing is computed again.
PrimijeniPotpisaneBezObnove(t0, D) == t0

\* primijeniPotpisane: the received decisions, in the order of labels
PrimijeniPotpisane(t0, D) ==
    LET do[i \in 0 .. ZadnjaOznaka] ==
          IF i = 0 THEN t0
          ELSE LET x == {y \in D : y.oznaka = i /\ y.zapis # Mreza}
               IN  IF x = {} THEN do[i - 1]
                   ELSE ObnoviZapis(do[i - 1], (CHOOSE y \in x : TRUE).zapis)
    IN  do[ZadnjaOznaka]

Transakcija(n) ==
    [K |-> knjiga[n], O |-> odluke[n], vl |-> vlastite[n], p |-> povrsina[n], q |-> popis[n],
     proslo |-> {}, palo |-> {}, ceka |-> {}]

\* ApplyVersions of versions V and decisions D, with what waits in ned
\* (dodajNedovrsene); what waits after it is in ceka.
ApplyVersions(t, V, D, ned) ==
    LET zadnje == {v \in V : v.zapis \notin ned /\ \A w \in V : w.zapis = v.zapis => w.oznaka <= v.oznaka}
        u == Prolazi(t, zadnje \cup {Zadnja(t.K, z) : z \in ned})
        w == PrimijeniPotpisane(u, D)
    IN  [w EXCEPT !.ceka = ((ned \cup @) \ w.proslo) \cup u.palo]

-----------------------------------------------------------------------------
(* Signing on a node with the network key *)

Napisano == UNION {knjiga[n] \cup odluke[n] : n \in Cvor}
Sljedeca(t) == Cardinality(Napisano \cup t.K \cup t.O) + 1

\* potpisiSPravima: decision about the version labelled o, with the rights
\* that hold after it.
Potpisi(t, n, z, o, odluka, prava) ==
    [t EXCEPT !.O = @ \cup {[oznaka |-> Sljedeca(t), autor |-> n, zapis |-> z, verzija |-> o,
                             odluka |-> odluka, prava |-> prava]}]

\* stanjeDrugdje: without this node's own versions
StanjeDrugdje(t, z) == Stanje([t EXCEPT !.vl = {}], z)

\* potvrdiIzmjenu: a version just written is confirmed when it would wait, or
\* be rejected, elsewhere.
PotvrdiIzmjenu(t, n, v) ==
    IF n \in kljuc /\ StanjeDrugdje(t, v.zapis).ishod[v.oznaka] \notin {"", "potvrdeno"}
    THEN Potpisi(t, n, v.zapis, v.oznaka, "potvrdeno", v.prava)
    ELSE t

\* polaziste: the last version with the rights of the surface before the
\* first change that waits here or was replaced, else the last before it.
Polaziste(t, z) ==
    LET V == VerzijeZapisa(t.K, z)
        cekaju == {v \in V : t.q[v.oznaka] \in {"ceka", "zamijenjeno"}}
        prije == {v \in V : \A w \in cekaju : v.oznaka < w.oznaka}
        iste == {v \in prije : v.prava = t.p[z].prava}
    IN  IF iste # {} THEN iste ELSE prije

\* Mutation: the state on the surface is not signed.
PotpisiPolazisteNikad(t, n, z) == t

\* potpisiPolaziste: before the transition, a record without decisions gets a
\* confirmation of the state on this surface when the ledger alone would
\* give another.
PotpisiPolaziste(t, n, z) ==
    IF \/ Mjerodavno(t.O, z) \/ t.p[z] = Nema
       \/ IzracunajStanje(t.p, VerzijeZapisa(t.K, z), {}, {}).prava = t.p[z].prava
       \/ Polaziste(t, z) = {}
    THEN t
    ELSE Potpisi(t, n, z, Kasnija(Polaziste(t, z)).oznaka, "potvrdeno", t.p[z].prava)

\* potpisiVlastitu: the last own version after the last point, when it waits
\* or is rejected elsewhere without a decision of its own (vlastitaZaPotpis,
\* bezOdluke). A carried rejection is the decision it was carried from.
PotpisiVlastitu(t, n, z) ==
    LET s == StanjeDrugdje(t, z)
        svoje == {v \in VerzijeZapisa(t.K, z) : v.oznaka \in t.vl /\ v.oznaka > s.tocka}
        v == Kasnija(svoje)
    IN  IF svoje # {} /\ s.ishod[v.oznaka] \in {"ceka", "zamijenjeno"}
        THEN Potpisi(t, n, z, v.oznaka, "potvrdeno", v.prava)
        ELSE t

PotpisiZapis(t, n, z) ==
    LET u == PotpisiVlastitu(PotpisiPolaziste(t, n, z), n, z)
    IN  IF u = t THEN t ELSE ObnoviZapis(u, z)

\* Over the records in the ledger, accounts first: the fold takes in last what
\* is chosen first.
Zadnji(Z) == CHOOSE z \in Z : z \in Duznost \/ Z \cap Duznost = {}

\* dovrsiPrijelaz: once, the transition, and every record from the ledger.
DovrsiPrijelaz(t, n, Z) ==
    IF PrijelazGotov(t.O) THEN t
    ELSE MapThenFoldSet(LAMBDA z, u : ObnoviZapis(u, z),
                        Potpisi(t, n, Mreza, 0, "potvrdeno", Nema),
                        LAMBDA z : z, Zadnji, Z)

\* potpisiSve
PotpisiSve(t, n) ==
    LET Z == {v.zapis : v \in t.K}
    IN  DovrsiPrijelaz(MapThenFoldSet(LAMBDA z, u : PotpisiZapis(u, n, z), t,
                                      LAMBDA z : z, Zadnji, Z), n, Z)

-----------------------------------------------------------------------------
(* Actions *)

Ishod(n, t, ned) ==
    /\ Cardinality(Napisano \cup t.K \cup t.O) <= ZadnjaOznaka
    /\ knjiga' = [knjiga EXCEPT ![n] = t.K]
    /\ odluke' = [odluke EXCEPT ![n] = t.O]
    /\ vlastite' = [vlastite EXCEPT ![n] = t.vl]
    /\ povrsina' = [povrsina EXCEPT ![n] = t.p]
    /\ popis' = [popis EXCEPT ![n] = t.q]
    /\ nedovrseni' = [nedovrseni EXCEPT ![n] = ned]

\* uKnjigu: the row changes, its version goes to the ledger and is signed on
\* a node with the key, in one transaction.
UKnjigu(n, z, prava) ==
    LET o == Sljedeca(Transakcija(n))
        v == [oznaka |-> o, autor |-> n, zapis |-> z, prava |-> prava]
        t == Transakcija(n)
    IN  [t EXCEPT !.K = @ \cup {v}, !.vl = @ \cup {o}, !.p[z] = Red(o, prava)]

\* Mutation: a record that waits may be written.
CekaPotvrduNikad(n, z) == FALSE

\* cekaPotvrdu
CekaPotvrdu(n, z) == \E v \in VerzijeZapisa(knjiga[n], z) : popis[n][v.oznaka] = "ceka"

Upisi(n, z, prava) ==
    /\ Cardinality(Napisano) < ZadnjaOznaka
    /\ LET t == UKnjigu(n, z, prava)
       IN  Ishod(n, PotvrdiIzmjenu(t, n, Zadnja(t.K, z)), nedovrseni[n])
    /\ UNCHANGED kljuc

\* UpdateUser, ChangePassword, ResetPassword, MarkLogin, UpdateDuty,
\* RevokeDuty, PostaviIstek
Izmijeni(n, z, prava) ==
    /\ povrsina[n][z] # Nema
    /\ ~CekaPotvrdu(n, z)
    /\ Upisi(n, z, prava)

\* CreateUser, AddDuty. An account created on two nodes under one user name
\* is one record (stalniIdentitetKorisnika); a duty's identity is its own.
Novi(n, z, prava) ==
    /\ VerzijeZapisa(IF z \in Racun THEN knjiga[n] ELSE UNION {knjiga[m] : m \in Cvor}, z) = {}
    /\ z \in Duznost => povrsina[n][Vlasnik[z]] # Nema
    /\ Upisi(n, z, prava)

\* odluciKljucem: the global administrator confirms or rejects a change that
\* waits, on a node with the key.
OdluciKljucem(n, v, odluka) ==
    /\ n \in kljuc
    /\ v \in knjiga[n] /\ popis[n][v.oznaka] = "ceka"
    /\ LET t == PotpisiPolaziste(Transakcija(n), n, v.zapis)
           u == Potpisi(t, n, v.zapis, v.oznaka, odluka, v.prava)
       IN  \E w \in {ObnoviZapis(u, v.zapis)} :
              /\ v.zapis \notin w.ceka
              /\ Ishod(n, w, nedovrseni[n])
    /\ UNCHANGED kljuc

\* PotpisiStanjePrava at the start of a node with the key
PotpisiStanjePrava(n) ==
    /\ n \in kljuc
    /\ \E t \in {PotpisiSve(Transakcija(n), n)} :
          /\ t.ceka = {}
          /\ Ishod(n, t, nedovrseni[n])
    /\ UNCHANGED kljuc

\* UcitajKopijuKljuca; the key stays when signing fails (javiKljucMreze).
UcitajKopijuKljuca(n) ==
    /\ n \in KasnijiKljuc \ kljuc
    /\ kljuc' = kljuc \cup {n}
    /\ \E t \in {PotpisiSve(Transakcija(n), n)} :
          Ishod(n, IF t.ceka = {} THEN t ELSE Transakcija(n), nedovrseni[n])

\* Packets: of one author in order, or everything n lacks of m's ledger.
Paketi(n, m) ==
    LET fali == (knjiga[m] \cup odluke[m]) \ (knjiga[n] \cup odluke[n])
    IN  ({{x \in fali : x.autor = a /\ x.oznaka <= o} : a \in Cvor, o \in Oznake} \cup {fali}) \ {{}}

Primi(n, m, X) ==
    LET V == X \cap knjiga[m]
        D == X \cap odluke[m]
        t == [Transakcija(n) EXCEPT !.K = @ \cup V, !.O = @ \cup D]
    IN  /\ \E w \in {ApplyVersions(t, V, D, nedovrseni[n])} : Ishod(n, w, w.ceka)
        /\ UNCHANGED kljuc

\* A restart: what waits is forgotten, the last version of every record and
\* every decision are applied again (ReplaySurface).
Pokreni(n) ==
    /\ \E w \in {ApplyVersions(Transakcija(n), knjiga[n], odluke[n], {})} : Ishod(n, w, w.ceka)
    /\ UNCHANGED kljuc

Init ==
    /\ kljuc = PrviKljuc
    /\ knjiga = PocetnaKnjiga
    /\ odluke = [n \in Cvor |-> {}]
    /\ vlastite = [n \in Cvor |-> {}]
    /\ povrsina = [n \in Cvor |-> [z \in Zapis |->
          IF VerzijeZapisa(knjiga[n], z) = {} THEN Nema
          ELSE Red(Zadnja(knjiga[n], z).oznaka, Zadnja(knjiga[n], z).prava)]]
    /\ popis = [n \in Cvor |-> [o \in Oznake |-> ""]]
    /\ nedovrseni = [n \in Cvor |-> {}]

Next ==
    \/ \E n \in Cvor : \E z \in Pise[n] : \E prava \in PravaZapisa(z) : Izmijeni(n, z, prava)
    \/ \E n \in Cvor : \E z \in Pise[n] : \E prava \in PravaZapisa(z) : Novi(n, z, prava)
    \/ \E n \in Cvor, odluka \in {"potvrdeno", "odbijeno"} :
          \E v \in knjiga[n] : OdluciKljucem(n, v, odluka)
    \/ \E n \in Cvor : PotpisiStanjePrava(n)
    \/ \E n \in Cvor : UcitajKopijuKljuca(n)
    \/ \E n, m \in Cvor : \E X \in Paketi(n, m) : Primi(n, m, X)
    \/ \E n \in Cvor : Pokreni(n)

Spec == Init /\ [][Next]_vars

-----------------------------------------------------------------------------
(* Properties *)

\* Types, and: decisions are signed with the key, what is own is in the
\* ledger, a row stands for a version of the ledger, and a duty has its
\* account on the surface.
TypeOK ==
    /\ kljuc \subseteq Cvor
    /\ \A n \in Cvor :
          /\ knjiga[n] \subseteq Verzija
          /\ \A x \in odluke[n] : x.autor \in kljuc
          /\ vlastite[n] \subseteq {v.oznaka : v \in {w \in knjiga[n] : w.autor = n}}
          /\ \A z \in Zapis : povrsina[n][z] # Nema =>
                /\ povrsina[n][z].prava \in PravaZapisa(z)
                /\ \E v \in VerzijeZapisa(knjiga[n], z) : v.oznaka = povrsina[n][z].oznaka
          /\ \A d \in Duznost : povrsina[n][d] # Nema => povrsina[n][Vlasnik[d]] # Nema
          /\ nedovrseni[n] \subseteq Zapis

\* No own version of z after the last signed point.
BezSvojih(n, z) ==
    LET D == OdlukeZapisa(odluke[n], z)
        s == IzracunajStanje(povrsina[n], VerzijeZapisa(knjiga[n], z), D, {})
    IN  \A v \in VerzijeZapisa(knjiga[n], z) :
          v.oznaka \in vlastite[n] /\ v.oznaka > s.tocka => Tocna(D, v.oznaka) # Nema

\* No duty of account z was ever written, as far as n knows.
BezDuznostiRacuna(n, z) == \A d \in Duznost : Vlasnik[d] = z => VerzijeZapisa(knjiga[n], d) = {}

\* Two nodes with the same ledger give a record with a signed decision the same
\* row, in whatever order versions and decisions came and whatever waited
\* meanwhile (izracunajStanje). Own versions no decision covers hold only
\* where they were written. Accounts with a duty are left out: whether a duty
\* gives the management is read from the surface, which may lag. A duty stays
\* hidden on a node where its account waits (racunDuznostiCeka).
IstaPravaPoOdlukama ==
    \A n, m \in Cvor : \A z \in Zapis :
       /\ knjiga[n] = knjiga[m] /\ odluke[n] = odluke[m]
       /\ OdlukeZapisa(odluke[n], z) # {}
       /\ BezDuznostiRacuna(n, z)
       /\ z \in Duznost => povrsina[n][z] # Nema /\ povrsina[m][z] # Nema
       /\ BezSvojih(n, z) /\ BezSvojih(m, z)
       => povrsina[n][z] = povrsina[m][z]

\* The same of every record whose rights come from the ledger, as
\* apply_potvrda_stanje.go:21-23 promises. A received transition recomputes
\* nothing (potvrdaZapisa takes decisions on accounts and duties only), so
\* rights from before it stay on the surface until a restart.
IstaPrava ==
    \A n, m \in Cvor : \A z \in Zapis :
       /\ knjiga[n] = knjiga[m] /\ odluke[n] = odluke[m]
       /\ Mjerodavno(odluke[n], z)
       /\ BezSvojih(n, z) /\ BezSvojih(m, z)
       => povrsina[n][z] = povrsina[m][z]

\* An account is a global administrator only where the flag was written, where
\* it stood before the signatures, or by a signed confirmation: no order of
\* waiting, rejected and carried versions lets another node's flag through.
ZastavicaSPodlogom ==
    \A n \in Cvor, r \in Racun :
       povrsina[n][r] # Nema /\ povrsina[n][r].prava.zastavica =>
          \/ \E v \in VerzijeZapisa(knjiga[n], r) :
                v.prava.zastavica /\ (v.oznaka \in vlastite[n] \/ v \in PocetnaKnjiga[n])
          \/ \E x \in OdlukeZapisa(odluke[n], r) : x.odluka = "potvrdeno" /\ x.prava.zastavica

\* What is guarded of the rights of z: the flag, and the password of a global
\* administrator.
Cuvano(p, z) ==
    IF p[z] = Nema THEN Nema
    ELSE IF z \in Duznost \/ Globalni(p, z, p[z].prava) THEN p[z].prava
    ELSE [p[z].prava EXCEPT !.lozinka = Nema]

\* A node with the key that starts and makes the transition changes no guarded
\* right on its surface, although from then on rights come from the history
\* and no longer from the surface: potpisiPolaziste signs what would be lost.
PrijelazCuvaPrava ==
    [][\A n \in Cvor : PotpisiStanjePrava(n) =>
         \A z \in Zapis : povrsina[n][z] # Nema => Cuvano(povrsina'[n], z) = Cuvano(povrsina[n], z)]_vars

\* The outcomes on the list of n are those its ledger gives.
PopisPoOdlukama(n, z) ==
    LET s == Stanje(Transakcija(n), z)
    IN  /\ Mjerodavno(odluke[n], z)
        /\ \A v \in VerzijeZapisa(knjiga[n], z) : s.ishod[v.oznaka] = "ceka" <=> popis[n][v.oznaka] = "ceka"

\* What waits on a node with the key stops waiting by a decision on its record:
\* no write on that node replaces it. Before rights come from the ledger a
\* later version of another node replaces it, and the transition settles it; a
\* decision that came before the account of its duty is applied when the
\* account comes. Accounts with a duty are left out, as above.
CekaDokSeNeOdluci ==
    [][\A n \in kljuc : \A v \in knjiga[n] :
         /\ popis[n][v.oznaka] = "ceka" /\ popis'[n][v.oznaka] # "ceka"
         /\ BezDuznostiRacuna(n, v.zapis)'
         => \/ OdlukeZapisa(odluke'[n], v.zapis) # OdlukeZapisa(odluke[n], v.zapis)
            \/ /\ ~PopisPoOdlukama(n, v.zapis)
               /\ \/ PrijelazGotov(odluke'[n])
                  \/ v.zapis \in nedovrseni[n]
                  \/ \E w \in knjiga'[n] : /\ w.zapis = v.zapis /\ w.oznaka > v.oznaka
                                           /\ w.oznaka \notin vlastite[n]]_vars
=============================================================================
