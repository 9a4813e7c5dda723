------------------------------ MODULE Povrsina ------------------------------
(***************************************************************************)
(* The surface (povrsina): the tables the program shows and edits, kept    *)
(* from the version ledger on every node. internal/repository, files       *)
(* apply.go, apply_roditelji.go, apply_obnova.go and the operations on     *)
(* registers (territory_repo.go, organization_repo.go, section_repo.go).   *)
(*                                                                         *)
(* A received packet goes to the ledger in one transaction and to the      *)
(* surface in another. A record leans on others by foreign keys, so its    *)
(* version cannot be applied before theirs; what could not be applied      *)
(* waits in memory (nedovrseni) for the next packet, and a restart starts  *)
(* from the ledger again. Nodes delete a record while others, not knowing, *)
(* add records that lean on it: deletion prevails, and what leans on a     *)
(* deleted record stays alive in the ledger and comes back with it.        *)
(*                                                                         *)
(* A version is its label, its author, its record, whether it is alive and *)
(* what its contents lean on (oslonci). Labels are the order of writing:   *)
(* clocks agree here (Knjiga is about clocks that do not). Every version   *)
(* carries its record's own identity (istaOznaka), and the entities whose  *)
(* surface is chosen from the whole history, or held back until a change   *)
(* of rights is confirmed, are not here.                                   *)
(***************************************************************************)
EXTENDS Integers, FiniteSets

CONSTANTS
    Cvor,          \* nodes
    Zapis,         \* records
    Sadrzaji,      \* Sadrzaji[z]: the sets of records z may lean on
    SDjecom,       \* records deleted with their children (municipality, user, section)
    Pise,          \* Pise[n]: records the users of node n write and delete
    PocetnaKnjiga, \* versions every node has from the start, on the surface too
    Nema,          \* no version
    ZadnjaVerzija, \* bound: labels 1 .. ZadnjaVerzija
    NajvisePadova, \* bound: surface transactions that fail
    NajviseGasenja \* bound: crashes

Oznake == 1 .. ZadnjaVerzija
Verzija == [oznaka : Oznake, autor : Cvor, zapis : Zapis, ziva : BOOLEAN,
            oslonci : SUBSET Zapis]

\* Entities lean on each other in one direction only.
ASSUME PovrsinaPretpostavka ==
    /\ IsFiniteSet(Cvor) /\ IsFiniteSet(Zapis)
    /\ Sadrzaji \in [Zapis -> SUBSET SUBSET Zapis]
    /\ \E rang \in [Zapis -> 1 .. Cardinality(Zapis)] :
          \A z \in Zapis : \A s \in Sadrzaji[z] : \A r \in s : rang[r] < rang[z]
    /\ SDjecom \subseteq Zapis
    /\ Pise \in [Cvor -> SUBSET Zapis]
    /\ PocetnaKnjiga \subseteq Verzija
    /\ {v.oznaka : v \in PocetnaKnjiga} = 1 .. Cardinality(PocetnaKnjiga)
    /\ \A v \in PocetnaKnjiga : v.oslonci \in Sadrzaji[v.zapis]
    /\ \A v \in PocetnaKnjiga : v.ziva =>
          \A r \in v.oslonci : \E w \in PocetnaKnjiga : w.zapis = r /\ w.oznaka < v.oznaka
    /\ Nema \notin Verzija
    /\ ZadnjaVerzija \in Nat /\ NajvisePadova \in Nat /\ NajviseGasenja \in Nat

\* All versions of a record lean on the same records.
BezPremjestaja == \A z \in Zapis : \A s, t \in Sadrzaji[z] : s = t

\* What others lean on leans on one record at most: a municipality, with its
\* settlements, on its county. A section, with its episodes, leans on two, its
\* area and its sector.
JedanOslonac ==
    \A y \in Zapis : \A z \in UNION Sadrzaji[y] : \A q, r \in UNION Sadrzaji[z] : q = r

VARIABLES
    knjiga,     \* knjiga[n]: versions in the ledger of n
    povrsina,   \* povrsina[n][z]: the version in the row of z, or Nema
    nedovrseni, \* nedovrseni[n]: records to be tried again (memory)
    paket,      \* paket[n]: versions in the ledger whose surface is still to come
    faza,       \* "radi", "ugasen", or "obnova": the surface is being rebuilt
    padova,     \* surface transactions failed so far
    gasenja     \* crashes so far

vars == <<knjiga, povrsina, nedovrseni, paket, faza, padova, gasenja>>

-----------------------------------------------------------------------------
(* Reading the ledger K and the surface p *)

Zadnja(K, z) ==
    IF \E v \in K : v.zapis = z
    THEN CHOOSE v \in K : v.zapis = z /\ \A w \in K : w.zapis = z => w.oznaka <= v.oznaka
    ELSE Nema

Ziva(v) == v # Nema /\ v.ziva
ImaSpomenik(K, z) == \E v \in K : v.zapis = z /\ ~v.ziva
NaPovrsini(p) == {z \in Zapis : p[z] # Nema}
Djeca(p, z) == {d \in NaPovrsini(p) : z \in p[d].oslonci}

\* zapisObrisan: not on the surface, and the ledger deletes it or makes it
\* lean on a deleted record. What has not arrived is not deleted.
Obrisani(K, p) ==
    LET obrisan[z \in Zapis] ==
          LET v == Zadnja(K, z)
          IN  /\ p[z] = Nema /\ v # Nema
              /\ v.ziva => \E r \in v.oslonci : obrisan[r]
    IN  {z \in Zapis : obrisan[z]}

RoditeljObrisan(K, p, v) == v.oslonci \cap Obrisani(K, p) # {}

\* makniDjecu: the row of z goes with everything that leans on it.
MakniSDjecom(p, z) ==
    LET ispod[y \in Zapis] ==
          y = z \/ (p[y] # Nema /\ \E r \in p[y].oslonci : ispod[r])
    IN  [y \in Zapis |-> IF ispod[y] THEN Nema ELSE p[y]]

\* ziveDjeceIzKnjige: alive in the ledger, not on the surface, leaning on
\* one of S and on nothing deleted.
DjecaIzKnjige(K, p, S) ==
    {d \in Zapis \ NaPovrsini(p) :
        LET v == Zadnja(K, d)
        IN  Ziva(v) /\ v.oslonci \cap S # {} /\ ~RoditeljObrisan(K, p, v)}

\* vratiDjecu, level by level: the surface with the children of z that can
\* come back, and those that wait for something else they lean on.
VratiDjecu(K, p, z) ==
    LET vraceno[i \in 0 .. Cardinality(Zapis)] ==
          IF i = 0 THEN p
          ELSE LET s == vraceno[i - 1]
                   dj == DjecaIzKnjige(K, s, {z} \cup (NaPovrsini(s) \ NaPovrsini(p)))
               IN  [y \in Zapis |->
                      IF y \in dj /\ Zadnja(K, y).oslonci \subseteq NaPovrsini(s)
                      THEN Zadnja(K, y) ELSE s[y]]
        kraj == vraceno[Cardinality(Zapis)]
    IN  [p |-> kraj,
         ceka |-> DjecaIzKnjige(K, kraj, {z} \cup (NaPovrsini(kraj) \ NaPovrsini(p)))]

-----------------------------------------------------------------------------
(* ApplyVersions *)

\* primijeniVerziju of version v in state s of a packet's transaction:
\* surface p, records that wait for what they lean on, that passed, that
\* failed.
PrimijeniVerziju(K, s, v) ==
    LET z == v.zapis
        proslo == [s EXCEPT !.proslo = @ \cup {z}]
        red == [s.p EXCEPT ![z] = v]
        sDjecom == VratiDjecu(K, red, z)
    IN  IF ~v.ziva THEN [proslo EXCEPT !.p = MakniSDjecom(s.p, z)]
        ELSE IF RoditeljObrisan(K, s.p, v) THEN proslo
        ELSE IF ~(v.oslonci \subseteq NaPovrsini(s.p)) THEN [s EXCEPT !.palo = @ \cup {z}]
        ELSE IF ~ImaSpomenik(K, z) THEN [proslo EXCEPT !.p = red]
        ELSE [proslo EXCEPT !.p = sDjecom.p, !.ceka = @ \cup sDjecom.ceka]

\* Mutation: whatever was received is applied, not only what is last.
ProlazPrimljeno(K, s, V) ==
    LET do[i \in 0 .. ZadnjaVerzija] ==
          IF i = 0 THEN [s EXCEPT !.palo = {}]
          ELSE LET v == {w \in V : w.oznaka = i}
               IN  IF v = {} THEN do[i - 1]
                   ELSE PrimijeniVerziju(K, do[i - 1], CHOOSE w \in v : TRUE)
    IN  do[ZadnjaVerzija]

\* One pass over the versions V in the order of labels. Only the last version
\* of a record goes to the surface (primjenjujeSe).
Prolaz(K, s, V) ==
    LET do[i \in 0 .. ZadnjaVerzija] ==
          IF i = 0 THEN [s EXCEPT !.palo = {}]
          ELSE LET v == {w \in V : w.oznaka = i /\ w = Zadnja(K, w.zapis)}
               IN  IF v = {} THEN do[i - 1]
                   ELSE PrimijeniVerziju(K, do[i - 1], CHOOSE w \in v : TRUE)
    IN  do[ZadnjaVerzija]

\* What failed is passed over again while anything gets through.
Prolazi(K, p, V) ==
    LET nakon[i \in 0 .. Cardinality(V)] ==
          IF i = 0
          THEN [p |-> p, ceka |-> {}, proslo |-> {}, palo |-> {v.zapis : v \in V}]
          ELSE Prolaz(K, nakon[i - 1], {v \in V : v.zapis \in nakon[i - 1].palo})
    IN  nakon[Cardinality(V)]

\* The packet: the last received version of each record, and for each record
\* that waits the last one in the ledger (dodajNedovrsene).
ZaPrimjenu(n, V) ==
    {v \in V : v.zapis \notin nedovrseni[n]
               /\ \A w \in V : w.zapis = v.zapis => w.oznaka <= v.oznaka}
      \cup {Zadnja(knjiga[n], z) : z \in nedovrseni[n]}

\* Mutation: the start applies living records only.
DospjeloSamoZivo(n) ==
    ZaPrimjenu(n, IF faza[n] = "obnova"
                  THEN {Zadnja(knjiga[n], z) : z \in {v.zapis : v \in {w \in knjiga[n] : w.ziva}}}
                         \ {v \in knjiga[n] : ~v.ziva}
                  ELSE paket[n])

\* Versions whose surface is due: of a packet, or at the start the last of
\* every record (ReplaySurface, ObnoviPovrsinu).
Dospjelo(n) ==
    ZaPrimjenu(n, IF faza[n] = "obnova"
                  THEN {Zadnja(knjiga[n], z) : z \in {v.zapis : v \in knjiga[n]}}
                  ELSE paket[n])

Dospijeva(n) == faza[n] = "obnova" \/ paket[n] # {}

ApplyVersions(n) ==
    /\ Dospijeva(n)
    /\ LET s == Prolazi(knjiga[n], povrsina[n], Dospjelo(n))
       IN  /\ povrsina' = [povrsina EXCEPT ![n] = s.p]
           /\ nedovrseni' = [nedovrseni EXCEPT ![n] = ((@ \cup s.ceka) \ s.proslo) \cup s.palo]
    /\ paket' = [paket EXCEPT ![n] = {}]
    /\ faza' = [faza EXCEPT ![n] = "radi"]
    /\ UNCHANGED <<knjiga, padova, gasenja>>

\* Mutation: a packet that failed is not tried again.
IspustiNepotvrdjeno(n) ==
    /\ Dospijeva(n) /\ padova < NajvisePadova
    /\ padova' = padova + 1
    /\ paket' = [paket EXCEPT ![n] = {}]
    /\ faza' = [faza EXCEPT ![n] = "radi"]
    /\ UNCHANGED <<knjiga, povrsina, nedovrseni, gasenja>>

\* Mutation: what waits are versions, not records.
ZadrziVerzije(n) ==
    /\ Dospijeva(n) /\ padova < NajvisePadova
    /\ padova' = padova + 1
    /\ nedovrseni' = [nedovrseni EXCEPT ![n] = @ \cup Dospjelo(n)]
    /\ paket' = [paket EXCEPT ![n] = {}]
    /\ faza' = [faza EXCEPT ![n] = "radi"]
    /\ UNCHANGED <<knjiga, povrsina, gasenja>>

\* The transaction fails as a whole (SQLITE_BUSY, commit): the packet waits.
ZadrziNepotvrdjeno(n) ==
    /\ Dospijeva(n) /\ padova < NajvisePadova
    /\ padova' = padova + 1
    /\ nedovrseni' = [nedovrseni EXCEPT ![n] = @ \cup {v.zapis : v \in Dospjelo(n)}]
    /\ paket' = [paket EXCEPT ![n] = {}]
    /\ faza' = [faza EXCEPT ![n] = "radi"]
    /\ UNCHANGED <<knjiga, povrsina, gasenja>>

-----------------------------------------------------------------------------
(* What the user does, and what arrives *)

Napisano == UNION {knjiga[n] : n \in Cvor}
BrojNapisanih == Cardinality(Napisano)

Nova(n, oznaka, z, ziva, oslonci) ==
    [oznaka |-> oznaka, autor |-> n, zapis |-> z, ziva |-> ziva, oslonci |-> oslonci]

\* A new or a changed record (SaveSector, SaveArea, SaveSection, CreateCounty,
\* CreateMunicipality). One that was deleted comes back with its children
\* (zabiljeziSDjecom).
Upisi(n, z, oslonci) ==
    LET v == Nova(n, BrojNapisanih + 1, z, TRUE, oslonci)
        red == [povrsina[n] EXCEPT ![z] = v]
        sDjecom == VratiDjecu(knjiga[n] \cup {v}, red, z)
    IN  /\ faza[n] = "radi"
        /\ BrojNapisanih < ZadnjaVerzija
        /\ oslonci \subseteq NaPovrsini(povrsina[n])
        /\ knjiga' = [knjiga EXCEPT ![n] = @ \cup {v}]
        /\ IF ImaSpomenik(knjiga[n], z)
           THEN /\ povrsina' = [povrsina EXCEPT ![n] = sDjecom.p]
                /\ nedovrseni' = [nedovrseni EXCEPT ![n] = @ \cup sDjecom.ceka]
           ELSE /\ povrsina' = [povrsina EXCEPT ![n] = red]
                /\ UNCHANGED nedovrseni
        /\ UNCHANGED <<paket, faza, padova, gasenja>>

\* DeleteSector, DeleteArea, DeleteCounty: foreign keys forbid it while
\* anything on the surface leans on the record.
Obrisi(n, z) ==
    /\ faza[n] = "radi"
    /\ z \in NaPovrsini(povrsina[n]) \ SDjecom
    /\ Djeca(povrsina[n], z) = {}
    /\ BrojNapisanih < ZadnjaVerzija
    /\ knjiga' = [knjiga EXCEPT ![n] =
         @ \cup {Nova(n, BrojNapisanih + 1, z, FALSE, povrsina[n][z].oslonci)}]
    /\ povrsina' = [povrsina EXCEPT ![n][z] = Nema]
    /\ UNCHANGED <<nedovrseni, paket, faza, padova, gasenja>>

\* DeleteMunicipality, DeleteUser, ArhivirajSekciju: the children on the
\* surface are deleted too, and those alive in the ledger only
\* (arhivirajSamoUKnjizi).
ObrisiSDjecom(n, z) ==
    LET p == povrsina[n]
        uKnjizi == {d \in Zapis \ NaPovrsini(p) :
                       LET v == Zadnja(knjiga[n], d) IN Ziva(v) /\ z \in v.oslonci}
        brisu == Djeca(p, z) \cup uKnjizi
        sadrzaj(d) == IF d \in NaPovrsini(p) THEN p[d].oslonci ELSE Zadnja(knjiga[n], d).oslonci
    IN  /\ faza[n] = "radi"
        /\ z \in NaPovrsini(p) \cap SDjecom
        /\ \A d \in Djeca(p, z) : Djeca(p, d) \subseteq Djeca(p, z)
        /\ BrojNapisanih + Cardinality(brisu) < ZadnjaVerzija
        /\ \E red \in [brisu -> 1 .. Cardinality(brisu)] :
             /\ \A d, e \in brisu : red[d] = red[e] => d = e
             /\ knjiga' = [knjiga EXCEPT ![n] = @ \cup
                  {Nova(n, BrojNapisanih + red[d], d, FALSE, sadrzaj(d)) : d \in brisu}
                  \cup {Nova(n, BrojNapisanih + Cardinality(brisu) + 1, z, FALSE, sadrzaj(z))}]
        /\ povrsina' = [povrsina EXCEPT ![n] =
             [y \in Zapis |-> IF y \in brisu \cup {z} THEN Nema ELSE p[y]]]
        /\ UNCHANGED <<nedovrseni, paket, faza, padova, gasenja>>

\* Packets: what node n lacks of m's ledger, of every author in order.
Paketi(n, m) ==
    LET fali == knjiga[m] \ knjiga[n]
    IN  {V \in SUBSET fali \ {{}} :
           \A v \in V : \A w \in fali :
              w.autor = v.autor /\ w.oznaka < v.oznaka => w \in V}

\* Service.primijeni up to the ledger's commit. The write lock is held until
\* the surface is done; the user's own writes do not take it.
Primi(n, m, V) ==
    /\ faza[n] = "radi" /\ paket[n] = {}
    /\ knjiga' = [knjiga EXCEPT ![n] = @ \cup V]
    /\ paket' = [paket EXCEPT ![n] = V]
    /\ UNCHANGED <<povrsina, nedovrseni, faza, padova, gasenja>>

\* A crash loses what waits in memory and the surface of a packet that is
\* already in the ledger.
Ugasi(n) ==
    /\ faza[n] # "ugasen" /\ gasenja < NajviseGasenja
    /\ gasenja' = gasenja + 1
    /\ faza' = [faza EXCEPT ![n] = "ugasen"]
    /\ paket' = [paket EXCEPT ![n] = {}]
    /\ nedovrseni' = [nedovrseni EXCEPT ![n] = {}]
    /\ UNCHANGED <<knjiga, povrsina, padova>>

\* The program starts; the surface is rebuilt before the web and the exchange.
Pokreni(n) ==
    /\ faza[n] = "ugasen"
    /\ faza' = [faza EXCEPT ![n] = "obnova"]
    /\ UNCHANGED <<knjiga, povrsina, nedovrseni, paket, padova, gasenja>>

-----------------------------------------------------------------------------

\* What the ledger K says the surface is: the last version of each record, when
\* it is alive and all it leans on is there.
Slika(K) ==
    LET slika[z \in Zapis] ==
          LET v == Zadnja(K, z)
          IN  IF Ziva(v) /\ \A r \in v.oslonci : slika[r] # Nema THEN v ELSE Nema
    IN  slika

Init ==
    /\ knjiga = [n \in Cvor |-> PocetnaKnjiga]
    /\ povrsina = [n \in Cvor |-> Slika(PocetnaKnjiga)]
    /\ nedovrseni = [n \in Cvor |-> {}]
    /\ paket = [n \in Cvor |-> {}]
    /\ faza = [n \in Cvor |-> "radi"]
    /\ padova = 0 /\ gasenja = 0

Next ==
    \E n \in Cvor :
        \/ \E z \in Pise[n] : \E s \in Sadrzaji[z] : Upisi(n, z, s)
        \/ \E z \in Pise[n] : Obrisi(n, z)
        \/ \E z \in Pise[n] : ObrisiSDjecom(n, z)
        \/ \E m \in Cvor \ {n} : \E V \in Paketi(n, m) : Primi(n, m, V)
        \/ ApplyVersions(n)
        \/ ZadrziNepotvrdjeno(n)
        \/ Ugasi(n)
        \/ Pokreni(n)

Spec == Init /\ [][Next]_vars

-----------------------------------------------------------------------------
(* Properties *)

TypeOK ==
    /\ knjiga \in [Cvor -> SUBSET Verzija]
    /\ povrsina \in [Cvor -> [Zapis -> Verzija \cup {Nema}]]
    /\ nedovrseni \in [Cvor -> SUBSET Zapis]
    /\ paket \in [Cvor -> SUBSET Verzija]
    /\ faza \in [Cvor -> {"radi", "ugasen", "obnova"}]
    /\ padova \in 0 .. NajvisePadova
    /\ gasenja \in 0 .. NajviseGasenja

\* z or something it leans on by the ledger is to be tried again.
CekaSOsloncima(n, z) ==
    LET ceka[y \in Zapis] ==
          LET v == Zadnja(knjiga[n], y)
          IN  y \in nedovrseni[n] \/ (Ziva(v) /\ \E r \in v.oslonci : ceka[r])
    IN  ceka[z]

Mirno(n) == faza[n] = "radi" /\ paket[n] = {}

\* "Knjiga je istina": whatever order packets came in, whatever failed or was
\* deleted meanwhile, a row differs from what the ledger says only while its
\* record, or one it leans on, waits to be tried again. Nothing is shown that
\* the ledger has deleted, nothing alive is lost, nothing goes back. It is true
\* under BezPremjestaja and JedanOslonac, and false without either.
PovrsinaJeSlikaKnjige ==
    \A n \in Cvor : Mirno(n) =>
        \A z \in Zapis : povrsina[n][z] # Slika(knjiga[n])[z] => CekaSOsloncima(n, z)

\* Rule 5: the same set of versions gives the same surface on two nodes on
\* which nothing waits; it takes the same two conditions.
IstaPovrsina ==
    \A n, m \in Cvor :
        /\ Mirno(n) /\ nedovrseni[n] = {} /\ Mirno(m) /\ nedovrseni[m] = {}
        /\ knjiga[n] = knjiga[m]
        => povrsina[n] = povrsina[m]

\* What the start rebuilt is what the ledger says, although the list of what
\* waited was lost with the crash ("površina se iz nje uvijek može obnoviti").
ObnovaVracaSve ==
    [][\A n \in Cvor : faza[n] = "obnova" /\ faza'[n] = "radi" /\ padova' = padova
          => povrsina'[n] = Slika(knjiga[n])]_vars

\* A row is never taken back to an older version of its record, in any order
\* of packets and of returns with a parent.
RedNeIdeUnatrag ==
    [][\A n \in Cvor, z \in Zapis :
          povrsina[n][z] # Nema /\ povrsina'[n][z] # Nema
          => povrsina[n][z].oznaka <= povrsina'[n][z].oznaka]_vars
=============================================================================
