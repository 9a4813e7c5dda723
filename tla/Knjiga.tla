------------------------------- MODULE Knjiga -------------------------------
(***************************************************************************)
(* The version ledger (knjiga, record_versions) of one node and the        *)
(* surface (povrsina) kept from it: internal/ledger and the deletion of a  *)
(* channel in internal/peers/brisanje_kanala.go.                           *)
(*                                                                         *)
(* A version's label (oznaka, UUIDv7) orders all versions of all nodes; it *)
(* carries the time of writing in milliseconds, the rest is random. Here a *)
(* label is a number, and two labels share each moment.  The ledger only   *)
(* ever gains versions, except by maintenance: compaction, thinning, the   *)
(* removal of tombstones, of one version, of a channel, and of what the    *)
(* exchange would not receive today. All the maintenance has to keep what  *)
(* the exchange relies on, the frontier of every author in every channel,  *)
(* and what a rebuild of the surface would show.                           *)
(*                                                                         *)
(* What other nodes have written is a set fixed at the start; any of it    *)
(* may arrive at any time, in any order, as soon as the node's clock lets  *)
(* it in. The contents of versions, their creation time by the wall clock  *)
(* and their schema are left out: what is old enough to be compacted is    *)
(* chosen freely.                                                          *)
(***************************************************************************)
EXTENDS Naturals, FiniteSets

CONSTANTS
    Ja,             \* this node
    Drugi,          \* authors on other nodes
    Zapis,          \* records (entity and entity_id)
    Prognoza,       \* records thinned as a whole (prognoza.EntitetIzdanja)
    Kazalo,         \* records of which only the last version matters
    Zajednicki,     \* the common channel, which everyone follows
    Kanal,          \* the channels a node chooses to follow
    Nema,           \* no version
    PrvoVrijeme,    \* bound: the clock runs from this moment
    ZadnjeVrijeme,  \* to this one
    NajviseUnaprijed, \* how far ahead of the clock a received version may be
    Svjetovi,       \* what other nodes may have written
    UpisiKanala,    \* pairs <<record, channel>> this node writes
    NajviseUpisa,   \* bound: it stops writing with this many own versions
    NajviseUPaketu, \* bound: versions received at once
    Radnje          \* maintenance that happens

Cvor == Drugi \cup {Ja}
Kanali == Kanal \cup {Zajednicki}
Vrijeme(oznaka) == oznaka \div 2
ZadnjaOznaka == 2 * (ZadnjeVrijeme + NajviseUnaprijed) + 3
Oznake == 1 .. ZadnjaOznaka

\* Version: dobra says that its label has the form this program writes
\* (IspravnaOznaka).
Verzija == [oznaka : Oznake, zapis : Zapis, autor : Cvor, kanal : Kanali,
            arh : BOOLEAN, dobra : BOOLEAN]

ASSUME KnjigaPretpostavka ==
    /\ Ja \notin Drugi
    /\ Prognoza \subseteq Zapis /\ Kazalo \subseteq Zapis
    /\ Zajednicki \notin Kanal
    /\ Nema \notin Verzija
    /\ PrvoVrijeme \in Nat \ {0} /\ ZadnjeVrijeme \in Nat
    /\ PrvoVrijeme <= ZadnjeVrijeme
    /\ NajviseUnaprijed \in Nat
    /\ \A S \in Svjetovi : \A v \in S :
          v \in Verzija /\ v.autor \in Drugi
    /\ \A S \in Svjetovi : \A v, w \in S : v.oznaka = w.oznaka => v = w
    /\ UpisiKanala \subseteq Zapis \X Kanali
    /\ NajviseUpisa \in Nat /\ NajviseUPaketu \in Nat

VARIABLES
    knjiga,    \* versions in the ledger
    svijet,    \* versions anyone has written
    povrsina,  \* povrsina[z]: the version shown for record z
    prati,     \* channels the node follows
    sat,       \* the wall clock
    zadnja     \* last label given to a new version (zadnjaMs; memory)

vars == <<knjiga, svijet, povrsina, prati, sat, zadnja>>

-----------------------------------------------------------------------------
(* Order and frontier *)

\* The version of S with the largest label.
Najveca(S) == CHOOSE v \in S : \A w \in S : w.oznaka <= v.oznaka

NajvecaIli(S) == IF S = {} THEN Nema ELSE Najveca(S)

\* The clock that received labels are checked by never runs behind the
\* labels this process gave.
Sada == IF Vrijeme(zadnja) > sat THEN Vrijeme(zadnja) ELSE sat

\* ProvjeriPrimljenu without the name of this node.
Ispravna(v, t) == v.dobra /\ Vrijeme(v.oznaka) <= t + NajviseUnaprijed

\* ProvjeriPrimljenu: an own version may not be ahead of the clock at all.
Prima(v) ==
    /\ Ispravna(v, Sada)
    /\ v.autor = Ja => Vrijeme(v.oznaka) <= Sada

OdZapisa(S, z) == {v \in S : v.zapis = z}
OdKljuca(S, a, k) == {v \in S : v.autor = a /\ v.kanal = k}

\* Versions the frontier is made of (uvjetGranice).
UGranici(S) == LET t == Sada IN {v \in S : Ispravna(v, t)}

\* Largest version per author and channel (GROUP BY node_id, channel).
NajvecePoKljucu(S) ==
    {v \in S : v = Najveca(OdKljuca(S, v.autor, v.kanal))}

NajveceUGranici == NajvecePoKljucu(UGranici(knjiga))

\* Frontier of author a in channel k, 0 without any.
Granica(a, k) ==
    LET S == OdKljuca(UGranici(knjiga), a, k)
    IN  IF S = {} THEN 0 ELSE Najveca(S).oznaka

ZadnjaZapisa(S) == {v \in S : v = Najveca(OdZapisa(S, v.zapis))}

\* What a rebuild of the surface shows for z: its last version, if alive.
IzKnjige(S, z) ==
    LET v == NajvecaIli(OdZapisa(S, z))
    IN  IF v = Nema \/ (v # Nema /\ v.arh) THEN Nema ELSE v

\* ReplaySurface: every record that has a version is applied anew.
Obnovljena(S, p) ==
    [z \in Zapis |-> IF OdZapisa(S, z) = {} THEN p[z] ELSE IzKnjige(S, z)]

-----------------------------------------------------------------------------
(* Writing and receiving *)

\* Label of a new version: the present, and never below the last one given.
NoveOznake ==
    LET t == IF Vrijeme(zadnja + 1) > sat THEN Vrijeme(zadnja + 1) ELSE sat
    IN  {o \in Oznake : /\ Vrijeme(o) = t /\ o > zadnja
                        /\ \A v \in svijet : v.oznaka # o}

\* Mutation: nothing random in the label.
OznakeIzaJednake(v) == {o \in Oznake : Vrijeme(o) = Vrijeme(v.oznaka) + 1}

\* Mutation: a repeated deletion is labelled as one made now.
OznakeIzaSada(v) == NoveOznake

\* Label right behind a version: one millisecond later, the rest random.
OznakeIza(v) ==
    {o \in Oznake : /\ Vrijeme(o) = Vrijeme(v.oznaka) + 1
                    /\ \A w \in svijet : w.oznaka # o}

Vlastite(S) == {v \in S : v.autor = Ja}

NoviUpis(o, z, k, arh) ==
    [oznaka |-> o, zapis |-> z, autor |-> Ja, kanal |-> k, arh |-> arh,
     dobra |-> TRUE]

\* Record, RecordIn, Archive, ArchiveIn: the surface changes in the same
\* transaction. What is deleted is what the surface shows.
Upisi(z, k, arh) ==
    /\ Cardinality(Vlastite(svijet)) < NajviseUpisa
    /\ arh => povrsina[z] # Nema
    /\ \E o \in NoveOznake :
         LET v == NoviUpis(o, z, k, arh)
         IN  /\ knjiga' = knjiga \cup {v}
             /\ svijet' = svijet \cup {v}
             /\ povrsina' = [povrsina EXCEPT ![z] = IF arh THEN Nema ELSE v]
             /\ zadnja' = o
    /\ UNCHANGED <<prati, sat>>

\* What another node may send now.
Primljive ==
    {v \in svijet : Prima(v) /\ (v.kanal = Zajednicki \/ v.kanal \in prati)}

\* Apply: idempotent, the surface is not its business.
Apply(S) == knjiga \cup S

\* ApplyVersions: a record whose last version is among the received is brought
\* to the surface, or leaves it.
PrimijenjenaPovrsina(sve, S) ==
    [z \in Zapis |-> IF NajvecaIli(OdZapisa(sve, z)) \in S THEN IzKnjige(sve, z)
                     ELSE povrsina[z]]

\* primijeniPodBravom: new versions enter the ledger, then the surface.
Primi(S) ==
    /\ Cardinality(S) <= NajviseUPaketu
    /\ ~(S \subseteq knjiga)
    /\ knjiga' = Apply(S)
    /\ povrsina' = PrimijenjenaPovrsina(knjiga', S)
    /\ UNCHANGED <<svijet, prati, sat, zadnja>>

-----------------------------------------------------------------------------
(* Maintenance *)

Brisi(S) ==
    /\ S # {}
    /\ knjiga' = knjiga \ S
    /\ UNCHANGED <<svijet, povrsina, prati, sat, zadnja>>

\* Mutation: only the largest version of all per key is kept.
SazimljiveBezGranice ==
    knjiga \ (ZadnjaZapisa(knjiga) \cup NajvecePoKljucu(knjiga))

\* Versions compaction may delete, if they are old enough (sazimljive).
Sazimljive ==
    knjiga \ (ZadnjaZapisa(knjiga) \cup NajvecePoKljucu(knjiga)
              \cup NajveceUGranici)

\* Compact, CompactOsim: of them, those older than the term which no rule
\* keeps.
Sazmi == "sazmi" \in Radnje /\ \E S \in SUBSET Sazimljive : Brisi(S)

\* Mutation: a tombstone goes although its record has a living version.
SviSpomenici == {v \in knjiga : v.arh} \ (NajvecePoKljucu(knjiga) \cup NajveceUGranici)

\* Tombstones of records without a living version (spomeniciZaBrisanje).
SpomeniciZaBrisanje ==
    {v \in knjiga : v.arh /\ \A w \in OdZapisa(knjiga, v.zapis) : w.arh}
        \ (NajvecePoKljucu(knjiga) \cup NajveceUGranici)

PurgeArchived == "spomenici" \in Radnje /\ Brisi(SpomeniciZaBrisanje)

\* Versions DeleteVersion does not refuse (stanjeZaBrisanje).
SmijeBrisati ==
    knjiga \ (ZadnjaZapisa(knjiga) \cup NajvecePoKljucu(knjiga))

DeleteVersion == "verzija" \in Radnje /\ \E v \in SmijeBrisati : Brisi({v})

\* Prorijedi: versions of the entity older than the term, last ones too.
Prorijedive ==
    {v \in knjiga : v.zapis \in Prognoza}
        \ (NajvecePoKljucu(knjiga) \cup NajveceUGranici)

Prorijedi == "prorijedi" \in Radnje /\ \E S \in SUBSET Prorijedive : Brisi(S)

Zamijenjene ==
    {v \in knjiga : v.zapis \in Kazalo}
        \ (ZadnjaZapisa(knjiga) \cup NajvecePoKljucu(knjiga)
           \cup NajveceUGranici)

ProrijediZamijenjene == "prorijedi" \in Radnje /\ Brisi(Zamijenjene)

-----------------------------------------------------------------------------
(* Deletion of a channel *)

\* Mutation: deletions made by other nodes are not repeated.
BezPonavljanja(k) == {}

\* Records with an own version whose last version, among those the exchange
\* would receive today, is another node's tombstone in k.
TudjiSpomenici(k) ==
    {v \in knjiga : /\ v.kanal = k /\ v.arh /\ v.autor # Ja
                    /\ v = NajvecaIli(OdZapisa(UGranici(knjiga), v.zapis))
                    /\ Vlastite(OdZapisa(knjiga, v.zapis)) # {}}

\* Own tombstone that repeats v, right behind it.
Ponovljen(v, o) ==
    [v EXCEPT !.oznaka = o, !.autor = Ja, !.dobra = TRUE]

\* Mutation: own records that lose versions are not brought back.
BezObnove(k) == {}

\* Records to be brought back from the ledger after the deletion.
ZaObnovu(k) ==
    {z \in Zapis : /\ Vlastite(OdZapisa(knjiga, z)) # {}
                   /\ \E v \in OdZapisa(knjiga, z) : v.kanal = k /\ v.autor # Ja}

\* Rows of the surface that leave with the channel: no own version.
SPovrsine(k) ==
    {z \in Zapis : /\ povrsina[z] # Nema
                   /\ povrsina[z].kanal = k
                   /\ Vlastite(OdZapisa(knjiga, z)) = {}}

\* PurgeChannel of a channel the node no longer follows: what came from
\* other nodes leaves, and what they deleted of its own stays deleted.
PurgeChannel(k) ==
    LET T == TudjiSpomenici(k)
        tudje == {v \in knjiga : v.kanal = k /\ v.autor # Ja}
    IN
    /\ "kanal" \in Radnje
    /\ k \notin prati
    /\ \E f \in [T -> Oznake] :
         LET R == {Ponovljen(v, f[v]) : v \in T}
             nova == (knjiga \ tudje) \cup R
         IN  /\ \A v \in T : f[v] \in OznakeIza(v)
             /\ \A v, w \in T : v # w => f[v] # f[w]
             /\ knjiga' = nova
             /\ svijet' = svijet \cup R
             /\ povrsina' = [z \in Zapis |->
                    CASE z \in ZaObnovu(k) -> IzKnjige(nova, z)
                      [] z \in SPovrsine(k) -> Nema
                      [] OTHER -> povrsina[z]]
    /\ UNCHANGED <<prati, sat, zadnja>>

\* HandleOcistiKnjigu: ObrisiNeispravne by the wall clock, then the surface
\* is rebuilt.
ObrisiNeispravne ==
    LET neispravne == {v \in knjiga : ~Ispravna(v, sat)} IN
    /\ "neispravne" \in Radnje
    /\ knjiga' = knjiga \ neispravne
    /\ povrsina' = Obnovljena(knjiga', povrsina)
    /\ UNCHANGED <<svijet, prati, sat, zadnja>>

-----------------------------------------------------------------------------
(* Around the ledger *)

\* The user starts or stops following a channel.
PromijeniPretplatu(k) ==
    /\ prati' = IF k \in prati THEN prati \ {k} ELSE prati \cup {k}
    /\ UNCHANGED <<knjiga, svijet, povrsina, sat, zadnja>>

Otkucaj ==
    /\ sat < ZadnjeVrijeme
    /\ sat' = sat + 1
    /\ UNCHANGED <<knjiga, svijet, povrsina, prati, zadnja>>

\* The wall clock is set back.
SatNatrag ==
    /\ "sat" \in Radnje
    /\ sat > PrvoVrijeme
    /\ sat' = sat - 1
    /\ UNCHANGED <<knjiga, svijet, povrsina, prati, zadnja>>

\* The program starts again: what it remembered is gone, and the surface is
\* rebuilt from the ledger.
PonovnoPokreni ==
    /\ zadnja' = 0
    /\ povrsina' = Obnovljena(knjiga, povrsina)
    /\ UNCHANGED <<knjiga, svijet, prati, sat>>

-----------------------------------------------------------------------------

\* The ledger may hold versions that entered before labels were checked.
Init ==
    /\ svijet \in Svjetovi
    /\ sat = PrvoVrijeme
    /\ zadnja = 0
    /\ knjiga = {v \in svijet : ~Ispravna(v, sat)}
    /\ povrsina = [z \in Zapis |-> IzKnjige(knjiga, z)]
    /\ prati = Kanal

\* Maintenance proper: it only deletes.
Odrzavanje ==
    /\ knjiga' # knjiga /\ knjiga' \subseteq knjiga
    /\ \/ Sazmi \/ PurgeArchived \/ DeleteVersion
       \/ Prorijedi \/ ProrijediZamijenjene

Next ==
    \/ \E u \in UpisiKanala, arh \in BOOLEAN : Upisi(u[1], u[2], arh)
    \/ \E S \in SUBSET Primljive : Primi(S)
    \/ Sazmi
    \/ PurgeArchived
    \/ DeleteVersion
    \/ Prorijedi
    \/ ProrijediZamijenjene
    \/ \E k \in Kanal : PurgeChannel(k) \/ PromijeniPretplatu(k)
    \/ ObrisiNeispravne
    \/ Otkucaj
    \/ SatNatrag
    \/ PonovnoPokreni

Spec == Init /\ [][Next]_vars

-----------------------------------------------------------------------------
(* Properties *)

\* Versions are versions, the ledger holds nothing nobody wrote, and no two
\* versions share a label: two nodes, or a repeated deletion, never collide.
TypeOK ==
    /\ knjiga \subseteq svijet
    /\ svijet \subseteq Verzija
    /\ \A v, w \in svijet : v.oznaka = w.oznaka => v = w
    /\ povrsina \in [Zapis -> svijet \cup {Nema}]
    /\ prati \subseteq Kanal
    /\ sat \in PrvoVrijeme .. ZadnjeVrijeme
    /\ zadnja \in Oznake \cup {0}

\* Everything in the ledger is what the exchange would receive today.
SveUGranici == UGranici(knjiga) = knjiga

\* Maintenance never lowers the frontier of an author in a channel: what it
\* deletes lies below the frontier and the other side does not send it back
\* (sazimljive, spomeniciZaBrisanje, Prorijedi, ProrijediZamijenjene). The
\* deletion of one version protects another largest version than the frontier
\* does, so of it this holds only when the whole ledger is acceptable.
GranicaNePada ==
    [][Odrzavanje /\ (DeleteVersion => SveUGranici) =>
         \A a \in Cvor, k \in Kanali : Granica(a, k)' >= Granica(a, k)]_vars

\* Maintenance does not change what a rebuild of the surface shows: no
\* deleted record comes back and no record falls back to an older version.
\* Thinned forecasts live in a database of their own.
ObnovaPokazujeIsto ==
    [][Odrzavanje =>
         \A z \in Zapis \ Prognoza :
            IzKnjige(knjiga', z) = IzKnjige(knjiga, z)]_vars

\* A record written here whose last version is a deletion comes back only by
\* a version newer than that deletion, whatever happens: another node's
\* deletion goes away with its channel, and the own tombstone takes its
\* place (vlastitoUKnjizi). Only what the exchange would not receive today
\* may be taken back, and thinned forecasts.
VlastitoOstajeObrisano ==
    [][\A z \in Zapis \ Prognoza :
         LET v == NajvecaIli(OdZapisa(knjiga, z))
             w == IzKnjige(knjiga', z)
         IN  (/\ Vlastite(OdZapisa(knjiga, z)) # {}
              /\ v.arh /\ Ispravna(v, sat)
              /\ w # Nema) => w.oznaka > v.oznaka]_vars

\* The deletion of a channel is this node's own affair: what a node that holds
\* everything shows of a record stays. A repeated deletion must not fall behind
\* a living version that this node may never have received. Versions written
\* within a millisecond after a deletion are aside (ArchiveNakon).
BrisanjeKanalaNeMijenjaIshod ==
    [][(\E k \in Kanal : PurgeChannel(k)) =>
         \A z \in Zapis :
            LET w == IzKnjige(svijet, z)
            IN  (/\ w # Nema
                 /\ \A v \in OdZapisa(svijet, z) :
                        v.arh => Vrijeme(v.oznaka) + 1 < Vrijeme(w.oznaka))
                => IzKnjige(svijet', z) = w]_vars

\* The surface shows the last version of z.
Slazu(z) == povrsina[z] = IzKnjige(knjiga, z)

\* Surface and ledger part only where the source lets them: by an own write
\* below the last version (of a clock ahead), by the removal of the only
\* versions of a record, or when a channel takes the last versions of a
\* record that has versions of other nodes elsewhere. Received versions,
\* maintenance, the deletion of a channel holding own records, and a new
\* start keep every record as its last version says.
PovrsinaPratiKnjigu ==
    [][\A z \in Zapis \ Prognoza :
         /\ Slazu(z)
         /\ OdZapisa(knjiga', z) # {}
         /\ (\A v \in knjiga' \ knjiga : v.zapis = z /\ v.autor = Ja =>
                 v = Najveca(OdZapisa(knjiga', z)))
         /\ (Vlastite(OdZapisa(knjiga, z)) # {} \/ Kanal \ prati = {})
         => Slazu(z)']_vars
=============================================================================
