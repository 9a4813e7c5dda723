# goCOP: verification of the ledger, its exchange and its surface

goCOP is the program of a flood defence centre. Every computer (čvor, a node)
works alone on its own SQLite database and exchanges changes with other nodes
when there is a network. What has to be right is that nothing anyone wrote is
lost, comes back after it was deleted, or waits for ever, although the nodes
keep different parts of the data, clocks differ, connections break and programs
stop. This directory holds TLA+ models of the parts that answer for that, TLC
runs on small instances, and proofs.

Names in the modules are those of the source, which is in Croatian. A glossary:
knjiga = ledger, zapis = record, oznaka = label of a version, granica =
frontier, ograda = fence (the rule by which a node refuses), odbijeno =
refused, traži = asks for, rupa = gap, popuna = filling of a gap, jamči =
vouches, razgovor = talk, brava = lock, upis = write, uvoz = import, površina =
surface, spomenik = tombstone, sažimanje = compaction, prorjeđivanje =
thinning, pretplata = subscription, čvor = node, oslonac = what a record leans
on, nedovršeni = records to be tried again, prava = rights, ključ = the key of
the network, prijelaz = transition to signed rights, nadogradnja = upgrade,
izdanje = release, dostava = delivery.

## 1. The system

| Part | State | Operations | Talks to |
|---|---|---|---|
| Ledger (`internal/ledger`) | versions (`record_versions`); time of the last label | write, archive, receive, frontier, delta, compact, thin, remove tombstones, delete one version, clean | everyone who writes; exchange; surface |
| Exchange of versions (`internal/peers`: razgovor, upis, rupe*, granica_*) | gap record and the rule it was made under (durable); refusals, what was sent since an import (memory); write lock | a talk: frontiers, refusals and wishes, delta, decision, locked write, wishes, end | another node's exchange; ledger; surface |
| Synchronization loop (`peers.go`, `redoslijed.go`) | order and back-off of calls | calls every known node | exchange |
| Subscriptions (`subscriptions.go`) | followed channels and their rules | add, remove | exchange, channel deletion |
| Deletion of a channel (`brisanje_kanala.go`) | none | removes foreign versions of a channel, repeats foreign deletions of own records | ledger, surface, gap record |
| Surface (`internal/repository/apply*.go`) | the tables that pages read; unfinished records | apply received versions, rebuild all | ledger |
| Import and export (`rupe_uvoz.go`, `archive.go`, `cop.go`) | files | read and write a part of a ledger | ledger, gap record, write lock |
| Confirmation of rights (`internal/repository/apply_*prava*.go`, `apply_potvrda_*.go`) | signed decisions in the ledger; own versions; list of what waits | wait, confirm, reject, sign what stands, transition | surface, ledger |
| Membership of a network (`ovlast.go`, `obnova.go`, `network.go`) | certificates, revocations | issue, revoke, renew | exchange |
| Content (`internal/sadrzaj`, `sadrzaj.go`, `karta_dijelovi.go`) | documents and map parts by hash, wishes | wish, send, check | exchange |
| Transport (`internal/razmjena`) | sessions, rendezvous, punched ports | connect, frame, relay | carries talks |
| Installation (`internal/postava`) | program files, copies of the database | upgrade, health check, rollback | the program |
| Jobs, archives of readings, acts | tables of their own | | ledger |
| Forecast, hydrology, importers, mail, web pages, PDF and XLSX | | | ledger through repositories |

How they interact. A page writes a record: the surface and a new version of
the ledger change in one transaction. The loop calls a peer; in a talk both
sides send the frontier (per author and channel the largest version held),
then where they refused and what they ask for, then a delta of what the other
has not, and each writes what came under one lock of the node: gap record,
versions, surface, gap record. The program starts by rebuilding the surface
from the ledger.

What makes it hard. The frontier is one label per key (author and channel), so
it passes over everything below it. A node that refuses versions (old
readings), a node that gets them from such a middleman, and a delta that is
cut, all make gaps below the frontier. The gaps are recorded in two ranges per
key, `odbijeno` (refused here) and `trazi` (needed). Several talks run at once
and each acts on what it read at its start; rules, the edge of the kept
period, subscriptions and the ledger change meanwhile; every step can be the
last one before a restart. Maintenance deletes from the ledger, and must not
move the frontier back or change what a rebuild shows.

What makes each part correct:

- *Gap record*: a version of a foreign key up to the frontier that is not held
  lies in a recorded range; one that the node would keep is asked for.
- *Delta*: what the sender does not say it is unsure of is complete.
- *Refusals*: the sender leaves out only what the receiver holds or refuses.
- *Lock*: one write at a time, released on every way out.
- *Convergence*: what a node follows and accepts arrives.
- *Ledger maintenance*: no frontier falls, a rebuild shows the same.
- *Deletions*: an own record whose last version is a deletion comes back only
  by something newer; a repeated deletion gets past nothing newer.
- *Surface*: is what the ledger says, whatever order packets came in; what is
  not yet so is on the list to be tried again, and a rebuild brings all.
- *Content*: a wished document arrives when some node that has it is called.
- *Rights*: a change of guarded rights that another node wrote has effect only
  by a signed decision; the same versions and decisions give the same rights.
- *Membership*: a revoked node is not called.
- *Upgrade*: the program that is replaced stays on the disk, a copy of the
  database from before the new one too, and a node that ran runs again.

## 2. Modules

| Module | What it models |
|---|---|
| `Raspon` | half open ranges and the record of one key (`rupe.go`): union, intersection, difference, `prosiri`, `suzi`, `rasponOdbijenog` |
| `Dostava` | abstract: what the exchange of one key promises |
| `Razmjena` | the exchange of one key between nodes; extends `Raspon` |
| `RazmjenaDokazi` | the algebra of `Raspon`, type correctness, the write lock, and that `Razmjena` implements `Dostava`, for any constants |
| `RazmjenaDostava` | the mapping by which `Razmjena` implements `Dostava` |
| `PotrebnoDokazi` | a node asks for all it needs, and no talk skips anything silently, for any constants |
| `DostavaDokazi` | the promise leaves no silent gap |
| `MCRazmjena` | topologies, starting ledgers and rules of the runs |
| `Uvoz` | files of versions exported and imported beside the exchange; extends `RazmjenaDostava` |
| `UvozDokazi` | what the exchange keeps it keeps with files beside it too, for any constants |
| `MCUvoz` | the same topologies with files |
| `Knjiga` | the ledger of one node, its maintenance, channel deletion, and the surface |
| `KnjigaDokazi` | types, frontier, rebuild, deletion of a channel and the surface of one node, for any constants |
| `MCKnjiga` | the histories other nodes may have written |
| `Povrsina` | several nodes: packets, parents and children, failed transactions, crashes, rebuild |
| `PovrsinaDokazi` | types, foreign keys, rows that never go back and, under two conditions, that the surface is what the ledger says, for any constants |
| `MCPovrsina` | the entities of the runs and what they lean on |
| `Prava` | confirmation of rights of accounts and duties by the network's key |
| `PravaDokazi` | types, that no flag of a global administrator is without support, and that equal ledgers give equal rights, for any constants |
| `MCPrava` | accounts, duties and starting ledgers |
| `Nadogradnja` | installation, upgrade and rollback of the program on one computer |
| `NadogradnjaDokazi` | types, that the replaced program stays and a copy of the old database too, for any constants |
| `MCNadogradnja` | releases that start and releases that do not |

How they fit together. `Razmjena` carries versions between nodes and knows
nothing of their contents. `Knjiga` is what one node does with the versions it
has, with clocks that differ. `Povrsina` is what several nodes show of them,
with contents that lean on each other and clocks that agree. `Prava` holds back
a part of the contents. The first assumes of the others only that what is in
the ledger stays there except by the deletions it models; the others assume of
the first only that versions of one author arrive in order, in any pieces,
which is what `Dostava` says of a key without refusals. `Nadogradnja` stands
apart: it starts and stops all of this. `Uvoz` composes the exchange with files:
its steps are those of `Razmjena`, which leave the files alone, and its own.

Operators whose comment begins with *Mutation* are deliberately wrong variants
of the definition that follows them. They are part of no specification; they
show that each property notices a likely mistake (`PROJECT.json`, `mutants`).

### Razmjena

State: `knjiga[n]` (versions of the key node n holds), `rupe[n]` and
`zapisano[n]` (tables rupe_knjige and rupe_pravilo), `ograda[n]` (the set of
versions n refuses, with the generation of its rule), `prati[n]`, `brava[n]`,
`odbijeneOd[n][s]` (memory of refusals, granica_odbijenih.go), `zaCvor[n][r]`
(what r got since the last import of n, granica_nakon_uvoza.go) and
`razg[t]`, the talks with all a side has read and decided.

A talk of one direction goes through these actions, and anything else may
happen between two of them:

| Action | Code |
|---|---|
| `Zapocni`, `GranicaPosiljatelja`, `GranicaPrimatelja` | the talk begins, each side reads its frontier (`zapocniRazgovor`) |
| `RupePosiljatelja`, `RupePrimatelja`, `NePrati` | then what it refused, sent, and its gaps (`pocetakOdbijenih`, `uvozNaPocetku`, `pocetakRupa`, `wantsFunc`) |
| `SloziDeltu` | the sender composes regular part and filling, and what it vouches for (`mojaDelta`) |
| `Odluci` | the receiver accepts or refuses, and computes the change of gaps (`zaUpis`, `bezPreskocenog`, `promjenaRupa`) |
| `ZapisiRupe`, `BravaNijeStigla` | the lock is taken, or not in time; the gap record grows (`primijeniAkoStigne`, `prosiri`) |
| `UpisiVerzije` | the versions enter the ledger (`Apply`) |
| `UpisPao` | the write of the gaps or of the versions fails, and the lock is released |
| `SuziRupe` | the record shrinks, or fails to; the lock is released (`suziNakonUpisa`) |
| `ZapamtiOdbijene` | the receiver remembers its refusals |
| `ZapamtiUvoz`, `Prekid` | the sender gets the wishes and remembers what it sent, or the connection breaks |

Around the talks: `Napisi` (the author writes), `PromijeniPravilo`,
`PomakniRub` (the period's edge moves forward with the clock), `VratiRub` (the
clock is set back, or a month ends on an earlier day), `PromijeniPretplatu`,
`ObrisiKanal`, `PonovnoPokreni` (a restart at any step), `PripremiRupe` and
`Istekne` (refusals older than a day).

Abstractions. One key is enough, since keys touch each other only through
counters, and a change of another key only makes a node more careful. The two
directions of a talk share nothing for one key but the node's state. Counters
compared only for equality are sets of talks that saw a change. The rule is
the set of refused versions; a rule that refuses nothing counts as no fence.
The tolerance of the edge (96 hours) is zero, so every move of the edge counts
as one, and the stored rule is the current one. All nodes speak rupe/1, and versions that cannot be sent (G3) do
not occur. What a side reads after its frontier at a talk's start is read in one step:
refusals and gaps of the receiver (`RupePrimatelja`), what was sent and the gaps
of the sender (`RupePosiljatelja`). `SloziDeltu` joins the regular reading, the
reading for the filling and the counter of new gaps, which the code asks last;
the counter rises with the transaction that makes a gap, before any version
passes over it, so a write between these readings is known to the delta anyway.
The decisions of one delta are one step (`Odluci`). `SuziRupe` joins the
narrowing, the counting as an import and the release of the lock. A record of
gaps that cannot be read is left out. A subscription changes in one step with
what it forgets, and a channel is deleted in one step.
Compaction and the deletion of history (`ObrisanoIzKnjige`) are absent: the
source takes them out of its invariant. The author gets nothing of its own key
back.

### Uvoz

State: `datoteke`, each the versions of the key and the gaps its exporter
tells; `izvozi[n]`, what an export of n has read; `uvozi[n]`, what an import of
n has decided and has left to write.

| Action | Code |
|---|---|
| `PocniIzvoz`, `ProcitajZaIzvoz`, `ZapisiDatoteku` | the record of gaps and its counter, then the versions, then the counter again (`ExportFile`, `IzveziCop`, `pocetakRupa.zaIzvoz`) |
| `PocniUvoz` | what is taken: an archive whole, of a package what the node follows and its fence accepts (`zaUvoz`) |
| `GranicaUvoza` | the frontier, outside the lock (`promjenaUvoza`) |
| `RupeUvoza` | the record grows under the lock, which is then let go (`rupePodBravom`) |
| `UpisiSeriju`, `ZabiljeziSeriju` | a batch enters the ledger under the lock; if it brought anything it counts as an import (`primijeniPodBravom`) |
| `UvozPao`, `PonovnoPokreniSve` | a write fails, or the program stops, between any two of them |
| `BravuDrziUvoz` | a talk waits too long for the lock an import holds |

Every step of `Razmjena` may come between; a talk is not given the lock while
a batch is being written. Files stay, and may be imported by anyone at any
later time. Left out: signature, issuer and issue number of a package only
decide whether it is imported at all, so any package may be; contents it
carries are not versions; a file of an older program tells no gaps and is
believed, which the source accepts. `PocniUvoz` takes the state of the fence and
the decisions on all versions of a file in one step, and malformed versions,
which an import leaves out, do not occur. A node makes one export and one import at
a time. A channel is deleted between imports: in the middle of one it would
harm as in finding 1, for the deletion takes no lock.

### Knjiga

State: `knjiga`, `svijet` (all versions anyone wrote), `povrsina[z]`,
`prati`, `sat` (wall clock), `zadnja` (last label of this process; lost at a
restart). A label is a number; two labels share each moment, which stands for
the random part of a UUIDv7. `dobra` says a label has the form the program
writes. `Ispravna`, `Prima` and `UGranici` follow `ProvjeriPrimljenu` and
`uvjetGranice`, so malformed and future versions that entered earlier are in
the ledger but not in the frontier.

Actions: `Upisi` (Record, Archive), `Primi` (Apply and ApplyVersions),
`Sazmi`, `PurgeArchived`, `DeleteVersion`, `Prorijedi`,
`ProrijediZamijenjene`, `PurgeChannel` (with repeated deletions and the
records brought back), `ObrisiNeispravne` with the rebuild that follows,
`PonovnoPokreni`, `PromijeniPretplatu`, and the clock, forward and back.
Deletions by age choose any subset of what they may delete, since creation
times are left out. Contents, schemas and parents are left out, and the surface
of a received batch changes in the same step as the ledger (`Povrsina` has
both apart). The check of `DeleteVersion` and its deletion are one step, and so
are the transaction of `PurgeChannel` and the records `obnoviVlastite` brings
back after it; records built from their whole history (daily sheets) and the
tables of a channel's own kind are not in the model.

### Dostava and RazmjenaDostava

`Dostava` has four variables: how much the author wrote, what each node holds,
what it knows it may lack, and whether it follows the channel. Versions arrive
in any pieces, but never past one that the node neither holds nor knows to
lack; its record of gaps may change, but what is written and not held stays in
it; only the deletion of a channel that is not followed takes anything away.
`RazmjenaDostava` maps the durable record of a node to the versions in either
of its two ranges. It is not enough that they lie between the two: `JamciIza`
of the other side may read a range that has grown on its own.

### Povrsina

State: `knjiga[n]`, the rows `povrsina[n][z]`, `nedovrseni[n]` (records to be
tried again, in memory), `paket[n]` (versions that are in the ledger and not
yet on the surface) and `faza[n]`. Actions: `Primi` (`Service.primijeni` up to
the ledger's commit), `ApplyVersions` (parents first, what has no parent waits,
what leans on a deleted record does not return, a deleted record's children
leave with it and come back with it), `ZadrziNepotvrdjeno` (the surface
transaction fails as a whole), `Upisi`, `Obrisi`, `ObrisiSDjecom` (the
operations of the registers), `Ugasi` and `Pokreni` with the rebuild.

Abstractions: a version is its label, author, record, whether it lives, and
the records its contents lean on. Labels are the order of writing over all
nodes. Records whose surface is chosen from the whole history, or held back by
the fence of rights, are left out, and so is a version that names another
record than its row (`istaOznaka`). Packets are prefixes per author. The rebuild
of `Pokreni` and the retry that follows it are one sequence of passes, which ends
at the same surface: both apply what is left until nothing more goes in.

### Prava

State: who holds the network's key, `knjiga[n]`, `odluke[n]` (signed
decisions), `vlastite[n]` (table prava_vlastite), `povrsina[n]`, `popis[n]`
(table prava_na_potvrdi) and `nedovrseni[n]`. Pure functions compute the state
of a record from its history and decisions (`IzracunajStanje`, of
`izracunajStanje`), and from the surface while no decision says otherwise.
Actions: `Izmijeni`, `Novi`, `OdluciKljucem`, `PotpisiStanjePrava` (the start
of a node with the key, with the transition), `UcitajKopijuKljuca`, `Primi`,
`Pokreni`.

Abstractions: of an account's guarded fields the password stands for the
switch "active" too, the owner of a duty is fixed, nothing is deleted, ledger
and surface change in one step, every node is in the network, and what a
certificate says of a decision's signer is taken as true.

### Nadogradnja

State: the program files at their four places, the release the database was
brought to, its copies, the child process with what `Cvor` keeps of it
(`zeljeno`, `pao`, `padovi`, restarts that wait), the job with its step, and a
click of the tray that has read the state and not yet acted. Every step of
`Ugradi` is an action, with the renames, copies and stops that may fail;
beside it the exits of the process, restarts, clicks and power losses.
A click may be read at any step of a job: the menu is disabled during one only
when it is next redrawn, and the click itself does not look
(`prekidacKlik`). `oslonac` is a history variable: what stood at its place when
the last upgrade began. Left out: signatures, the return to an allowed older release, and the
way of a system service.

## 3. What TLC checks

All runs are complete searches. Sizes are distinct states.

| Run | Instance | Properties | Result |
|---|---|---|---|
| `pravilo` | chain author, middleman, last node; 2 talks, 2 versions, four rules, the middleman's rule changes, or its edge moves forward, once | JedanUpis RupaJeZapisana PotrebnoSeTrazi PreskokNeSkriva | holds, 1.5 million |
| `uvoz` | the same chain with one talk and a file of either kind, exported by the first or second node and imported by the second or third, in batches of one version; one failed write, restart, change of rule or subscription, or deletion | PotrebnoSeTrazi DatotekaIstinita JamstvoDelteIstinito DostavaSeDrzi PreskokUzUvoz | holds, 810 thousand |
| `kvarovi` | one talk over three links, deltas of one version cut anywhere, every kind of failure, two changes of rule or subscription, deletions | TypeOK JedanUpis RupaJeZapisana PotrebnoSeTrazi DostavaSeDrzi PreskokNeSkriva | holds, 789 thousand |
| `stigne` | fair specification; 3 versions, deltas of one, both receivers refuse version 2; two changes of the last node's rule or subscription, or moves of its edge back | RupaJeZapisana PotrebnoSeTrazi JamstvoDelteIstinito StigneSve | holds, 147 thousand |
| `knjiga` | 11 histories of 3 versions, one own write, three moments | TypeOK BrisanjeKanalaNeMijenjaIshod GranicaNePada ObnovaPokazujeIsto VlastitoOstajeObrisano PovrsinaPratiKnjigu | holds, 129 thousand |
| `povrsina` | 2 nodes, 4 records in three levels (d leans on a, e on d and on b), 3 new versions, a failed transaction, a crash | TypeOK PovrsinaJeSlikaKnjige ObnovaVracaSve RedNeIdeUnatrag | holds, 119 thousand |
| `prava` | 2 nodes, the second gets the key later; 2 accounts, a duty, 5 labels | TypeOK ZastavicaSPodlogom IstaPravaPoOdlukama PrijelazCuvaPrava CekaDokSeNeOdluci | holds, 24 thousand |
| `nadogradnja` | fair specification; 3 jobs, releases that start and that do not, a power loss, 2 faults, a click | TypeOK PrethodniNaDisku KopijaStareBaze CvorOpetRadi | holds, 254 thousand |
| `brisanje_usred`, `povrsina_premjestaj`, `povrsina_djeca`, `prava_prijelaz` | see section 5 | one each | violated |

What the properties say is written above each definition. The central ones:

- `RupaJeZapisana` is the invariant of `rupe.go`; `PotrebnoSeTrazi` adds that
  `odbijeno` never keeps what the recorded rule accepts.
- `JamstvoDelteIstinito`: the delta with the sender's reservations covers all
  the author wrote in its range, although the sender read its record, its
  frontier and its versions at three moments.
- `PreskokNeSkriva`: what a talk leaves out, because the receiver has a frontier
  or refused as much before, the receiver holds, refuses or asks for at the
  moment the delta is composed. The receiver read its frontier first, its refusals
  and its gaps later, and other talks wrote into it between and since. A talk whose fence gave way is left out: it drops what comes
  (`Preskoceno`). The property says nothing of what the sender remembers to have
  sent (`zaCvor`); the second observation at the end of section 5 says why.
- `DatotekaIstinita`: what `JamstvoDelteIstinito` says of a delta, of a file,
  which is read later than anything can be asked about it. `DostavaSeDrzi` in
  `uvoz` says that an import records the gaps before its batches pass over
  them. `PreskokUzUvoz` is `PreskokNeSkriva` where versions also come from
  files: the batches of an import move the frontier of a receiver in the middle
  of its talks.
- `GranicaNePada`, `ObnovaPokazujeIsto`: maintenance against the frontier and
  against the rebuild. For `DeleteVersion` the first is stated only when the
  whole ledger is acceptable; section 5 says why.
- `VlastitoOstajeObrisano`, `BrisanjeKanalaNeMijenjaIshod`: both sides of a
  repeated deletion. An own record another node deleted stays deleted when the
  channel goes, and the tombstone that keeps it so does not delete what others
  wrote later, received here or not. The second leaves out versions written
  within a millisecond after the deletion, which the label one millisecond
  later may pass.
- `PovrsinaPratiKnjigu` names the three ways in which surface and ledger may
  part and says there is no other.
- `DostavaSeDrzi`: `Razmjena` implements `Dostava`. It says more than
  `RupaJeZapisana`: also at every single step, the record takes in what
  versions are about to pass over before they do, and no change of rule,
  failure or restart takes a missing version out of it.
- `PovrsinaJeSlikaKnjige`: `Slika` is a definition of what the ledger says that
  knows nothing of packets and order. A row may differ from it only while the
  record, or one it leans on, is on the list to be tried again. It holds where
  a record does not change what it leans on (`BezPremjestaja`) and what others
  lean on leans on one record at most (`JedanOslonac`); the instance of
  `povrsina` satisfies both, and `povrsina_premjestaj` and `povrsina_djeca` show
  what happens without the first and without the second.
- `ObnovaVracaSve`: the rebuild at the start gives `Slika`, although the list
  was lost with the crash.
- `ZastavicaSPodlogom`: an account is a global administrator only where that
  was written, where it stood from before, or by a signed confirmation.
  `IstaPravaPoOdlukama` is about records with a decision; accounts that have a
  duty are left out, since whether a duty gives the management is read from
  the surface, which may lag, and duties that are hidden on one of the two nodes,
  since a duty is held back where its account waits (section 5).
  `PrijelazCuvaPrava`: the transition takes nothing from anyone.
  `CekaDokSeNeOdluci`: nothing that waits goes away without a decision, but for
  a record to be tried again and a later version of another node, which is what
  a record without decisions is compared by; no write on the node itself does it.
  All five were also explored once with six labels (535 thousand states, over
  five minutes, so not one of the runs) and hold there.
- `PrethodniNaDisku`, `KopijaStareBaze`, `CvorOpetRadi`: see the three promises
  of the upgrade above; the last one exempts runs with a fault, a power loss
  or a click, since each of them may leave the node off for good, which the
  program says to its user.

Bounds. Gaps need a version below another, so two versions show a gap and
three show a range that is filled in parts. A talk at a time per node is not
enough for `Sumnja`, the locks and the counters, so `pravilo` has two
talks; the others have one talk and more of the rest, since failures and
settings interleave with a single talk at each of its steps. In `uvoz` the
import and the export are the second and third actor; batches of one version
make a file of two take two locks, with anything between, and a middleman that
refuses version 1 or 2 makes files with a gap below, above and without one. Three nodes are an
author, a middleman and a receiver; longer chains repeat the middleman. Two
disturbances (`kvarovi`, `stigne`) allow a rule to go and come back in one
talk. In `Knjiga` labels from before, at and after the present, one malformed
and one future, in two channels, on records of three kinds, meet three at a
time, in the combinations that decide what is last of a record and what is
last of a channel; one own write and the deletions repeated for it meet them,
and three moments let a deletion, a later version and the deletion of the
channel be apart. In `Povrsina` three new versions are a child, a deletion of
its parent and a third that brings the parent back, moves the child or leans on
it, split into packets at will; `povrsina_djeca` has five and three nodes, for
the record comes back in parts only when three writers are apart; one failed
transaction and one crash meet them at every step. In `Prava` five labels, two of them from the start, leave room for a change
that waits, the decisions on it and the transition, in any order. In
`Nadogradnja` three jobs are a release that fails and two tries after it, as
many as copies are kept. `CHECK_DEADLOCK FALSE`: writing stops at the bound and disturbances are counted, so a state where
nothing more happens is a legitimate end.

Symmetry is used on talk slots only, and only in safety runs.

Fairness (`Posteno`). Weak fairness of the steps of a talk: each step is code
of the two programs with time limits on what it waits for. Strong fairness of
beginning each kind of talk: `RunAutoSync` calls every known node again and
again, so a call that is possible again and again is made. The run leaves out
failures; a failure that never stopped would rightly prevent delivery. In
`Nadogradnja` (`PostenSpec`) the goroutine of the job goes on, a process that
was told to end or cannot run exits, timers reach their time and a click that
was read acts; nothing is assumed of users, releases or the machine.

## 4. What is proved

For every number of nodes, talks and versions and every set of rules that
satisfies `RazmjenaPretpostavka` (the author is a node, nobody sends to the
author, the starting ledgers are prefixes) and `BeskrajPretpostavka`:

- `TipOcuvan`: `Spec => []TypeOK`. It is inductive as it stands. The work is
  in what the type says of data: the frontier of any set of versions is one of
  them or 0 (the existence of a largest element, by induction on the bound),
  ranges stay ranges through every operator (`AlgebraTip`, `ZapisTip`), and a
  fence is one of the rules or empty.
- `JedanUpisOcuvan`: `Spec => []JedanUpis`. Inductive together with the type:
  the lock names a talk exactly when that talk is between widening and
  narrowing. Each action is a lemma step; restarts of the sender and of the
  receiver are the cases that matter.
- The algebra (`RazmjenaDokazi`): union holds both and is the smallest such range;
  intersection is exact; difference loses nothing it should keep, although it
  is rounded up; `prosiri` forgets nothing and takes in all that is refused,
  wanted or missing; `suzi` takes out only what was covered; `sirenjem` asks
  for all that was not vouched for. The invariant of the gap
  record rests on these facts.

When moreover no channel is deleted in the middle of a talk and the edge of the
kept period does not move back (`MirnoBrisanje`, `RubNeIdeNatrag`: without the
first, finding 1 refutes the property; without the second, the first of the
observations at the end of section 5), with all other failures, restarts and
changes of rule and subscription, and with the edge moving forward at any step
any number of times. What the second excludes is a clock set back, and the ends
of months at which `AddDate` puts the edge up to three days earlier than the day
before; the model has no tolerance, the code has 96 hours for the latter:

- `RazmjenaDostavlja`: `Spec => DostavaSeDrzi`, the refinement of `Dostava`.
  `UpisiVerzije` maps to `Primi`, every transaction on the record to
  `Zabiljezi`, and all that only touches talks, locks and memory to a stutter.
- `RupaJeZapisanaOcuvana` and `JamstvoDelteVrijedi`: nothing below a frontier
  is silent, and what a sender says of its delta is true.
- `PonovnoPracenjeVrijedi`: the property that finding 1 refutes holds under
  `MirnoBrisanje`.
- `BezTihePraznineStalno` (`DostavaDokazi`): whatever keeps the promise of
  `Dostava` has no silent gap.

The inductive invariant (`IInv` of `RazmjenaDokazi`) says of each talk
what its next durable step relies on, at the phase it is in:

- `SaljeUredno`: what the sender read at its start tells all it misses up to
  the frontier it read, and its record has not grown since, or the talk knows
  (`rastRupa`). The frontier is read before the record, and `RupePosiljatelja`
  and `SloziDeltu` are where that order counts.
- `PrimaUredno`: the receiver's frontier only rises, and the generation of its
  rule does too.
- `DeltaUredna`: the guarantee of the delta. Its proof (`SlozenaDeltaJamci`)
  goes through the limit of a read and the cut by size: what remains is a
  start of what was asked, so nothing is left out inside the range that is
  covered.
- `UpisUredan`: what a write covers or passes over and does not bring is
  refused, asked for, or said to be uncertain (`Obuhvaca`), also after the
  fence moved the refused to the asked.
- `ProsirenoUredno`: between widening and writing, the record already holds
  what the write will pass over.
- `OdbijenoUredno`: the refused part of this write stays in the record until it
  is narrowed, or the fence gave way and the narrowing asks for it. This is the
  conjunct that an edge moving back breaks: it leaves the generation as it was
  and refuses less. An edge moving forward only refuses more.

`TudjiRazgovor` is the other half of the argument: a step of one talk or of a
node leaves the invariant of every other talk, given only that ledgers grow,
that a record that grows is told to the talks the node sends in, that a rule
that refuses less has a new generation, and that the lock keeps the rest away.

- `PotrebnoSeTraziOcuvano` (`PotrebnoDokazi`): `Spec => []PotrebnoSeTrazi`. A
  node not only has every missing version in its record: what its recorded rule
  keeps is in `trazi`, so it will be asked for. Refused versions may stay in
  `odbijeno` only while the rule refuses them.
- `PreskokNeSkrivaOcuvano` (`PotrebnoDokazi`): `Spec => PreskokNeSkriva`, from the
  same invariant. Only `SloziDeltu` makes a delta (`SamoSloziDeltu`), and what it
  goes from is at most a frontier the receiver had, below which `GranicaTrazena`
  speaks, or the refusals the talk read, below which `MojeUredno` does.

These two need more than `IInv`, for `trazi` is told from `odbijeno` by
rules that change while versions are under way. Its invariant
(`IInvPotrebno`; checked by TLC on the instance of `kvarovi` and on that of
`pravilo` before it was proved) adds what relates each refusal to the generation
of the rule it was made under. Within one generation a rule only grows
(`Narastajem`), and what a node asks for, or would ask for once its rule accepts
it, is `Trazeno`, which depends on the recorded rule and not on the present one,
so an edge that moves forward changes nothing of it:

- `OdbijeneUredne`: up to where a node remembers to have refused what another
  sent, what it misses and does not refuse now is in `Trazeno`, as long as
  that memory is of a rule whose refusals still hold. A rule that refuses less
  makes the memory void (`JosOdbija`), which is why the conjunct needs no more.
- `MojeUredno`: the same of what a talk read of that memory at its start.
- `UpisPotreban`: what a write takes for covered, misses and does not refuse, the
  sender said to be uncertain, and of everything the write passes over something
  is known: it lies below the frontier the receiver sent, below its refusals, or
  in the range that is covered.
- `ProsirenoPotrebno`: between widening and writing, what the versions are about
  to pass over is already asked for.
- `OdbijenoPotrebno`: until the talk has remembered its refusals, all it misses
  up to the largest refused version is refused, on its way, or asked for; this
  is what `ZapamtiOdbijene` turns into `OdbijeneUredne`.
- `ZapisOdPocetka`: a node whose rule is not recorded yet has no record.

`GranicaTrazena` is the lemma they meet in: below its frontier a node asks for
what it misses under the rule it has now, although the record may still be of
an earlier one, since a wider rule moves all that was refused to `trazi`
(`Sirenjem`) before anything else reads the record.

For the exchange with files beside it (`UvozDokazi`), under the same
assumptions and for any number of files, exports and imports at once:

- `UvozDostavlja`: `SpecUvoz => DostavaSeDrzi`. `RupeUvoza` maps to
  `Zabiljezi`, `UpisiSeriju` to `Primi`, the rest to a stutter.
- `DatotekaIstinitaOcuvana`: a version below the frontier of a file that the
  file lacks is among the gaps it tells.
- `RupaJeZapisanaUzUvoz`, `JamstvoDelteUzUvoz`: the two promises of the
  exchange, with imports writing into a ledger in the middle of its talks.
- `PotrebnoSeTraziUzUvoz`, `PreskokUzUvozOcuvan`: what a node needs it asks for,
  and no talk skips anything silently, with imports too.

The inductive invariant (`IInvUvoz`) is that of the exchange with four parts
more: `TipDatoteka`; `DatotekeUredne`, the promise of the files; `IzvozUredan`,
that what an export has read tells all that its node misses up to the frontier
the export will see, or its counter has risen; `UvozUredan`, that between its
record of gaps and its last batch an import has in the record all the batches
pass over and do not bring. A step of an import is not a step of a talk, but
disturbs talks in the same way, so the lemmas on other talks are stated for any
writer with a range and a fence (`ZapisTih`, `ProsirenZapis`,
`PrimljenoUredno`); `RupeUvozaUredno` and `SerijaUredno` use them, and
`PrometCuva` says that a step of the exchange leaves exports and imports
sound. The last two theorems rest on `IInvUvozPotrebno`, which adds `Potrebno` of
the exchange and, for each import, `UvozPotreban`: what it refused its fence
refuses; as long as that fence holds, what it will pass over and would keep is
what the file does not vouch for; and from the widening to the last batch the
record asks for all that the batches pass over and the recorded rule keeps. When
the fence gave way between the decision and the widening, `UzOgradu` turns what
was refused into what is asked for, and that is where `RupeUvozaPotrebne` uses it.
TLC checked `UvozPotreban` on the instance of `uvoz` before it was proved.

For every set of nodes, records, channels, histories of other nodes and bounds
of the clock that satisfies `KnjigaPretpostavka` (histories are versions of
other nodes with labels of their own):

- `KnjigaTipOcuvan`: `Spec => []TypeOK`, with labels unique over all nodes. It
  is inductive; the step that matters is `PurgeChannel`, which writes several
  repeated tombstones at once.
- `GranicaNePadaOcuvana`: a deletion outside the largest acceptable version of
  each key lowers no frontier (`BrisanjeIspodGranice`), and each kind of
  maintenance is such a deletion; `DeleteVersion` only over an acceptable
  ledger (the third observation at the end of section 5).
- `ObnovaIstaOcuvana`: a deletion outside the last versions of records leaves
  the rebuild as it was (`BrisanjeIspodZadnje`); removal of tombstones needs
  the other argument, that a record has only tombstones or loses nothing.
- `IshodOcuvan` and `ObrisanoOcuvano`: a repeated tombstone lies above the
  deletion it repeats and below everything from a later millisecond. The second
  goes through every action: a record whose last version is an acceptable
  tombstone keeps that tombstone, or gets an own one above it, in each.

- `PovrsinaPratiOcuvana`: `Spec => PovrsinaPratiKnjigu`. Action by action: a row
  that agrees with a rebuild goes on agreeing, but for the three ways the
  property names. Each maintenance keeps the last version of a record that it
  does not empty; `PurgeChannel` is the long case, since the records it brings
  back, the tombstones it repeats and those it takes away go together
  (`ObrisanKanalSlaze`).

They rest on `NajvecaPostoji` (a set of versions has a largest one, from the
bound of labels by well-foundedness of the natural numbers) and
`NajvecaJedina` (unique labels make it the only one).

For any releases, any number of jobs, copies, faults, power losses and clicks
that satisfy `NadogradnjaPretpostavka`:

- `TipOcuvan`: `Spec => []TypeOK`, with a process only while Postava runs.
- `PrethodniOstaje`: `Spec => []PrethodniNaDisku`. The invariant (`IInv`) adds
  where the job's old release stands at each of its steps (`StojiNaMjestu`):
  from the removal of the previous program to the rename it stands at its
  place, and what is offered is newer than it.
- `KopijaOstaje`: `Spec => []KopijaStareBaze`, if no release offered is older
  than the installed one (`BezStarijih`). The property speaks of the attempts
  before a copy has to go for a newer one; section 5 says what happens later. The
  invariant (`KopijeUredne`): every copy belongs to a job of its own, so none
  was thrown away, the first is of the first release, and before there is any
  copy the database is as it was installed.

For any nodes, records, links, writers and bounds that satisfy
`PovrsinaPretpostavka` (links have no cycle, the starting ledger has its parents,
labels are its first numbers):

- `PovrsinaTip`: `Spec => []TypeOK`, through the recursive functions of
  `Obrisani`, `MakniSDjecom`, `VratiDjecu`, `Prolaz` and `Prolazi`.
- `StraniKljuceviDrze`: `Spec => []StraniKljucevi`, every row's parents have rows.
- `RedNeIdeUnatragDokazan`: `Spec => RedNeIdeUnatrag`.
- `PovrsinaJeSlika`: `Spec => []PovrsinaJeSlikaKnjige`, and from the same
  invariant `IstaPovrsinaDokazana` (`[]IstaPovrsina`) and
  `ObnovaVracaSveDokazana` (`ObnovaVracaSve`), under `BezPremjestaja` and
  `JedanOslonac`. Findings 2 and 4 are runs in which one of the two fails, so
  neither can be left out.

The inductive invariant (`Odrzano`) says of each node, between any two steps,
three things (`Drzi`) about its ledger, its surface and what it owes
(`Duguje`: what waits, what the packet on its way is about, and everything from
a start to the end of its rebuild):

- `RedoviDrze`: rows hold their foreign keys and are versions of the ledger;
- `RedZadnji`: a row is the last version of its record, unless the record is owed;
- `NistaIzgubljeno`: a record that lives in the ledger and has no row leans on
  one in `Vracaju`, unless it is owed. `Vracaju` is the least set of
  records that will come back by a step of somebody else, and bring what leans on
  them: without a row and deleted, or owed and with a tombstone, or leaning on
  such.

The difficulty is the last one: most records that are hidden are on no list. The
code relies on the parent to return them, and a parent may itself be hidden,
wait, or come in the same packet. One lemma for each branch of
`primijeniVerziju` keeps `Drzi` inside a transaction (`DrziObrisana`,
`DrziRoditelj`, `DrziRed`, `DrziDjeca`); what a transaction has passed over and
what it still owes is `Prosli` and `UTijeku`. `JedanOslonac` is used in one of
them only, `DrziDjeca`: a child brought back with its parent can then not be left
behind by another parent that has not arrived. `BezPremjestaja` makes the links of
a row those of the last version. The rebuild starts with everything owed and
forgets the list at its end, so it has to be shown that nothing is left:
`ProlaziZapinju` says that the passes end (each lets something through, or
nothing changes; counted by cardinality), and `SlikaKadZapelo` that the surface is
then `Slika`.

The recursive definitions of the module are recursive functions, and
`Rekurzija` and `NepomicnaTocka` derive from well-foundedness that they satisfy
their equations and that a least fixpoint is one; `PoOsloncima` is induction along
what records lean on. Where the library's theorems take an operator, these take
a function or a set.

For any nodes, accounts, duties, writers, holders of the key and starting
ledgers that satisfy `PravaPretpostavka` (the ledgers from before the signatures
are finite, one that holds a duty holds its account, and their labels are the
order of writing: no two versions share one, and none is larger than how many
there are):

- `PravaTip`: `Spec => []TypeOK`.
- `ZastavicaOcuvana`: `Spec => []ZastavicaSPodlogom`.
- `IstaPravaOcuvana`: `Spec => []IstaPravaPoOdlukama`.

The first two come from one invariant, `Uredeno`: the transaction a node would begin
(`Transakcija(n)`) is in `Uredne(n)`. A transaction is there when its ledger and
decisions are finite, every decision carries rights of the kind of its record,
and every row (`RedStoji`) stands for a version of the ledger, has the account it
leans on, and has rights from `DobraPrava`: those whose flag, if it is set, has a
support (`ImaPodlogu`). The operators of `Prava` are functions of a transaction,
so the proof follows the code's calls: each of them leads from `Uredne(n)` to
`Nastavak(n, t)`, the transactions with the same versions and decisions, and each
that signs to `Potpisano(n, t)`, where what was added is signed by n. A step of
the specification is then a short lemma (`PotpisanoCuva`, `IshodCuva`).

What had to be found is why the state computed from a ledger gives no flag
without support (`IzracunatoDobro`). Its rights are set by an own version, by a
confirmation, or by a version that changes nothing that is guarded; the last may
carry a flag only if the state before it did, so the claim goes along the
labels (`Zatvoreno` says of which rights it is closed), over confirmations of
versions that are not in the ledger too. On the way over the surface the same
holds of `BezPrava`, which keeps the flag of the row. The passes, the children an
account brings back and the received decisions are recursive functions over
labels, whose equations `Rekurzija` gives; signing goes by a fold over the
records, whose recursive function over subsets `RekurzijaPoSkupovima` and
`PoSkupovima` treat in the same way.

The third theorem does not compare two nodes step by step. A second invariant,
`Suglasno`, says of each node alone that its surface shows every record with a
decision as its ledger and own versions say (`Tocan`: the row is `Ocekivano`, or
a duty is hidden), and that labels are the order of writing. It is inductive for
two reasons. Whatever is applied becomes right, and nothing else stops being so:
that is shown of each operator of a transaction (the lemmas `...Tocno`), where an
account that leaves the surface takes its duties with it, and of the fold over
all records at signing. And a record of which nothing came has the same history
as before, so `IstaPovijest` suffices; for the record an own write is about,
`ZadnjaVrijedi` shows that the newest version, held at once or confirmed in the
same transaction, gives exactly the rights of the row. Two nodes with the same
ledger then differ only in what the computation reads besides it: the surface,
which matters only for accounts with a duty (`IzracunatoIsto`), and own versions.
`VlastiteBezUtjecaja` shows that own versions up to the last signed point change
neither the rights nor the last version: at that point both computations set the
same rights, and after it their points are the same, so a rejection is carried
over the same stretches (`RazdobljaPoslije`).

Only model-checked:

- `StigneSve` and `CvorOpetRadi`: liveness under fairness, for which the prover
  has no rules.
- `CekaDokSeNeOdluci` and `PrijelazCuvaPrava` of `Prava`. They are about the
  list of what waits, and about rights before and after all records are signed
  at once; the invariants above say nothing of the list, and of the surface only
  what holds of records that already have a decision.

## 5. Where the code and its documents part

1. `brisanje_usred` (`PonovnoPracenjeDohvatiSve`). `PurgeChannel` takes no
   lock. A talk that began before the subscription was removed writes into the
   emptied key; following the channel again does not bring what lies below,
   against `rupe_baza.go:337`.
2. `povrsina_premjestaj` (`IstaPovrsina`). A version that moves a living record
   under a parent deleted here is not applied at all, so the row keeps its old
   parent; where the deletion came last, the row is gone. The same versions
   then give two surfaces, against rule 5 in `apply_roditelji.go:14`.
3. `prava_prijelaz` (`IstaPrava`). A received transition makes rights come from
   the ledger and recomputes none, so they differ until the next start, against
   `apply_potvrda_stanje.go:21`.
4. `povrsina_djeca` (`PovrsinaJeSlikaKnjige`). Only a record with a tombstone of
   its own brings its children back. d leans on a and b, e on d; a is deleted,
   so d and e are skipped and do not wait, since `zapisObrisan` of d follows a.
   When a is written again and b has not arrived, d waits (`cekaOslonac`); when b
   arrives d comes alone, and nothing brings e until the next start, against
   `apply_roditelji.go:227-229`. In the code a journal leans on two areas and its
   sheets on the journal.

Seen and not made into runs, for the number of runs is kept to the questions
that matter:

- The edge of the kept period is read again when the record of gaps is
  narrowed. If it moved forward before the widening and back before the
  narrowing, `uskladiPravilo` (`rupe_baza.go:192`) moves the refused range that
  this write has just recorded into `trazi`, and `suzi` erases it as covered:
  the version is in neither range, against `rupe.go:21`. With the real
  tolerance the clock must move by more than 96 hours, twice, within one
  write. `pravilo` has one move forward and `stigne` only moves back for that
  reason, and the theorems leave out moves back, without which this cannot
  happen. A move back alone is harmless: the talk compares the edge with the one
  it began with (`rubUnatrag`). With two talks and a middleman that refuses both
  versions and whose edge moves back once, all properties of `pravilo` hold too
  (explored once, 815 thousand states).
- A sender limits what it skips by what it sent since its last import
  (`zaCvor`), so that what it got late still reaches a receiver that refused
  newer versions (`granica_nakon_uvoza.go:34`). A talk whose fence gave way drops
  the delta (`bezPreskocenog`), and its sender still counts that delta as sent
  (`ZapamtiUvoz`); with refusals another talk writes in the meantime, a later
  talk skips a version that was never sent. Between nodes that tell their gaps
  (`rupe/1`) this harms nothing: the version is in `trazi` of the receiver, which
  is what `PreskokNeSkriva` states and the theorems prove, and a model without
  that limit keeps every property, `StigneSve` included. Only with a node that
  tells no gaps would the limit be all there is.
- Three copies of the database are kept and each attempt of an upgrade makes
  one, also of a database that a release which was put back had changed
  (`nadogradnja.go:358`). After four failures in a row no copy is from before the
  first, for the administrator who is to decide by it (`nadogradnja.go:228`).
- `DeleteVersion` protects the largest version of a key, but the frontier leaves
  out malformed and future ones (`ledger.go:792`, against `ledger.go:780`).
- An own write made after a version from a clock up to five minutes ahead has a
  smaller label: the surface shows the write until the next start, which takes
  it back (`ledger.go:198`, against `apply.go:321`).
- Cleaning of the ledger uses the wall clock and receiving uses `Sada`, which
  may be later; after cleaning, a record whose only version was removed stays
  on the surface.
- The deletion of a channel may bring back a record of other nodes whose
  tombstone was in the channel and whose living version is in another one.
- A label after a restart with the clock set back may lie below the own
  frontier.
- A duty whose account is not on the surface because a change of it waits or is
  rejected is held back and put on no list (`racunDuznostiCeka`,
  `apply_ograda_prava.go:269`). When the account is confirmed its duties come
  with it; when it comes by a newer version that changes nothing guarded, a duty
  with a decision of its own stays hidden until the next start or the next
  version or decision about it.
- What waits on an account may stop waiting without a decision on that account
  when the duty that gave it the management is taken away, since a password is
  guarded only for those who manage.
- A power loss while a new release is not yet confirmed leaves it at its place;
  the next upgrade then removes the last program that was known to work.

## 6. Not modelled

- Of files: what section 2 lists under `Uvoz`.
- Wishes for documents and map parts (`sadrzaj.go`), membership, revocation and
  renewal of a network, rendezvous and hole punching, background jobs, archives
  of readings, acts: protocols or state of their own, each a module to come.
- Order and back-off of calls: only their promise is used, in the fairness.
- Forecasts, hydrology and importers are numerical code or readers of public
  data; web pages, PDF, XLSX and mail are formatting and input; they keep no
  protocol state, and they are most of the source. File system calls are the
  operating system's.
