------------------------------- MODULE Raspon -------------------------------
(***************************************************************************)
(* The interval algebra of internal/peers/rupe.go. A `raspon' is the half *)
(* open range (od, do] of version ids of one ledger key. The source orders *)
(* ids as strings; here an id is a natural number, 0 is the empty string   *)
(* (the start of the sequence), and a range that has no upper end ("~",    *)
(* beskraj) ends at the constant Beskraj, above every id that is used.     *)
(*                                                                         *)
(* The module also holds what one key remembers (rupaKljuca) and the       *)
(* change one write makes to it (promjenaKljuca): both are pure functions  *)
(* in the source, and the exchange (Razmjena) is built from them.          *)
(***************************************************************************)
EXTENDS Integers

CONSTANT Beskraj

ASSUME BeskrajPretpostavka == Beskraj \in Nat \ {0}

Oznake == 0 .. Beskraj

Rasponi == [od : Oznake, do : Oznake]

Raspon(od, do) == [od |-> od, do |-> do]

Prazno == Raspon(0, 0)

Manji(a, b) == IF a <= b THEN a ELSE b
Veci(a, b)  == IF a <= b THEN b ELSE a

Prazan(a) == a.do <= a.od

\* The versions a range holds.
Clanovi(a) == {v \in Oznake : a.od < v /\ v <= a.do}

\* An empty range has one representation, so ranges may be compared.
Cist(a) == IF Prazan(a) THEN Prazno ELSE a

Iznad(od) == Raspon(od, Beskraj)

\* The smallest range that holds both.
Uz(a, b) ==
    IF Prazan(a) THEN Cist(b)
    ELSE IF Prazan(b) THEN a
    ELSE Raspon(Manji(a.od, b.od), Veci(a.do, b.do))

Presjek(a, b) == Cist(Raspon(Veci(a.od, b.od), Manji(a.do, b.do)))

\* a without the part b covers, rounded up to a range: when b covers only
\* the middle of a, all of a stays.
Bez(a, b) ==
    IF Prazan(Presjek(a, b)) THEN Cist(a)
    ELSE IF b.od <= a.od THEN Cist(Raspon(b.do, a.do))
    ELSE IF b.do >= a.do THEN Raspon(a.od, b.od)
    ELSE a

-----------------------------------------------------------------------------
(***************************************************************************)
(* What a node remembers of one foreign key: `odbijeno' holds versions it  *)
(* only refused itself (it does not ask for them and does not vouch for    *)
(* them), `trazi' holds versions it may miss and needs.                    *)
(***************************************************************************)
RupeKljuca == [odbijeno : Rasponi, trazi : Rasponi]

BezRupa == [odbijeno |-> Prazno, trazi |-> Prazno]

NeJamci(k) == Uz(k.odbijeno, k.trazi)

\* Mutation: what was asked for before the rule got wider is lost.
SirenjemBezTrazi(k) == [odbijeno |-> Prazno, trazi |-> k.odbijeno]

\* The rule of what a node keeps got wider: what was refused is asked for.
Sirenjem(k) == [odbijeno |-> Prazno, trazi |-> Uz(k.trazi, k.odbijeno)]

\* The new record stops vouching for something the old one vouched for.
Raste(novo, staro) == Uz(NeJamci(novo), NeJamci(staro)) # NeJamci(staro)

\* The node vouches for the versions right after od.
JamciIza(ne, od) == Prazan(ne) \/ od < ne.od \/ od >= ne.do

-----------------------------------------------------------------------------
(***************************************************************************)
(* What one write of received versions changes in a key. `pokriveno' of    *)
(* the source is a list of two ranges, here `redovno' (the regular part of *)
(* the delta) and `popuna' (the filled part of the gap).                   *)
(***************************************************************************)
PromjeneKljuca == [odbijeno : Rasponi, uTrazi : Rasponi, nesigurno : Rasponi,
                   redovno : Rasponi, popuna : Rasponi, fs : Oznake]

\* The uncertain part that this node may really miss: inside what it asks
\* for, or above the frontier it had.
Nedostaje(pk, trazi) ==
    Uz(Presjek(pk.nesigurno, trazi), Presjek(pk.nesigurno, Iznad(pk.fs)))

\* Mutation: what is refused is not recorded before the write.
ProsiriBezOdbijenog(pk, k) ==
    [k EXCEPT !.trazi = Uz(Uz(@, pk.uTrazi), Nedostaje(pk, @))]

\* Before the versions are written: add the refused and the missing.
Prosiri(pk, k) ==
    [odbijeno |-> Uz(k.odbijeno, pk.odbijeno),
     trazi    |-> Uz(Uz(k.trazi, pk.uTrazi), Nedostaje(pk, k.trazi))]

\* After the versions are written: take out of trazi what is covered, except
\* what is missing and what is refused but wanted.
Suzi(pk, k) ==
    [k EXCEPT !.trazi = Uz(Uz(Bez(Bez(k.trazi, pk.redovno), pk.popuna), pk.uTrazi),
                           Nedostaje(pk, k.trazi))]

MijenjaTrazi(pk, trazi) ==
    \/ ~Prazan(Nedostaje(pk, trazi))
    \/ ~Prazan(Presjek(pk.redovno, trazi))
    \/ ~Prazan(Presjek(pk.popuna, trazi))

\* The refused range (od, najveca]: od is above the frontier and above every
\* received version below the smallest refused one; a fill may be refused
\* below the frontier, and then only the received versions bound it.
RasponOdbijenog(najmanja, najveca, fs, ispod) ==
    Cist(Raspon(IF najmanja <= fs THEN ispod ELSE Veci(fs, ispod), najveca))
=============================================================================
