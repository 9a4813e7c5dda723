---------------------------- MODULE PravaDokazi -----------------------------
(***************************************************************************)
(* What holds of accounts and duties for any nodes, records, rights,       *)
(* passwords, holders of the network key and starting ledgers: types, that *)
(* nobody is a global administrator without a version or a signed          *)
(* confirmation that makes him one, and that the same versions and         *)
(* decisions give a record the same rights on every node.                  *)
(***************************************************************************)
EXTENDS Prava, FiniteSetTheorems, WellFoundedInduction, TLAPS

-----------------------------------------------------------------------------
(* Recursion and induction, as facts about sets and functions *)

\* A set of natural numbers has a smallest one.
LEMMA Najmanji ==
    ASSUME NEW T \in SUBSET Nat, T # {}
    PROVE  \E m \in T : \A k \in T : m <= k
<1> DEFINE R == OpToRel(<, Nat)
<1>1. IsWellFoundedOn(R, Nat)  BY NatLessThanWellFounded, Zenon
<1>2. ASSUME NEW x \in Nat, NEW y \in Nat, x < y  PROVE <<x, y>> \in R
  BY <1>2, Zenon DEF OpToRel
<1> HIDE DEF R
<1>3. PICK m \in T : \A k \in T : ~(<<k, m>> \in R)
  <2>1. IsWellFoundedOn(R, Nat) /\ T \subseteq Nat /\ T # {}  BY <1>1
  <2> QED  BY ONLY <2>1, WFMin, Zenon
<1>4. ASSUME NEW k \in T  PROVE m <= k
  <2>1. ~(k < m)  BY <1>2, <1>3
  <2> QED  BY <2>1
<1> QED  BY <1>4

\* A bounded one that is not empty has a largest one.
LEMMA Najveci ==
    ASSUME NEW N \in Nat, NEW T \in SUBSET (0 .. N), T # {}
    PROVE  \E m \in T : \A k \in T : k <= m
<1> DEFINE D == {N - k : k \in T}
<1>1. D \in SUBSET Nat /\ D # {}
  <2>1. \A k \in T : N - k \in Nat  OBVIOUS
  <2> QED  BY <2>1
<1> HIDE DEF D
<1>2. PICK d \in D : \A k \in D : d <= k  BY <1>1, Najmanji
<1>3. PICK m \in T : d = N - m  BY DEF D
<1>4. ASSUME NEW k \in T  PROVE k <= m
  <2>1. N - k \in D  BY DEF D
  <2> QED  BY <1>2, <1>3, <2>1
<1> QED  BY <1>4

\* Induction up to N.
LEMMA Korakom ==
    ASSUME NEW N \in Nat, NEW T, 0 \in T, \A i \in 1 .. N : i - 1 \in T => i \in T
    PROVE  0 .. N \subseteq T
<1> DEFINE D == (0 .. N) \ T
<1> SUFFICES ASSUME D # {}  PROVE FALSE
  OBVIOUS
<1>1. D \in SUBSET Nat  OBVIOUS
<1>2. PICK m \in D : \A k \in D : m <= k
  <2> HIDE DEF D
  <2> QED  BY <1>1, Najmanji
<1>3. m \in 1 .. N /\ m \notin T  BY <1>2
<1>4. m - 1 \in T  BY <1>2, <1>3
<1> QED  BY <1>3, <1>4

\* A function defined by its value at 0 and a step exists.
PoKoracima(N, X, b, F, g) ==
    g \in [0 .. N -> X] /\ g[0] = b /\ \A i \in 1 .. N : g[i] = F[<<g[i - 1], i>>]
ImaKorake(N, X, b, F) == \E g : PoKoracima(N, X, b, F, g)

LEMMA Rekurzija ==
    ASSUME NEW N \in Nat, NEW X, NEW b \in X, NEW F \in [X \X (1 .. N) -> X]
    PROVE  ImaKorake(N, X, b, F)
<1> DEFINE Do(n) == {g \in [0 .. n -> X] :
                        g = [i \in 0 .. n |-> IF i = 0 THEN b ELSE F[<<g[i - 1], i>>]]}
           T == {n \in 0 .. N : Do(n) # {}}
<1>1. 0 \in T
  <2> DEFINE g == [i \in 0 .. 0 |-> b]
  <2>1. g \in [0 .. 0 -> X]  OBVIOUS
  <2>2. g = [i \in 0 .. 0 |-> IF i = 0 THEN b ELSE F[<<g[i - 1], i>>]]  OBVIOUS
  <2>3. g \in Do(0)  BY <2>1, <2>2
  <2> QED  BY <2>3
<1>2. ASSUME NEW n \in 1 .. N, n - 1 \in T  PROVE n \in T
  <2>1. PICK g \in [0 .. n - 1 -> X] :
           g = [i \in 0 .. n - 1 |-> IF i = 0 THEN b ELSE F[<<g[i - 1], i>>]]
    BY <1>2
  <2> DEFINE h == [i \in 0 .. n |-> IF i = n THEN F[<<g[n - 1], n>>] ELSE g[i]]
             hh == [i \in 0 .. n |-> IF i = 0 THEN b ELSE F[<<h[i - 1], i>>]]
  <2>2. h \in [0 .. n -> X]
    <3>1. g[n - 1] \in X  OBVIOUS
    <3>2. F[<<g[n - 1], n>>] \in X  BY <3>1
    <3> QED  BY <3>2
  <2>3. ASSUME NEW i \in 0 .. n  PROVE h[i] = hh[i]
    <3>1. CASE i = 0
      <4>1. h[0] = g[0] /\ 0 \in 0 .. n - 1  OBVIOUS
      <4>2. g[0] = b  BY <2>1, <4>1
      <4> QED  BY <3>1, <4>1, <4>2
    <3>2. CASE i = n
      <4>1. h[n] = F[<<g[n - 1], n>>] /\ n # 0 /\ n - 1 \in 0 .. n /\ n - 1 # n  OBVIOUS
      <4>2. h[n - 1] = g[n - 1]  BY <4>1
      <4>3. hh[n] = F[<<h[n - 1], n>>]  BY <4>1
      <4> QED  BY <3>2, <4>1, <4>2, <4>3
    <3>3. CASE i # 0 /\ i # n
      <4>1. i \in 0 .. n - 1 /\ i - 1 \in 0 .. n - 1  BY <3>3
      <4>2. g[i] = F[<<g[i - 1], i>>]  BY <2>1, <3>3, <4>1
      <4>3. h[i] = g[i] /\ h[i - 1] = g[i - 1]  BY <3>3, <4>1
      <4>4. hh[i] = F[<<h[i - 1], i>>]  BY <3>3
      <4> QED  BY <4>2, <4>3, <4>4
    <3> QED  BY <3>1, <3>2, <3>3
  <2>4. h = hh
    <3> HIDE DEF hh
    <3>1. DOMAIN hh = 0 .. n /\ hh = [i \in 0 .. n |-> hh[i]]  BY DEF hh
    <3>2. h = [i \in 0 .. n |-> h[i]]  OBVIOUS
    <3> HIDE DEF h
    <3> QED  BY <2>3, <3>1, <3>2
  <2> HIDE DEF h
  <2>5. h \in Do(n)  BY <2>2, <2>4
  <2> QED  BY <2>5
<1> HIDE DEF T
<1>3. N \in T
  <2>1. 0 .. N \subseteq T  BY <1>1, <1>2, Korakom
  <2> QED  BY <2>1
<1>4. PICK g \in [0 .. N -> X] : g = [i \in 0 .. N |-> IF i = 0 THEN b ELSE F[<<g[i - 1], i>>]]
  BY <1>3 DEF T
<1>5. g[0] = b  BY <1>4
<1>6. \A i \in 1 .. N : g[i] = F[<<g[i - 1], i>>]  BY <1>4
<1> QED  BY <1>5, <1>6 DEF ImaKorake, PoKoracima

\* A finite set of labelled things has a label above all.
LEMMA KonacnoOmedeno ==
    ASSUME NEW S, IsFiniteSet(S), \A x \in S : x.oznaka \in Nat
    PROVE  \E N \in Nat : \A x \in S : x.oznaka <= N
<1>1. PICK k \in Nat : ExistsSurjection(1 .. k, S)  BY FS_NatSurjection
<1>2. PICK f \in [1 .. k -> S] : \A x \in S : \E i \in 1 .. k : f[i] = x
  BY <1>1 DEF ExistsSurjection, Surjection
<1> DEFINE T == {i \in 0 .. k : \E N \in Nat : \A j \in 1 .. i : f[j].oznaka <= N}
<1>3. 0 \in T  OBVIOUS
<1>4. ASSUME NEW i \in 1 .. k, i - 1 \in T  PROVE i \in T
  <2>1. PICK N \in Nat : \A j \in 1 .. i - 1 : f[j].oznaka <= N  BY <1>4
  <2> DEFINE M == IF f[i].oznaka > N THEN f[i].oznaka ELSE N
  <2>2. f[i].oznaka \in Nat /\ \A j \in 1 .. i : f[j].oznaka \in Nat  OBVIOUS
  <2>3. M \in Nat /\ \A j \in 1 .. i : f[j].oznaka <= M
    <3> SUFFICES ASSUME NEW j \in 1 .. i  PROVE M \in Nat /\ f[j].oznaka <= M
      OBVIOUS
    <3>1. j = i \/ j \in 1 .. i - 1  OBVIOUS
    <3>2. f[j].oznaka \in Nat /\ f[i].oznaka \in Nat  BY <2>2
    <3> QED  BY <2>1, <3>1, <3>2
  <2> HIDE DEF M
  <2> QED  BY <2>3
<1> HIDE DEF T
<1>5. k \in T
  <2>1. 0 .. k \subseteq T  BY <1>1, <1>3, <1>4, Korakom
  <2> QED  BY <1>1, <2>1
<1>6. PICK N \in Nat : \A j \in 1 .. k : f[j].oznaka <= N  BY <1>5 DEF T
<1> QED  BY <1>2, <1>6

\* The latest of labelled things is one of them.
LEMMA KasnijaUnutra ==
    ASSUME NEW S, S # {}, \A x \in S : x.oznaka \in Nat, NEW N \in Nat, \A x \in S : x.oznaka <= N
    PROVE  Kasnija(S) \in S
<1> DEFINE T == {x.oznaka : x \in S}
<1>1. T \in SUBSET (0 .. N) /\ T # {}  OBVIOUS
<1>2. PICK m \in T : \A k \in T : k <= m
  <2> HIDE DEF T
  <2> QED  BY <1>1, Najveci
<1>3. PICK x \in S : m = x.oznaka  BY DEF T
<1>4. \A y \in S : y.oznaka <= x.oznaka  BY <1>2, <1>3
<1> QED  BY <1>4 DEF Kasnija

-----------------------------------------------------------------------------
(* What a transaction keeps *)

Redovi == [oznaka : Oznake, prava : PravaRacuna \cup PravaDuznosti]
Ishodi == {"", "ceka", "odbijeno", "zamijenjeno", "potvrdeno"}
Odluke == [oznaka : Nat, autor : Cvor, zapis : Zapis \cup {Mreza}, verzija : Nat,
           odluka : {"potvrdeno", "odbijeno"}, prava : PravaRacuna \cup PravaDuznosti \cup {Nema}]
Povrsine == [Zapis -> Redovi \cup {Nema}]
Popisi == [Oznake -> Ishodi]
Transakcije == [K : SUBSET Verzija, O : SUBSET Odluke, vl : SUBSET Oznake,
                p : Povrsine, q : Popisi,
                proslo : SUBSET Zapis, palo : SUBSET Zapis, ceka : SUBSET Zapis]

\* A decision carries rights of the kind of its record.
DobraOdluka(x) == x.zapis \in Zapis => x.prava \in PravaZapisa(x.zapis)

\* What may make account r a global administrator on node n: an own version, or
\* one from before the signatures, or a signed confirmation.
ImaPodlogu(n, t, r) ==
    \/ \E v \in VerzijeZapisa(t.K, r) :
          v.prava.zastavica /\ (v.oznaka \in t.vl \/ v \in PocetnaKnjiga[n])
    \/ \E x \in OdlukeZapisa(t.O, r) : x.odluka = "potvrdeno" /\ x.prava.zastavica

\* The rights record z may have on the surface.
DobraPrava(n, t, z) ==
    {prava \in PravaZapisa(z) : z \in Racun /\ prava.zastavica => ImaPodlogu(n, t, z)}

RedStoji(n, t, z) ==
    t.p[z] # Nema =>
       /\ t.p[z].prava \in DobraPrava(n, t, z)
       /\ t.p[z].oznaka \in OznakeU(VerzijeZapisa(t.K, z))
       /\ z \in Duznost => t.p[Vlasnik[z]] # Nema

ZapisiU(K) == {v.zapis : v \in K}

Uredne(n) ==
    {t \in Transakcije :
       /\ IsFiniteSet(t.K) /\ IsFiniteSet(t.O)
       /\ \A x \in t.O : DobraOdluka(x)
       /\ \A z \in Zapis : RedStoji(n, t, z)
       /\ t.palo \subseteq ZapisiU(t.K) /\ t.ceka \subseteq ZapisiU(t.K)}

\* What a transaction of n that began with t may have become: with the same
\* versions and decisions, or with decisions n signed.
Nastavak(n, t) == {u \in Uredne(n) : u.K = t.K /\ u.vl = t.vl /\ u.O = t.O}

Potpisano(n, t) ==
    {u \in Uredne(n) :
       /\ u.K = t.K /\ u.vl = t.vl /\ t.O \subseteq u.O
       /\ \A x \in u.O \ t.O : x.autor = n}

LEMMA TransakcijaPolja ==
    ASSUME NEW t \in Transakcije
    PROVE  t = [K |-> t.K, O |-> t.O, vl |-> t.vl, p |-> t.p, q |-> t.q,
                proslo |-> t.proslo, palo |-> t.palo, ceka |-> t.ceka]
BY DEF Transakcije

LEMMA NastavakSlozen ==
    ASSUME NEW n, NEW t, NEW u \in Nastavak(n, t), NEW w \in Nastavak(n, u)
    PROVE  w \in Nastavak(n, t)
BY DEF Nastavak

LEMMA NastavakSvoj ==
    ASSUME NEW n, NEW t \in Uredne(n)
    PROVE  t \in Nastavak(n, t)
BY DEF Nastavak

LEMMA PotpisanoSlozeno ==
    ASSUME NEW n, NEW t, NEW u \in Potpisano(n, t), NEW w \in Nastavak(n, u) \cup Potpisano(n, u)
    PROVE  w \in Potpisano(n, t)
BY DEF Nastavak, Potpisano

LEMMA PotpisanoSvoje ==
    ASSUME NEW n, NEW t \in Uredne(n)
    PROVE  t \in Potpisano(n, t) /\ Nastavak(n, t) \subseteq Potpisano(n, t)
BY DEF Nastavak, Potpisano

LEMMA VerzijaPolja ==
    ASSUME NEW v \in Verzija
    PROVE  /\ v.oznaka \in Oznake /\ v.oznaka \in Nat /\ v.oznaka <= ZadnjaOznaka
           /\ v.autor \in Cvor /\ v.zapis \in Zapis
           /\ v.prava \in PravaZapisa(v.zapis)
           /\ v.prava \in PravaRacuna \cup PravaDuznosti
BY PravaPretpostavka DEF Verzija, Oznake, PravaZapisa

LEMMA ZadnjaUnutra ==
    ASSUME NEW S \in SUBSET Verzija, S # {}
    PROVE  Kasnija(S) \in S
BY KasnijaUnutra, VerzijaPolja, PravaPretpostavka

LEMMA OdlukaUnutra ==
    ASSUME NEW S \in SUBSET Odluke, IsFiniteSet(S), S # {}
    PROVE  Kasnija(S) \in S
<1>1. \A x \in S : x.oznaka \in Nat  BY DEF Odluke
<1> QED  BY <1>1, KonacnoOmedeno, KasnijaUnutra

\* A row that may stand, put on the surface.
LEMMA NaPovrsinuUredno ==
    ASSUME NEW n, NEW t \in Uredne(n), NEW z \in Zapis,
           NEW o \in OznakeU(VerzijeZapisa(t.K, z)), NEW prava \in DobraPrava(n, t, z)
    PROVE  NaPovrsinu(t, z, Red(o, prava)) \in Nastavak(n, t)
<1> DEFINE u == NaPovrsinu(t, z, Red(o, prava))
<1>1. t \in Transakcije /\ z \in ZapisiU(t.K)  BY DEF Uredne, OznakeU, VerzijeZapisa, ZapisiU
<1>2. CASE z \in Duznost /\ t.p[Vlasnik[z]] = Nema
  <2>1. u = [t EXCEPT !.palo = @ \cup {z}]  BY <1>2 DEF NaPovrsinu
  <2>2. u \in Transakcije  BY <1>1, <2>1 DEF Transakcije
  <2>3. /\ u.K = t.K /\ u.O = t.O /\ u.vl = t.vl /\ u.p = t.p /\ u.ceka = t.ceka
        /\ u.palo = t.palo \cup {z}
    BY <1>1, <2>1 DEF Transakcije
  <2> HIDE DEF u
  <2>4. \A y \in Zapis : RedStoji(n, u, y)
    BY <2>3 DEF Uredne, RedStoji, DobraPrava, ImaPodlogu
  <2>5. u \in Uredne(n)  BY <1>1, <2>2, <2>3, <2>4 DEF Uredne
  <2> QED  BY <2>3, <2>5 DEF Nastavak, u
<1>3. CASE ~(z \in Duznost /\ t.p[Vlasnik[z]] = Nema)
  <2>1. u = [t EXCEPT !.p[z] = Red(o, prava), !.proslo = @ \cup {z}]  BY <1>3 DEF NaPovrsinu
  <2>2. Red(o, prava) \in Redovi /\ Red(o, prava) # Nema
    <3>1. o \in Oznake
      BY <1>1, VerzijaPolja DEF Transakcije, OznakeU, VerzijeZapisa
    <3>2. prava \in PravaRacuna \cup PravaDuznosti  BY DEF DobraPrava, PravaZapisa
    <3> QED  BY <3>1, <3>2, PravaPretpostavka DEF Red, Redovi
  <2> DEFINE p == [t.p EXCEPT ![z] = Red(o, prava)]
  <2>8. t.p \in Povrsine /\ p \in Povrsine  BY <1>1, <2>2 DEF Transakcije, Povrsine
  <2>9. u = [t EXCEPT !.p = p, !.proslo = @ \cup {z}]  BY <2>1
  <2> HIDE DEF u, p
  <2>3. u \in Transakcije  BY <1>1, <2>8, <2>9 DEF Transakcije
  <2>4. /\ u.K = t.K /\ u.O = t.O /\ u.vl = t.vl /\ u.ceka = t.ceka /\ u.palo = t.palo
        /\ u.p = [t.p EXCEPT ![z] = Red(o, prava)] /\ t.p \in [Zapis -> Redovi \cup {Nema}]
    BY <1>1, <2>8, <2>9 DEF Transakcije, Povrsine, p
  <2> HIDE DEF u
  <2>5. \A y \in Zapis : DobraPrava(n, u, y) = DobraPrava(n, t, y)
    BY <2>4 DEF DobraPrava, ImaPodlogu
  <2>6. ASSUME NEW y \in Zapis, u.p[y] # Nema
        PROVE  RedStoji(n, u, y)
    <3>1. \A w \in Zapis : t.p[w] # Nema => u.p[w] # Nema  BY <2>2, <2>4
    <3>2. y \in Duznost => Vlasnik[y] \in Zapis  BY PravaPretpostavka DEF Zapis
    <3>3. CASE y = z
      <4>1. u.p[y] = Red(o, prava)  BY <2>4, <3>3
      <4>2. u.p[y].prava = prava /\ u.p[y].oznaka = o  BY <4>1 DEF Red
      <4>3. y \in Duznost => u.p[Vlasnik[y]] # Nema  BY <1>3, <3>1, <3>2, <3>3
      <4> QED  BY <2>4, <2>5, <3>3, <4>2, <4>3 DEF RedStoji
    <3>4. CASE y # z
      <4>1. u.p[y] = t.p[y]  BY <2>4, <3>4
      <4>2. RedStoji(n, t, y) /\ t.p[y] # Nema  BY <2>6, <4>1 DEF Uredne
      <4> QED  BY <2>4, <2>5, <3>1, <3>2, <4>1, <4>2 DEF RedStoji
    <3> QED  BY <3>3, <3>4
  <2>7. \A y \in Zapis : RedStoji(n, u, y)  BY <2>6 DEF RedStoji
  <2>10. u \in Uredne(n)  BY <2>3, <2>4, <2>7 DEF Uredne
  <2> QED  BY <2>4, <2>10 DEF Nastavak, u
<1> QED  BY <1>2, <1>3

\* A record without rights leaves the surface, with its duties.
LEMMA MakniUredno ==
    ASSUME NEW n, NEW t \in Uredne(n), NEW z \in Zapis
    PROVE  Makni(t, z) \in Nastavak(n, t)
<1> DEFINE u == Makni(t, z)
           p == [y \in Zapis |-> IF y = z \/ (y \in Duznost /\ Vlasnik[y] = z) THEN Nema ELSE t.p[y]]
<1>1. t \in Transakcije  BY DEF Uredne
<1>2. u = [t EXCEPT !.p = p, !.proslo = @ \cup {z}]  BY DEF Makni
<1>3. p \in Povrsine  BY <1>1 DEF Transakcije, Povrsine
<1>4. u \in Transakcije
  <2> HIDE DEF p
  <2> QED  BY <1>1, <1>2, <1>3 DEF Transakcije
<1>5. /\ u.K = t.K /\ u.O = t.O /\ u.vl = t.vl /\ u.ceka = t.ceka /\ u.palo = t.palo /\ u.p = p
  <2> HIDE DEF p
  <2> QED  BY <1>1, <1>2 DEF Transakcije
<1> HIDE DEF u
<1>6. \A y \in Zapis : DobraPrava(n, u, y) = DobraPrava(n, t, y)
  BY <1>5 DEF DobraPrava, ImaPodlogu
<1>7. ASSUME NEW y \in Zapis, u.p[y] # Nema
      PROVE  RedStoji(n, u, y)
  <2>1. y # z /\ ~(y \in Duznost /\ Vlasnik[y] = z) /\ u.p[y] = t.p[y]  BY <1>5, <1>7
  <2>2. RedStoji(n, t, y) /\ t.p[y] # Nema  BY <1>7, <2>1 DEF Uredne
  <2>3. y \in Duznost => u.p[Vlasnik[y]] # Nema
    <3> SUFFICES ASSUME y \in Duznost  PROVE u.p[Vlasnik[y]] # Nema
      OBVIOUS
    <3>1. Vlasnik[y] \in Zapis /\ Vlasnik[y] \notin Duznost  BY PravaPretpostavka DEF Zapis
    <3>2. t.p[Vlasnik[y]] # Nema  BY <2>2 DEF RedStoji
    <3> QED  BY <1>5, <2>1, <3>1, <3>2
  <2> QED  BY <1>5, <1>6, <2>1, <2>2, <2>3 DEF RedStoji
<1>8. \A y \in Zapis : RedStoji(n, u, y)  BY <1>7 DEF RedStoji
<1>9. u \in Uredne(n)  BY <1>4, <1>5, <1>8 DEF Uredne
<1>10. u \in Nastavak(n, t)  BY <1>5, <1>9 DEF Nastavak
<1> QED  BY <1>10 DEF u

\* A change of the list changes nothing of this.
LEMMA PopisUredno ==
    ASSUME NEW n, NEW t \in Uredne(n), NEW q \in Popisi
    PROVE  [t EXCEPT !.q = q] \in Nastavak(n, t)
<1> DEFINE u == [t EXCEPT !.q = q]
<1>1. t \in Transakcije  BY DEF Uredne
<1>2. u \in Transakcije  BY <1>1 DEF Transakcije
<1>3. /\ u.K = t.K /\ u.O = t.O /\ u.vl = t.vl /\ u.ceka = t.ceka /\ u.palo = t.palo /\ u.p = t.p
  BY <1>1 DEF Transakcije
<1> HIDE DEF u
<1>4. \A y \in Zapis : RedStoji(n, u, y)
  BY <1>3 DEF Uredne, RedStoji, DobraPrava, ImaPodlogu
<1>5. u \in Uredne(n)  BY <1>2, <1>3, <1>4 DEF Uredne
<1>6. u \in Nastavak(n, t)  BY <1>3, <1>5 DEF Nastavak
<1> QED  BY <1>6 DEF u

\* Nor does what passed, failed or waits, as long as it is of the ledger.
LEMMA BiljeskeUredno ==
    ASSUME NEW n, NEW t \in Uredne(n), NEW proslo \in SUBSET Zapis,
           NEW palo \in SUBSET ZapisiU(t.K), NEW ceka \in SUBSET ZapisiU(t.K)
    PROVE  [t EXCEPT !.proslo = proslo, !.palo = palo, !.ceka = ceka] \in Nastavak(n, t)
<1> DEFINE u == [t EXCEPT !.proslo = proslo, !.palo = palo, !.ceka = ceka]
<1>1. t \in Transakcije  BY DEF Uredne
<1>2. ZapisiU(t.K) \subseteq Zapis  BY <1>1, VerzijaPolja DEF Transakcije, ZapisiU
<1>3. u \in Transakcije  BY <1>1, <1>2 DEF Transakcije
<1>4. /\ u.K = t.K /\ u.O = t.O /\ u.vl = t.vl /\ u.ceka = ceka /\ u.palo = palo /\ u.p = t.p
  BY <1>1 DEF Transakcije
<1> HIDE DEF u
<1>5. \A y \in Zapis : RedStoji(n, u, y)
  BY <1>4 DEF Uredne, RedStoji, DobraPrava, ImaPodlogu
<1>6. u \in Uredne(n)  BY <1>3, <1>4, <1>5 DEF Uredne
<1>7. u \in Nastavak(n, t)  BY <1>4, <1>6 DEF Nastavak
<1> QED  BY <1>7 DEF u

-----------------------------------------------------------------------------
(* The state of a record (izracunajStanje) *)

Stanja == [prava : PravaRacuna \cup PravaDuznosti \cup {Nema}, tocka : 0 .. ZadnjaOznaka,
           zadnja : 0 .. ZadnjaOznaka, ishod : Popisi]

\* States whose rights, if any, are in R, and whose last version is in K.
DobraStanja(R, K) ==
    {s \in Stanja : s.prava \in R \cup {Nema} /\ s.zadnja \in OznakeU(K) \cup {0}}

\* Whatever sets rights keeps them in R: a confirmation, an own version, and a
\* version that changes nothing guarded.
Zatvoreno(R, p, K, D, vl) ==
    /\ R \subseteq PravaRacuna \cup PravaDuznosti
    /\ \A x \in Potvrde(D) : x.prava \in R
    /\ \A v \in K : v.oznaka \in vl => v.prava \in R
    /\ \A v \in K : \A prava \in R \cup {Nema} : ~MijenjaPrava(p, prava, v) => v.prava \in R

LEMMA TocnaUnutra ==
    ASSUME NEW D \in SUBSET Odluke, IsFiniteSet(D), NEW o, Tocna(D, o) # Nema
    PROVE  Tocna(D, o) \in D
<1>1. ASSUME NEW S \in SUBSET D, S # {}  PROVE Kasnija(S) \in D
  <2>1. IsFiniteSet(S)  BY FS_Subset
  <2> QED  BY <1>1, <2>1, OdlukaUnutra
<1>2. Odbijanja(OOznaci(D, o)) \subseteq D /\ OOznaci(D, o) \subseteq D  BY DEF Odbijanja, OOznaci
<1> QED  BY <1>1, <1>2 DEF Tocna

LEMMA BezVerzijePotvrde ==
    ASSUME NEW D \in SUBSET Odluke, IsFiniteSet(D), NEW K
    PROVE  PotvrdeBezVerzije(K, D) \subseteq Potvrde(D)
<1> SUFFICES ASSUME NEW x \in Potvrde(D)
             PROVE  Kasnija(OOznaci(Potvrde(D), x.verzija)) \in Potvrde(D)
  BY DEF PotvrdeBezVerzije
<1> DEFINE S == OOznaci(Potvrde(D), x.verzija)
<1>1. x \in S /\ S \subseteq Potvrde(D) /\ S \subseteq D  BY DEF OOznaci, Potvrde
<1> HIDE DEF S
<1>2. IsFiniteSet(S)  BY <1>1, FS_Subset
<1>3. Kasnija(S) \in S  BY <1>1, <1>2, OdlukaUnutra
<1> QED  BY <1>1, <1>3 DEF S

LEMMA PostaviDobro ==
    ASSUME NEW R, NEW K, NEW s \in DobraStanja(R, K), NEW o \in Oznake, NEW prava \in R,
           R \subseteq PravaRacuna \cup PravaDuznosti
    PROVE  /\ Postavi(s, o, prava) \in DobraStanja(R, K)
<1> DEFINE ishod == [i \in Oznake |-> IF s.ishod[i] = "ceka" THEN "zamijenjeno" ELSE s.ishod[i]]
           u == Postavi(s, o, prava)
<1>1. s \in Stanja  BY DEF DobraStanja
<1>2. ishod \in Popisi  BY <1>1 DEF Stanja, Popisi, Ishodi
<1>3. u = [s EXCEPT !.prava = prava, !.tocka = o, !.ishod = ishod]  BY DEF Postavi
<1>4. o \in 0 .. ZadnjaOznaka  BY PravaPretpostavka DEF Oznake
<1> HIDE DEF ishod, u
<1>5. u \in Stanja  BY <1>1, <1>2, <1>3, <1>4 DEF Stanja
<1>6. u.prava = prava /\ u.zadnja = s.zadnja  BY <1>1, <1>3 DEF Stanja
<1>7. u \in DobraStanja(R, K)  BY <1>5, <1>6 DEF DobraStanja
<1> QED  BY <1>7 DEF u

LEMMA KorakDobar ==
    ASSUME NEW R, NEW p, NEW vl, NEW K \in SUBSET Verzija, NEW D \in SUBSET Odluke, IsFiniteSet(D),
           Zatvoreno(R, p, K, D, vl), NEW s0 \in DobraStanja(R, K), NEW v \in K
    PROVE  Korak(p, K, D, vl, s0, v) \in DobraStanja(R, K)
<1> DEFINE o == v.oznaka
           s == [s0 EXCEPT !.zadnja = o]
           x == Tocna(D, o)
<1>1. o \in Oznake /\ o \in 0 .. ZadnjaOznaka /\ o \in OznakeU(K)
  BY VerzijaPolja, PravaPretpostavka DEF OznakeU
<1>2. s0 \in Stanja /\ s0.prava \in R \cup {Nema}  BY DEF DobraStanja
<1>3. s \in Stanja /\ s.prava = s0.prava /\ s.zadnja = o
  <2> HIDE DEF o
  <2> QED  BY <1>1, <1>2 DEF Stanja
<1>4. s \in DobraStanja(R, K)
  <2> HIDE DEF o, s
  <2> QED  BY <1>1, <1>2, <1>3 DEF DobraStanja
<1>5. ASSUME NEW u \in DobraStanja(R, K), NEW i \in Ishodi
      PROVE  [u EXCEPT !.ishod[o] = i] \in DobraStanja(R, K)
  <2> HIDE DEF o, s
  <2> DEFINE ishod == [u.ishod EXCEPT ![o] = i]
             w == [u EXCEPT !.ishod = ishod]
  <2>1. u \in Stanja  BY DEF DobraStanja
  <2>2. ishod \in Popisi  BY <2>1, <1>1 DEF Stanja, Popisi
  <2> HIDE DEF ishod
  <2>3. w \in Stanja /\ w.prava = u.prava /\ w.zadnja = u.zadnja  BY <2>1, <2>2 DEF Stanja
  <2> HIDE DEF w
  <2>4. w \in DobraStanja(R, K)  BY <2>3 DEF DobraStanja
  <2> QED  BY <2>4 DEF w, ishod
<1>6. ASSUME NEW u \in DobraStanja(R, K), NEW prava \in R
      PROVE  [u EXCEPT !.prava = prava] \in DobraStanja(R, K)
  <2> DEFINE w == [u EXCEPT !.prava = prava]
  <2>1. u \in Stanja /\ prava \in PravaRacuna \cup PravaDuznosti  BY DEF DobraStanja, Zatvoreno
  <2>2. w \in Stanja /\ w.prava = prava /\ w.zadnja = u.zadnja  BY <2>1 DEF Stanja
  <2> HIDE DEF w
  <2>3. w \in DobraStanja(R, K)  BY <2>2 DEF DobraStanja
  <2> QED  BY <2>3 DEF w
<1>7. R \subseteq PravaRacuna \cup PravaDuznosti  BY DEF Zatvoreno
<1> DEFINE t == IF x.odluka = "potvrdeno" THEN Postavi(s, o, x.prava) ELSE s
           preneseno == \E y \in Odbijanja(D) :
              y.prava = v.prava /\ Razdoblje(Tocke(K, D, vl), y.verzija) = Razdoblje(Tocke(K, D, vl), o)
<1>8. Korak(p, K, D, vl, s0, v) =
         IF x # Nema THEN [t EXCEPT !.ishod[o] = x.odluka]
         ELSE IF o \in vl THEN Postavi(s, o, v.prava)
         ELSE IF v.prava = s.prava THEN s
         ELSE IF preneseno THEN [s EXCEPT !.ishod[o] = "odbijeno"]
         ELSE IF MijenjaPrava(p, s.prava, v) THEN [s EXCEPT !.ishod[o] = "ceka"]
         ELSE [s EXCEPT !.prava = v.prava]
  BY DEF Korak
<1> HIDE DEF preneseno
<1>9. CASE x # Nema
  <2>1. x \in D  BY <1>9, TocnaUnutra
  <2>2. x.odluka \in {"potvrdeno", "odbijeno"} /\ x.odluka \in Ishodi
    <3> HIDE DEF x
    <3> QED  BY <2>1 DEF Odluke, Ishodi
  <2>3. x.odluka = "potvrdeno" => x.prava \in R
    <3> HIDE DEF x
    <3> QED  BY <2>1 DEF Zatvoreno, Potvrde
  <2> HIDE DEF x, s, o
  <2>4. t \in DobraStanja(R, K)  BY <1>1, <1>4, <1>7, <2>3, PostaviDobro
  <2> HIDE DEF t
  <2>5. [t EXCEPT !.ishod[o] = x.odluka] \in DobraStanja(R, K)  BY <1>5, <2>2, <2>4
  <2> QED  BY <1>8, <1>9, <2>5
<1>10. CASE x = Nema
  <2>1. o \in vl => v.prava \in R  BY DEF Zatvoreno
  <2>2. ~MijenjaPrava(p, s.prava, v) => v.prava \in R
    <3> HIDE DEF s, o
    <3> QED  BY <1>2, <1>3 DEF Zatvoreno
  <2> HIDE DEF x, s, o, t
  <2>3. o \in vl => Postavi(s, o, v.prava) \in DobraStanja(R, K)
    BY <1>1, <1>4, <1>7, <2>1, PostaviDobro
  <2>4. /\ [s EXCEPT !.ishod[o] = "odbijeno"] \in DobraStanja(R, K)
        /\ [s EXCEPT !.ishod[o] = "ceka"] \in DobraStanja(R, K)
    BY <1>4, <1>5 DEF Ishodi
  <2>5. ~MijenjaPrava(p, s.prava, v) => [s EXCEPT !.prava = v.prava] \in DobraStanja(R, K)
    BY <1>4, <1>6, <2>2
  <2> QED  BY <1>4, <1>8, <1>10, <2>3, <2>4, <2>5
<1> QED  BY <1>9, <1>10

\* One label of the history.
Dalje(p, K, D, vl, s, i) ==
    LET bez == PotvrdeBezVerzije(K, D)
    IN  IF i \in OznakeU(K) THEN Korak(p, K, D, vl, s, CHOOSE v \in K : v.oznaka = i)
        ELSE IF OOznaci(bez, i) # {} THEN Postavi(s, i, (CHOOSE x \in OOznaci(bez, i) : TRUE).prava)
        ELSE s

LEMMA DaljeDobro ==
    ASSUME NEW R, NEW p, NEW vl, NEW K \in SUBSET Verzija, NEW D \in SUBSET Odluke, IsFiniteSet(D),
           Zatvoreno(R, p, K, D, vl), NEW s \in DobraStanja(R, K), NEW i \in 1 .. ZadnjaOznaka
    PROVE  Dalje(p, K, D, vl, s, i) \in DobraStanja(R, K)
<1> DEFINE bez == PotvrdeBezVerzije(K, D)
<1>1. CASE i \in OznakeU(K)
  <2> DEFINE v == CHOOSE v \in K : v.oznaka = i
  <2>1. v \in K  BY <1>1 DEF OznakeU
  <2>2. Dalje(p, K, D, vl, s, i) = Korak(p, K, D, vl, s, v)  BY <1>1 DEF Dalje
  <2> HIDE DEF v
  <2> QED  BY <2>1, <2>2, KorakDobar
<1>2. CASE i \notin OznakeU(K) /\ OOznaci(bez, i) # {}
  <2> DEFINE x == CHOOSE x \in OOznaci(bez, i) : TRUE
  <2>1. x \in OOznaci(bez, i)  BY <1>2
  <2>2. Dalje(p, K, D, vl, s, i) = Postavi(s, i, x.prava)  BY <1>2 DEF Dalje
  <2> HIDE DEF x
  <2>3. x \in Potvrde(D)  BY <2>1, BezVerzijePotvrde DEF OOznaci
  <2>4. x.prava \in R /\ R \subseteq PravaRacuna \cup PravaDuznosti  BY <2>3 DEF Zatvoreno
  <2> QED  BY <2>2, <2>4, PostaviDobro DEF Oznake
<1>3. CASE i \notin OznakeU(K) /\ OOznaci(bez, i) = {}
  BY <1>3 DEF Dalje
<1> QED  BY <1>1, <1>2, <1>3

\* The history, label by label.
Racuna(R, p, K, D, vl, g) ==
    /\ g \in [0 .. ZadnjaOznaka -> DobraStanja(R, K)]
    /\ g[0].prava = Nema /\ g[0].tocka = 0 /\ g[0].zadnja = 0 /\ g[0].ishod = [o \in Oznake |-> ""]
    /\ \A i \in 1 .. ZadnjaOznaka : g[i] = Dalje(p, K, D, vl, g[i - 1], i)
    /\ IzracunajStanje(p, K, D, vl) = g[ZadnjaOznaka]

LEMMA RacunaSe ==
    ASSUME NEW R, NEW p, NEW vl, NEW K \in SUBSET Verzija, NEW D \in SUBSET Odluke, IsFiniteSet(D),
           Zatvoreno(R, p, K, D, vl)
    PROVE  \E g : Racuna(R, p, K, D, vl, g)
<1> DEFINE N == ZadnjaOznaka
           X == DobraStanja(R, K)
           b == [prava |-> Nema, tocka |-> 0, zadnja |-> 0, ishod |-> [o \in Oznake |-> ""]]
           bez == PotvrdeBezVerzije(K, D)
           Tijelo(f, i) ==
             IF i = 0 THEN [prava |-> Nema, tocka |-> 0, zadnja |-> 0, ishod |-> [o \in Oznake |-> ""]]
             ELSE IF i \in OznakeU(K)
                  THEN Korak(p, K, D, vl, f[i - 1], CHOOSE v \in K : v.oznaka = i)
             ELSE IF OOznaci(bez, i) # {}
                  THEN Postavi(f[i - 1], i, (CHOOSE x \in OOznaci(bez, i) : TRUE).prava)
             ELSE f[i - 1]
           do == CHOOSE f : f = [i \in 0 .. N |-> Tijelo(f, i)]
           F == [x \in X \X (1 .. N) |-> Dalje(p, K, D, vl, x[1], x[2])]
<1>1. N \in Nat /\ b \in X
  <2> DEFINE prazno == [o \in Oznake |-> ""]
  <2>1. prazno \in Popisi /\ 0 \in 0 .. ZadnjaOznaka  BY PravaPretpostavka DEF Popisi, Ishodi
  <2>2. b = [prava |-> Nema, tocka |-> 0, zadnja |-> 0, ishod |-> prazno]  OBVIOUS
  <2> HIDE DEF prazno, b
  <2>3. b \in Stanja /\ b.prava = Nema /\ b.zadnja = 0  BY <2>1, <2>2 DEF Stanja
  <2> QED  BY <2>3, PravaPretpostavka DEF DobraStanja
<1>2. IzracunajStanje(p, K, D, vl) = do[N]  BY DEF IzracunajStanje
<1>3. ASSUME NEW f, NEW i \in 0 .. N
      PROVE  Tijelo(f, i) = IF i = 0 THEN b ELSE Dalje(p, K, D, vl, f[i - 1], i)
  BY DEF Dalje
<1>4. ASSUME NEW s \in X, NEW i \in 1 .. N  PROVE Dalje(p, K, D, vl, s, i) \in X
  BY <1>4, DaljeDobro
<1> HIDE DEF Tijelo, b, X
<1>5. F \in [X \X (1 .. N) -> X]  BY <1>4
<1>6. PICK g \in [0 .. N -> X] : g[0] = b /\ \A i \in 1 .. N : g[i] = F[<<g[i - 1], i>>]
  <2> HIDE DEF F, N
  <2>1. ImaKorake(N, X, b, F)  BY <1>1, <1>5, Rekurzija
  <2> QED  BY <2>1 DEF ImaKorake, PoKoracima
<1>7. ASSUME NEW i \in 0 .. N  PROVE g[i] = Tijelo(g, i)
  <2>1. CASE i = 0  BY <1>3, <1>6, <2>1
  <2>2. CASE i # 0
    <3>1. i \in 1 .. N /\ i - 1 \in 0 .. N /\ g[i - 1] \in X  BY <1>1, <2>2
    <3>2. g[i] = F[<<g[i - 1], i>>]
      <4> HIDE DEF F, N
      <4> QED  BY <1>6, <3>1
    <3> QED  BY <1>3, <2>2, <3>1, <3>2
  <2> QED  BY <2>1, <2>2
<1>8. g = [i \in 0 .. N |-> Tijelo(g, i)]
  <2> HIDE DEF F, N
  <2> QED  BY <1>7
<1>9. do = [i \in 0 .. N |-> Tijelo(do, i)]  BY <1>8
<1> HIDE DEF do, F
<1> DEFINE T == {i \in 0 .. N : do[i] = g[i]}
<1>10. ASSUME NEW i \in 0 .. N  PROVE do[i] = IF i = 0 THEN b ELSE Dalje(p, K, D, vl, do[i - 1], i)
  <2>1. do[i] = Tijelo(do, i)
    <3> HIDE DEF N
    <3> QED  BY <1>9
  <2> QED  BY <2>1, <1>3
<1>11. ASSUME NEW i \in 1 .. N  PROVE g[i] = Dalje(p, K, D, vl, g[i - 1], i)
  <2>1. i \in 0 .. N /\ i # 0  BY <1>1
  <2> QED  BY <1>3, <1>7, <2>1
<1>12. 0 \in T
  <2>1. 0 \in 0 .. N  BY <1>1
  <2> QED  BY <1>6, <1>10, <2>1
<1>13. ASSUME NEW i \in 1 .. N, i - 1 \in T  PROVE i \in T
  <2>1. i \in 0 .. N /\ i # 0 /\ do[i - 1] = g[i - 1]  BY <1>1, <1>13
  <2> QED  BY <1>10, <1>11, <2>1
<1>14. N \in T
  <2> HIDE DEF T, N
  <2>1. 0 .. N \subseteq T  BY <1>1, <1>12, <1>13, Korakom
  <2> QED  BY <1>1, <2>1
<1>15. Racuna(R, p, K, D, vl, g)
  <2>1. /\ g[0].prava = Nema /\ g[0].tocka = 0 /\ g[0].zadnja = 0
        /\ g[0].ishod = [o \in Oznake |-> ""]
    <3> DEFINE prazno == [o \in Oznake |-> ""]
    <3>1. b = [prava |-> Nema, tocka |-> 0, zadnja |-> 0, ishod |-> prazno]  BY DEF b
    <3>2. g[0] = b  BY <1>6
    <3> HIDE DEF prazno, b, F
    <3>3. g[0].prava = Nema /\ g[0].tocka = 0 /\ g[0].zadnja = 0 /\ g[0].ishod = prazno
      BY <3>1, <3>2
    <3> QED  BY <3>3 DEF prazno
  <2>2. g \in [0 .. ZadnjaOznaka -> DobraStanja(R, K)]  BY <1>6 DEF X
  <2>3. IzracunajStanje(p, K, D, vl) = g[ZadnjaOznaka]  BY <1>2, <1>14
  <2> QED  BY <1>11, <2>1, <2>2, <2>3 DEF Racuna
<1> QED  BY <1>15

\* What holds of the rights by every step holds of the state.
LEMMA IzracunatoDobro ==
    ASSUME NEW R, NEW p, NEW vl, NEW K \in SUBSET Verzija, NEW D \in SUBSET Odluke, IsFiniteSet(D),
           Zatvoreno(R, p, K, D, vl)
    PROVE  IzracunajStanje(p, K, D, vl) \in DobraStanja(R, K)
<1>1. PICK g : Racuna(R, p, K, D, vl, g)  BY RacunaSe
<1>2. ZadnjaOznaka \in 0 .. ZadnjaOznaka  BY PravaPretpostavka
<1> QED  BY <1>1, <1>2 DEF Racuna

-----------------------------------------------------------------------------
(* The steps of a transaction on the surface *)

LEMMA StanjeUredno ==
    ASSUME NEW n, NEW t \in Uredne(n), NEW z \in Zapis
    PROVE  Stanje(t, z) \in DobraStanja(DobraPrava(n, t, z), VerzijeZapisa(t.K, z))
<1> DEFINE R == DobraPrava(n, t, z)
           K == VerzijeZapisa(t.K, z)
           D == OdlukeZapisa(t.O, z)
<1>1. t.K \in SUBSET Verzija /\ t.O \in SUBSET Odluke /\ IsFiniteSet(t.O)
  BY DEF Uredne, Transakcije
<1>2. K \in SUBSET Verzija /\ D \in SUBSET Odluke /\ D \subseteq t.O
  BY <1>1 DEF VerzijeZapisa, OdlukeZapisa
<1>3. IsFiniteSet(D)  BY <1>1, <1>2, FS_Subset
<1>4. R \subseteq PravaRacuna \cup PravaDuznosti  BY DEF DobraPrava, PravaZapisa
<1>5. ASSUME NEW x \in Potvrde(D)  PROVE x.prava \in R
  <2>1. x \in t.O /\ x.zapis = z /\ x.odluka = "potvrdeno"  BY <1>5 DEF Potvrde, OdlukeZapisa
  <2>2. x.prava \in PravaZapisa(z)  BY <2>1 DEF Uredne, DobraOdluka
  <2> QED  BY <2>1, <2>2 DEF DobraPrava, ImaPodlogu, OdlukeZapisa
<1>6. ASSUME NEW v \in K  PROVE v.prava \in PravaZapisa(z) /\ v.zapis = z
  BY <1>2, VerzijaPolja DEF VerzijeZapisa
<1>7. ASSUME NEW v \in K, v.oznaka \in t.vl  PROVE v.prava \in R
  BY <1>6, <1>7 DEF DobraPrava, ImaPodlogu
<1>8. ASSUME NEW v \in K, NEW prava \in R \cup {Nema}, ~MijenjaPrava(t.p, prava, v)
      PROVE  v.prava \in R
  <2>1. v.prava \in PravaZapisa(z) /\ v.zapis = z  BY <1>6
  <2>2. CASE z \in Racun
    <3>1. z \notin Duznost  BY <2>2, PravaPretpostavka
    <3>2. v.prava.zastavica = (prava # Nema /\ prava.zastavica)  BY <1>8, <2>1, <3>1 DEF MijenjaPrava
    <3>3. prava # Nema => prava \in R  OBVIOUS
    <3> QED  BY <2>1, <2>2, <3>2, <3>3 DEF DobraPrava
  <2>3. CASE z \notin Racun  BY <2>1, <2>3 DEF DobraPrava
  <2> QED  BY <2>2, <2>3
<1> HIDE DEF R, K, D
<1>9. Zatvoreno(R, t.p, K, D, t.vl)  BY <1>4, <1>5, <1>7, <1>8 DEF Zatvoreno
<1>10. IzracunajStanje(t.p, K, D, t.vl) \in DobraStanja(R, K)  BY <1>2, <1>3, <1>9, IzracunatoDobro
<1> QED  BY <1>10 DEF Stanje, R, K, D

\* What is on the list stays on it.
LEMMA IshodiUredni ==
    ASSUME NEW n, NEW t \in Uredne(n), NEW z \in Zapis, NEW s \in Stanja
    PROVE  ZapisiIshode(t, z, s) \in Nastavak(n, t)
<1> DEFINE q == [o \in Oznake |->
                   IF o \notin OznakeU(VerzijeZapisa(t.K, z)) THEN t.q[o]
                   ELSE IF s.ishod[o] = "potvrdeno" THEN "" ELSE s.ishod[o]]
<1>1. t.q \in Popisi /\ s.ishod \in Popisi  BY DEF Uredne, Transakcije, Stanja
<1>2. q \in Popisi  BY <1>1 DEF Popisi, Ishodi
<1>3. ZapisiIshode(t, z, s) = [t EXCEPT !.q = q]  BY DEF ZapisiIshode
<1> HIDE DEF q
<1> QED  BY <1>2, <1>3, PopisUredno

LEMMA DobraPravaIsta ==
    ASSUME NEW n, NEW t, NEW u \in Nastavak(n, t), NEW z
    PROVE  DobraPrava(n, t, z) \subseteq DobraPrava(n, u, z)
BY DEF Nastavak, DobraPrava, ImaPodlogu, OdlukeZapisa

LEMMA PoStanjuUredno ==
    ASSUME NEW n, NEW t \in Uredne(n), NEW z \in Zapis,
           NEW s \in DobraStanja(DobraPrava(n, t, z), VerzijeZapisa(t.K, z))
    PROVE  PoStanju(t, z, s) \in Nastavak(n, t)
<1>1. CASE s.prava = Nema \/ s.zadnja = 0
  BY <1>1, MakniUredno, NastavakSvoj DEF PoStanju
<1>2. CASE ~(s.prava = Nema \/ s.zadnja = 0)
  <2>1. s.prava \in DobraPrava(n, t, z) /\ s.zadnja \in OznakeU(VerzijeZapisa(t.K, z))
    BY <1>2 DEF DobraStanja
  <2>2. NaPovrsinu(t, z, Red(s.zadnja, s.prava)) \in Nastavak(n, t)  BY <2>1, NaPovrsinuUredno
  <2> QED  BY <1>2, <2>2, NastavakSvoj DEF PoStanju
<1> QED  BY <1>1, <1>2

LEMMA PoOdlukamaUredno ==
    ASSUME NEW n, NEW t \in Uredne(n), NEW z \in Zapis
    PROVE  PoOdlukama(t, z) \in Nastavak(n, t)
<1> DEFINE s == Stanje(t, z)
           u == ZapisiIshode(t, z, s)
<1>1. s \in DobraStanja(DobraPrava(n, t, z), VerzijeZapisa(t.K, z))  BY StanjeUredno
<1>2. PoOdlukama(t, z) = PoStanju(u, z, s)  BY DEF PoOdlukama
<1> HIDE DEF s
<1>3. s \in Stanja  BY <1>1 DEF DobraStanja
<1>4. u \in Nastavak(n, t)  BY <1>3, IshodiUredni
<1> HIDE DEF u
<1>5. u \in Uredne(n) /\ u.K = t.K  BY <1>4 DEF Nastavak
<1>6. s \in DobraStanja(DobraPrava(n, u, z), VerzijeZapisa(u.K, z))
  <2>1. DobraPrava(n, t, z) \subseteq DobraPrava(n, u, z)  BY <1>4, DobraPravaIsta
  <2> QED  BY <1>1, <1>5, <2>1 DEF DobraStanja
<1>7. PoStanju(u, z, s) \in Nastavak(n, u)  BY <1>5, <1>6, PoStanjuUredno
<1> QED  BY <1>2, <1>4, <1>7, NastavakSlozen

LEMMA PromjenaUredna ==
    ASSUME NEW n, NEW t \in Uredne(n), NEW v
    PROVE  ZapisiPromjenu(t, v) \in Nastavak(n, t)
<1> DEFINE raniji == {w \in VerzijeZapisa(t.K, v.zapis) : w.oznaka < v.oznaka /\ t.q[w.oznaka] # ""}
           preneseno == raniji # {} /\ t.q[Kasnija(raniji).oznaka] = "odbijeno"
                        /\ Kasnija(raniji).prava = v.prava
           q == [o \in Oznake |->
                   IF o = v.oznaka THEN IF preneseno THEN "odbijeno" ELSE "ceka"
                   ELSE IF o \in OznakeU(raniji) /\ t.q[o] = "ceka" THEN "zamijenjeno" ELSE t.q[o]]
<1>1. ZapisiPromjenu(t, v) = IF t.q[v.oznaka] # "" THEN t ELSE [t EXCEPT !.q = q]
  BY DEF ZapisiPromjenu
<1>2. q \in Popisi
  <2>1. t.q \in Popisi  BY DEF Uredne, Transakcije
  <2> HIDE DEF preneseno, raniji
  <2> QED  BY <2>1 DEF Popisi, Ishodi
<1> HIDE DEF q
<1> QED  BY <1>1, <1>2, PopisUredno, NastavakSvoj

LEMMA PremaPovrsiniUredno ==
    ASSUME NEW n, NEW t \in Uredne(n), NEW v \in t.K
    PROVE  PremaPovrsini(t, v) \in Nastavak(n, t)
<1> DEFINE z == v.zapis
           c == ZapisiPromjenu(t, v)
<1>1. v \in Verzija /\ z \in Zapis /\ v.prava \in PravaZapisa(z)
  BY VerzijaPolja DEF Uredne, Transakcije
<1>2. v.oznaka \in OznakeU(VerzijeZapisa(t.K, z))  BY DEF OznakeU, VerzijeZapisa
<1>3. c \in Nastavak(n, t)  BY PromjenaUredna
<1> HIDE DEF c
<1>4. c \in Uredne(n) /\ c.K = t.K  BY <1>3 DEF Nastavak
<1>5. RedStoji(n, t, z)  BY <1>1 DEF Uredne
<1>6. CASE ~MijenjaPrava(t.p, PravaPovrsine(t.p, z), v)
  <2>1. v.prava \in DobraPrava(n, t, z)
    <3>1. CASE z \in Racun /\ v.prava.zastavica
      <4>1. z \notin Duznost  BY <3>1, PravaPretpostavka
      <4>2. t.p[z] # Nema /\ t.p[z].prava.zastavica
        BY <1>6, <3>1, <4>1 DEF MijenjaPrava, PravaPovrsine
      <4>3. ImaPodlogu(n, t, z)  BY <1>5, <3>1, <4>2 DEF RedStoji, DobraPrava
      <4> QED  BY <1>1, <4>3 DEF DobraPrava
    <3>2. CASE ~(z \in Racun /\ v.prava.zastavica)  BY <1>1, <3>2 DEF DobraPrava
    <3> QED  BY <3>1, <3>2
  <2>2. NaPovrsinu(t, z, Red(v.oznaka, v.prava)) \in Nastavak(n, t)
    BY <1>1, <1>2, <2>1, NaPovrsinuUredno
  <2>3. PremaPovrsini(t, v) \in {t, NaPovrsinu(t, z, Red(v.oznaka, v.prava))}
    BY <1>6 DEF PremaPovrsini
  <2> QED  BY <2>2, <2>3, NastavakSvoj
<1>7. CASE MijenjaPrava(t.p, PravaPovrsine(t.p, z), v) /\ t.p[z] = Nema
  <2>1. PremaPovrsini(t, v) \in {t, c}  BY <1>7 DEF PremaPovrsini, c
  <2> QED  BY <1>3, <2>1, NastavakSvoj
<1>8. CASE MijenjaPrava(t.p, PravaPovrsine(t.p, z), v) /\ t.p[z] # Nema
  <2> DEFINE prava == BezPrava(t.p, v)
             bilo == t.p[z].prava
  <2>1. bilo \in DobraPrava(n, t, z)  BY <1>5, <1>8 DEF RedStoji
  <2>2. prava \in DobraPrava(n, t, z)
    <3>1. CASE z \in Duznost  BY <2>1, <3>1 DEF BezPrava
    <3>2. CASE z \notin Duznost
      <4>1. z \in Racun  BY <1>1, <3>2 DEF Zapis
      <4>2. bilo \in PravaRacuna /\ v.prava \in PravaRacuna  BY <1>1, <2>1, <4>1 DEF DobraPrava, PravaZapisa
      <4>3. prava = [zastavica |-> bilo.zastavica,
                     lozinka |-> IF Globalni(t.p, z, bilo) THEN bilo.lozinka ELSE v.prava.lozinka]
        BY <3>2 DEF BezPrava
      <4> HIDE DEF prava, bilo
      <4>4. prava \in PravaRacuna /\ prava.zastavica = bilo.zastavica  BY <4>2, <4>3 DEF PravaRacuna
      <4> QED  BY <2>1, <4>1, <4>4 DEF DobraPrava, PravaZapisa
    <3> QED  BY <3>1, <3>2
  <2>3. PremaPovrsini(t, v) \in {t, NaPovrsinu(c, z, Red(v.oznaka, prava))}
    BY <1>8 DEF PremaPovrsini, c
  <2> HIDE DEF prava
  <2>4. DobraPrava(n, t, z) \subseteq DobraPrava(n, c, z)  BY <1>3, DobraPravaIsta
  <2>5. NaPovrsinu(c, z, Red(v.oznaka, prava)) \in Nastavak(n, c)
    BY <1>1, <1>2, <1>4, <2>2, <2>4, NaPovrsinuUredno
  <2> QED  BY <1>3, <2>3, <2>5, NastavakSlozen, NastavakSvoj
<1> QED  BY <1>6, <1>7, <1>8

LEMMA PrimijeniUredno ==
    ASSUME NEW n, NEW t \in Uredne(n), NEW v \in t.K
    PROVE  Primijeni(t, v) \in Nastavak(n, t)
<1>1. v.zapis \in Zapis  BY VerzijaPolja DEF Uredne, Transakcije
<1> QED  BY <1>1, PoOdlukamaUredno, PremaPovrsiniUredno, NastavakSvoj DEF Primijeni

-----------------------------------------------------------------------------
(* The passes of a transaction *)

Oznaka(V, u, i) ==
    IF i \in OznakeU(V) THEN Primijeni(u, CHOOSE v \in V : v.oznaka = i) ELSE u

\* Versions one after the other.
Ide(n, t, V, g) ==
    /\ g \in [0 .. ZadnjaOznaka -> Nastavak(n, t)]
    /\ g[0] = t
    /\ \A i \in 1 .. ZadnjaOznaka : g[i] = Oznaka(V, g[i - 1], i)
    /\ PoOznakama(t, V) = g[ZadnjaOznaka]

LEMMA OznakaUredna ==
    ASSUME NEW n, NEW t, NEW V \in SUBSET t.K, NEW u \in Nastavak(n, t), NEW i
    PROVE  Oznaka(V, u, i) \in Nastavak(n, t)
<1>1. CASE i \in OznakeU(V)
  <2> DEFINE v == CHOOSE v \in V : v.oznaka = i
  <2>1. v \in V  BY <1>1 DEF OznakeU
  <2>2. Oznaka(V, u, i) = Primijeni(u, v)  BY <1>1 DEF Oznaka
  <2> HIDE DEF v
  <2>3. u \in Uredne(n) /\ v \in u.K  BY <2>1 DEF Nastavak
  <2>4. Primijeni(u, v) \in Nastavak(n, u)  BY <2>3, PrimijeniUredno
  <2> QED  BY <2>2, <2>4, NastavakSlozen
<1>2. CASE i \notin OznakeU(V)  BY <1>2 DEF Oznaka
<1> QED  BY <1>1, <1>2

LEMMA PoOznakamaIde ==
    ASSUME NEW n, NEW t \in Uredne(n), NEW V \in SUBSET t.K
    PROVE  \E g : Ide(n, t, V, g)
<1> DEFINE N == ZadnjaOznaka
           X == Nastavak(n, t)
           Tijelo(f, i) ==
             IF i = 0 THEN t
             ELSE IF i \in OznakeU(V) THEN Primijeni(f[i - 1], CHOOSE v \in V : v.oznaka = i)
             ELSE f[i - 1]
           do == CHOOSE f : f = [i \in 0 .. N |-> Tijelo(f, i)]
           F == [x \in X \X (1 .. N) |-> Oznaka(V, x[1], x[2])]
<1>1. N \in Nat /\ t \in X  BY PravaPretpostavka, NastavakSvoj
<1>2. PoOznakama(t, V) = do[N]  BY DEF PoOznakama
<1>3. ASSUME NEW f, NEW i \in 0 .. N
      PROVE  Tijelo(f, i) = IF i = 0 THEN t ELSE Oznaka(V, f[i - 1], i)
  BY DEF Oznaka
<1>4. ASSUME NEW u \in X, NEW i \in 1 .. N  PROVE Oznaka(V, u, i) \in X
  BY <1>4, OznakaUredna
<1> HIDE DEF Tijelo, X
<1>5. F \in [X \X (1 .. N) -> X]  BY <1>4
<1>6. PICK g \in [0 .. N -> X] : g[0] = t /\ \A i \in 1 .. N : g[i] = F[<<g[i - 1], i>>]
  <2> HIDE DEF F, N
  <2>1. ImaKorake(N, X, t, F)  BY <1>1, <1>5, Rekurzija
  <2> QED  BY <2>1 DEF ImaKorake, PoKoracima
<1>7. ASSUME NEW i \in 1 .. N  PROVE g[i] = Oznaka(V, g[i - 1], i) /\ g[i - 1] \in X
  <2>1. i - 1 \in 0 .. N /\ g[i - 1] \in X  BY <1>1
  <2>2. g[i] = F[<<g[i - 1], i>>]
    <3> HIDE DEF F, N
    <3> QED  BY <1>6
  <2> QED  BY <2>1, <2>2
<1>8. ASSUME NEW i \in 0 .. N  PROVE g[i] = Tijelo(g, i)
  <2>1. CASE i = 0  BY <1>3, <1>6, <2>1
  <2>2. CASE i # 0
    <3>1. i \in 1 .. N  BY <1>1, <2>2
    <3> QED  BY <1>3, <1>7, <2>2, <3>1
  <2> QED  BY <2>1, <2>2
<1>9. g = [i \in 0 .. N |-> Tijelo(g, i)]
  <2> HIDE DEF F, N
  <2> QED  BY <1>8
<1>10. do = [i \in 0 .. N |-> Tijelo(do, i)]  BY <1>9
<1> HIDE DEF do, F
<1> DEFINE T == {i \in 0 .. N : do[i] = g[i]}
<1>11. ASSUME NEW i \in 0 .. N  PROVE do[i] = IF i = 0 THEN t ELSE Oznaka(V, do[i - 1], i)
  <2>1. do[i] = Tijelo(do, i)
    <3> HIDE DEF N
    <3> QED  BY <1>10
  <2> QED  BY <2>1, <1>3
<1>12. 0 \in T
  <2>1. 0 \in 0 .. N  BY <1>1
  <2> QED  BY <1>6, <1>11, <2>1
<1>13. ASSUME NEW i \in 1 .. N, i - 1 \in T  PROVE i \in T
  <2>1. i \in 0 .. N /\ i # 0 /\ do[i - 1] = g[i - 1]  BY <1>1, <1>13
  <2> QED  BY <1>7, <1>11, <2>1
<1>14. N \in T
  <2> HIDE DEF T, N
  <2>1. 0 .. N \subseteq T  BY <1>1, <1>12, <1>13, Korakom
  <2> QED  BY <1>1, <2>1
<1>15. Ide(n, t, V, g)
  <2>1. g \in [0 .. ZadnjaOznaka -> Nastavak(n, t)]  BY <1>6 DEF X
  <2>2. g[0] = t /\ \A i \in 1 .. ZadnjaOznaka : g[i] = Oznaka(V, g[i - 1], i)  BY <1>6, <1>7
  <2>3. PoOznakama(t, V) = g[ZadnjaOznaka]  BY <1>2, <1>14
  <2> QED  BY <2>1, <2>2, <2>3 DEF Ide
<1> QED  BY <1>15

LEMMA PoOznakamaUredno ==
    ASSUME NEW n, NEW t \in Uredne(n), NEW V \in SUBSET t.K
    PROVE  PoOznakama(t, V) \in Nastavak(n, t)
<1>1. PICK g : Ide(n, t, V, g)  BY PoOznakamaIde
<1>2. ZadnjaOznaka \in 0 .. ZadnjaOznaka  BY PravaPretpostavka
<1> QED  BY <1>1, <1>2 DEF Ide

\* The last version of a record is one of the ledger.
LEMMA ZadnjaIzKnjige ==
    ASSUME NEW K \in SUBSET Verzija, NEW z \in ZapisiU(K)
    PROVE  Zadnja(K, z) \in K /\ Zadnja(K, z).zapis = z
<1>1. VerzijeZapisa(K, z) # {} /\ VerzijeZapisa(K, z) \subseteq Verzija  BY DEF ZapisiU, VerzijeZapisa
<1>2. Zadnja(K, z) \in VerzijeZapisa(K, z)  BY <1>1, ZadnjaUnutra DEF Zadnja
<1> QED  BY <1>2 DEF VerzijeZapisa

LEMMA VratiDjecuUredno ==
    ASSUME NEW n, NEW t \in Uredne(n), NEW r
    PROVE  VratiDjecu(t, r) \in Nastavak(n, t)
<1> DEFINE djeca == {d \in Duznost : Vlasnik[d] = r /\ t.p[d] = Nema /\ VerzijeZapisa(t.K, d) # {}}
           V == {Zadnja(t.K, d) : d \in djeca}
<1>1. t.K \in SUBSET Verzija  BY DEF Uredne, Transakcije
<1>2. \A d \in djeca : d \in ZapisiU(t.K)  BY DEF VerzijeZapisa, ZapisiU
<1> HIDE DEF djeca
<1>3. V \in SUBSET t.K  BY <1>1, <1>2, ZadnjaIzKnjige
<1>4. VratiDjecu(t, r) = PoOznakama(t, V)  BY DEF VratiDjecu, djeca
<1> HIDE DEF V
<1> QED  BY <1>3, <1>4, PoOznakamaUredno

\* What poOdlukama leaves failed is its own record, and the ledger holds it.
LEMMA BiljeskeIz ==
    ASSUME NEW n, NEW t \in Uredne(n), NEW palo \in SUBSET ZapisiU(t.K), NEW proslo \in SUBSET Zapis
    PROVE  [t EXCEPT !.palo = palo, !.proslo = proslo] \in Nastavak(n, t)
<1>1. t \in Transakcije /\ t.ceka \subseteq ZapisiU(t.K)  BY DEF Uredne
<1>2. [t EXCEPT !.proslo = proslo, !.palo = palo, !.ceka = t.ceka] \in Nastavak(n, t)
  BY <1>1, BiljeskeUredno
<1>3. [t EXCEPT !.palo = palo, !.proslo = proslo]
        = [t EXCEPT !.proslo = proslo, !.palo = palo, !.ceka = t.ceka]
  BY <1>1 DEF Transakcije
<1> QED  BY <1>2, <1>3

LEMMA PaloSvoje ==
    ASSUME NEW n, NEW t \in Uredne(n), NEW z \in Zapis, t.palo = {}
    PROVE  PoOdlukama(t, z).palo \subseteq {z}
<1> DEFINE s == Stanje(t, z)
           u == ZapisiIshode(t, z, s)
<1>1. t \in Transakcije  BY DEF Uredne
<1>2. u.palo = {} /\ u \in Uredne(n)
  <2>1. s \in Stanja  BY StanjeUredno DEF DobraStanja
  <2> HIDE DEF s
  <2>2. u \in Nastavak(n, t)  BY <2>1, IshodiUredni
  <2>3. u.palo = t.palo  BY <1>1 DEF ZapisiIshode, Transakcije
  <2> QED  BY <2>2, <2>3 DEF Nastavak
<1>3. PoOdlukama(t, z) = PoStanju(u, z, s)  BY DEF PoOdlukama
<1> HIDE DEF s, u
<1>4. u \in Transakcije  BY <1>2 DEF Uredne
<1>5. Makni(u, z).palo = {}  BY <1>2, <1>4 DEF Makni, Transakcije
<1>6. ASSUME NEW red  PROVE NaPovrsinu(u, z, red).palo \subseteq {z}
  BY <1>2, <1>4 DEF NaPovrsinu, Transakcije
<1> QED  BY <1>2, <1>3, <1>5, <1>6 DEF PoStanju

LEMMA UTockiUredno ==
    ASSUME NEW n, NEW t \in Uredne(n), NEW u \in Nastavak(n, t), NEW z, u.palo \subseteq {z}
    PROVE  UTocki(t, z, u) \in Nastavak(n, t)
<1> DEFINE s == [u EXCEPT !.palo = t.palo, !.proslo = t.proslo]
           w == VratiDjecu(s, z)
<1>1. t \in Transakcije /\ t.palo \subseteq ZapisiU(t.K) /\ t.ceka \subseteq ZapisiU(t.K)  BY DEF Uredne
<1>2. t.palo \in SUBSET Zapis /\ t.proslo \in SUBSET Zapis  BY <1>1 DEF Transakcije
<1>3. u \in Uredne(n) /\ u.K = t.K  BY DEF Nastavak
<1>4. s \in Nastavak(n, u)  BY <1>1, <1>2, <1>3, BiljeskeIz
<1> HIDE DEF s
<1>5. s \in Uredne(n) /\ s.K = t.K  BY <1>3, <1>4 DEF Nastavak
<1>6. CASE u.palo # {}
  <2>1. z \in ZapisiU(t.K)  BY <1>3, <1>6 DEF Uredne
  <2>2. [t EXCEPT !.proslo = t.proslo, !.palo = t.palo, !.ceka = t.ceka \cup {z}] \in Nastavak(n, t)
    BY <1>1, <1>2, <2>1, BiljeskeUredno
  <2>3. [t EXCEPT !.ceka = @ \cup {z}]
          = [t EXCEPT !.proslo = t.proslo, !.palo = t.palo, !.ceka = t.ceka \cup {z}]
    BY <1>1 DEF Transakcije
  <2>4. UTocki(t, z, u) = [t EXCEPT !.ceka = @ \cup {z}]  BY <1>6 DEF UTocki
  <2> QED  BY <2>2, <2>3, <2>4
<1>7. CASE u.palo = {} /\ z \in Racun /\ z \in u.proslo /\ u.p[z] # Nema
  <2>1. w \in Nastavak(n, s)  BY <1>5, VratiDjecuUredno
  <2>2. UTocki(t, z, u) = [w EXCEPT !.palo = t.palo, !.proslo = t.proslo]  BY <1>7 DEF UTocki, s
  <2> HIDE DEF w
  <2>3. w \in Uredne(n) /\ w.K = t.K  BY <1>5, <2>1 DEF Nastavak
  <2>4. [w EXCEPT !.palo = t.palo, !.proslo = t.proslo] \in Nastavak(n, w)
    BY <1>1, <1>2, <2>3, BiljeskeIz
  <2>5. w \in Nastavak(n, t)  BY <1>4, <2>1, NastavakSlozen
  <2> QED  BY <2>2, <2>4, <2>5, NastavakSlozen
<1>8. CASE u.palo = {} /\ ~(z \in Racun /\ z \in u.proslo /\ u.p[z] # Nema)
  <2>1. UTocki(t, z, u) = s  BY <1>8 DEF UTocki, s
  <2> QED  BY <1>4, <2>1, NastavakSlozen
<1> QED  BY <1>6, <1>7, <1>8

LEMMA ObnoviUredno ==
    ASSUME NEW n, NEW t \in Uredne(n), NEW z \in Zapis
    PROVE  ObnoviZapis(t, z) \in Nastavak(n, t)
<1> DEFINE t0 == [t EXCEPT !.palo = {}, !.proslo = {}]
           u == PoOdlukama(t0, z)
<1>1. t \in Transakcije  BY DEF Uredne
<1>2. t0 \in Nastavak(n, t) /\ t0.palo = {}  BY <1>1, BiljeskeIz DEF Transakcije
<1> HIDE DEF t0
<1>3. t0 \in Uredne(n)  BY <1>2 DEF Nastavak
<1>4. u \in Nastavak(n, t0) /\ u.palo \subseteq {z}  BY <1>2, <1>3, PoOdlukamaUredno, PaloSvoje
<1> HIDE DEF u
<1>5. u \in Nastavak(n, t)  BY <1>2, <1>4, NastavakSlozen
<1>6. UTocki(t, z, u) \in Nastavak(n, t)  BY <1>4, <1>5, UTockiUredno
<1>7. ObnoviZapis(t, z) \in {t, UTocki(t, z, u)}  BY DEF ObnoviZapis, u, t0
<1> QED  BY <1>6, <1>7, NastavakSvoj

\* Passes.
ProlazDalje(V, u) == Prolaz(u, {v \in V : v.zapis \in u.palo})

ProlaziIde(n, t, V, g) ==
    /\ g \in [0 .. Cardinality(V) -> Nastavak(n, t)]
    /\ g[0] = [t EXCEPT !.palo = ZapisiU(V)]
    /\ \A i \in 1 .. Cardinality(V) : g[i] = ProlazDalje(V, g[i - 1])
    /\ Prolazi(t, V) = g[Cardinality(V)]

LEMMA PaloZamijenjeno ==
    ASSUME NEW n, NEW t \in Uredne(n), NEW palo \in SUBSET ZapisiU(t.K)
    PROVE  [t EXCEPT !.palo = palo] \in Nastavak(n, t)
<1>1. t \in Transakcije /\ t.proslo \in SUBSET Zapis  BY DEF Uredne, Transakcije
<1>2. [t EXCEPT !.palo = palo, !.proslo = t.proslo] \in Nastavak(n, t)  BY <1>1, BiljeskeIz
<1>3. [t EXCEPT !.palo = palo] = [t EXCEPT !.palo = palo, !.proslo = t.proslo]
  BY <1>1 DEF Transakcije
<1> QED  BY <1>2, <1>3

LEMMA ProlazUredan ==
    ASSUME NEW n, NEW t \in Uredne(n), NEW V \in SUBSET t.K
    PROVE  Prolaz(t, V) \in Nastavak(n, t)
<1> DEFINE u == [t EXCEPT !.palo = {}]
<1>1. u \in Nastavak(n, t)  BY PaloZamijenjeno
<1>2. Prolaz(t, V) = PoOznakama(u, V)  BY DEF Prolaz
<1> HIDE DEF u
<1>3. u \in Uredne(n) /\ u.K = t.K  BY <1>1 DEF Nastavak
<1>4. PoOznakama(u, V) \in Nastavak(n, u)  BY <1>3, PoOznakamaUredno
<1> QED  BY <1>1, <1>2, <1>4, NastavakSlozen

LEMMA ProlaziIdu ==
    ASSUME NEW n, NEW t \in Uredne(n), NEW V \in SUBSET t.K
    PROVE  \E g : ProlaziIde(n, t, V, g)
<1> DEFINE N == Cardinality(V)
           X == Nastavak(n, t)
           b == [t EXCEPT !.palo = ZapisiU(V)]
           Tijelo(f, i) ==
             IF i = 0 THEN [t EXCEPT !.palo = ZapisiU(V)]
             ELSE Prolaz(f[i - 1], {v \in V : v.zapis \in f[i - 1].palo})
           do == CHOOSE f : f = [i \in 0 .. N |-> Tijelo(f, i)]
           F == [x \in X \X (1 .. N) |-> ProlazDalje(V, x[1])]
<1>1. N \in Nat /\ b \in X
  <2>1. IsFiniteSet(t.K)  BY DEF Uredne
  <2>2. IsFiniteSet(V)  BY <2>1, FS_Subset
  <2>3. Cardinality(V) \in Nat  BY <2>2, FS_CardinalityType
  <2>4. ZapisiU(V) \in SUBSET ZapisiU(t.K)  BY DEF ZapisiU
  <2> QED  BY <2>3, <2>4, PaloZamijenjeno
<1>2. Prolazi(t, V) = do[N]  BY DEF Prolazi, ZapisiU
<1>3. ASSUME NEW f, NEW i \in 0 .. N
      PROVE  Tijelo(f, i) = IF i = 0 THEN b ELSE ProlazDalje(V, f[i - 1])
  BY DEF ProlazDalje
<1>4. ASSUME NEW u \in X, NEW i \in 1 .. N  PROVE ProlazDalje(V, u) \in X
  <2> DEFINE W == {v \in V : v.zapis \in u.palo}
  <2>1. u \in Uredne(n) /\ u.K = t.K  BY DEF Nastavak
  <2>2. W \in SUBSET u.K  BY <2>1
  <2> HIDE DEF W
  <2>3. Prolaz(u, W) \in Nastavak(n, u)  BY <2>1, <2>2, ProlazUredan
  <2>4. Prolaz(u, W) \in Nastavak(n, t)  BY <2>3, NastavakSlozen
  <2> QED  BY <2>4 DEF ProlazDalje, W
<1> HIDE DEF Tijelo, X, b, N
<1>5. F \in [X \X (1 .. N) -> X]  BY <1>4
<1>6. PICK g \in [0 .. N -> X] : g[0] = b /\ \A i \in 1 .. N : g[i] = F[<<g[i - 1], i>>]
  <2> HIDE DEF F
  <2>1. ImaKorake(N, X, b, F)  BY <1>1, <1>5, Rekurzija
  <2> QED  BY <2>1 DEF ImaKorake, PoKoracima
<1>7. ASSUME NEW i \in 1 .. N  PROVE g[i] = ProlazDalje(V, g[i - 1]) /\ g[i - 1] \in X
  <2>1. i - 1 \in 0 .. N /\ g[i - 1] \in X  BY <1>1
  <2>2. g[i] = F[<<g[i - 1], i>>]
    <3> HIDE DEF F
    <3> QED  BY <1>6
  <2> QED  BY <2>1, <2>2
<1>8. ASSUME NEW i \in 0 .. N  PROVE g[i] = Tijelo(g, i)
  <2>1. CASE i = 0  BY <1>3, <1>6, <2>1
  <2>2. CASE i # 0
    <3>1. i \in 1 .. N  BY <1>1, <2>2
    <3> QED  BY <1>3, <1>7, <2>2, <3>1
  <2> QED  BY <2>1, <2>2
<1>9. g = [i \in 0 .. N |-> Tijelo(g, i)]
  <2> HIDE DEF F
  <2> QED  BY <1>8
<1>10. do = [i \in 0 .. N |-> Tijelo(do, i)]  BY <1>9
<1> HIDE DEF do, F
<1> DEFINE T == {i \in 0 .. N : do[i] = g[i]}
<1>11. ASSUME NEW i \in 0 .. N  PROVE do[i] = IF i = 0 THEN b ELSE ProlazDalje(V, do[i - 1])
  <2>1. do[i] = Tijelo(do, i)  BY <1>10
  <2> QED  BY <2>1, <1>3
<1>12. 0 \in T
  <2>1. 0 \in 0 .. N  BY <1>1
  <2> QED  BY <1>6, <1>11, <2>1
<1>13. ASSUME NEW i \in 1 .. N, i - 1 \in T  PROVE i \in T
  <2>1. i \in 0 .. N /\ i # 0 /\ do[i - 1] = g[i - 1]  BY <1>1, <1>13
  <2> QED  BY <1>7, <1>11, <2>1
<1>14. N \in T
  <2> HIDE DEF T
  <2>1. 0 .. N \subseteq T  BY <1>1, <1>12, <1>13, Korakom
  <2> QED  BY <1>1, <2>1
<1>15. ProlaziIde(n, t, V, g)
  <2>1. g \in [0 .. N -> Nastavak(n, t)]  BY <1>6 DEF X
  <2>2. g[0] = b /\ \A i \in 1 .. N : g[i] = ProlazDalje(V, g[i - 1])  BY <1>6, <1>7
  <2>3. Prolazi(t, V) = g[N]  BY <1>2, <1>14
  <2> QED  BY <2>1, <2>2, <2>3 DEF ProlaziIde, b, N
<1> QED  BY <1>15

LEMMA ProlaziUredno ==
    ASSUME NEW n, NEW t \in Uredne(n), NEW V \in SUBSET t.K
    PROVE  Prolazi(t, V) \in Nastavak(n, t)
<1>1. PICK g : ProlaziIde(n, t, V, g)  BY ProlaziIdu
<1>2. Cardinality(V) \in 0 .. Cardinality(V)
  <2>1. IsFiniteSet(t.K)  BY DEF Uredne
  <2>2. IsFiniteSet(V)  BY <2>1, FS_Subset
  <2> QED  BY <2>2, FS_CardinalityType
<1> QED  BY <1>1, <1>2 DEF ProlaziIde

\* Decisions one after the other.
Potpisana(D, u, i) ==
    LET x == {y \in D : y.oznaka = i /\ y.zapis # Mreza}
    IN  IF x = {} THEN u ELSE ObnoviZapis(u, (CHOOSE y \in x : TRUE).zapis)

PotpisaneIde(n, t, D, g) ==
    /\ g \in [0 .. ZadnjaOznaka -> Nastavak(n, t)]
    /\ g[0] = t
    /\ \A i \in 1 .. ZadnjaOznaka : g[i] = Potpisana(D, g[i - 1], i)
    /\ PrimijeniPotpisane(t, D) = g[ZadnjaOznaka]

LEMMA PotpisanaUredna ==
    ASSUME NEW n, NEW t, NEW D \in SUBSET Odluke, NEW u \in Nastavak(n, t), NEW i
    PROVE  Potpisana(D, u, i) \in Nastavak(n, t)
<1> DEFINE x == {y \in D : y.oznaka = i /\ y.zapis # Mreza}
<1>1. CASE x = {}  BY <1>1 DEF Potpisana
<1>2. CASE x # {}
  <2> DEFINE y == CHOOSE y \in x : TRUE
  <2>1. y \in x  BY <1>2
  <2>2. Potpisana(D, u, i) = ObnoviZapis(u, y.zapis)  BY <1>2 DEF Potpisana
  <2> HIDE DEF y
  <2>3. y.zapis \in Zapis  BY <2>1 DEF Odluke
  <2>4. u \in Uredne(n)  BY DEF Nastavak
  <2>5. ObnoviZapis(u, y.zapis) \in Nastavak(n, u)  BY <2>3, <2>4, ObnoviUredno
  <2> QED  BY <2>2, <2>5, NastavakSlozen
<1> QED  BY <1>1, <1>2

LEMMA PotpisaneIdu ==
    ASSUME NEW n, NEW t \in Uredne(n), NEW D \in SUBSET Odluke
    PROVE  \E g : PotpisaneIde(n, t, D, g)
<1> DEFINE N == ZadnjaOznaka
           X == Nastavak(n, t)
           b == t
           Tijelo(f, i) ==
             IF i = 0 THEN t
             ELSE LET x == {y \in D : y.oznaka = i /\ y.zapis # Mreza}
                  IN  IF x = {} THEN f[i - 1]
                      ELSE ObnoviZapis(f[i - 1], (CHOOSE y \in x : TRUE).zapis)
           do == CHOOSE f : f = [i \in 0 .. N |-> Tijelo(f, i)]
           F == [x \in X \X (1 .. N) |-> Potpisana(D, x[1], x[2])]
<1>1. N \in Nat /\ b \in X
  BY PravaPretpostavka, NastavakSvoj
<1>2. PrimijeniPotpisane(t, D) = do[N]  BY DEF PrimijeniPotpisane
<1>3. ASSUME NEW f, NEW i \in 0 .. N
      PROVE  Tijelo(f, i) = IF i = 0 THEN b ELSE Potpisana(D, f[i - 1], i)
  BY DEF Potpisana
<1>4. ASSUME NEW u \in X, NEW i \in 1 .. N  PROVE Potpisana(D, u, i) \in X
  BY <1>4, PotpisanaUredna
<1> HIDE DEF Tijelo, X, b, N
<1>5. F \in [X \X (1 .. N) -> X]  BY <1>4
<1>6. PICK g \in [0 .. N -> X] : g[0] = b /\ \A i \in 1 .. N : g[i] = F[<<g[i - 1], i>>]
  <2> HIDE DEF F
  <2>1. ImaKorake(N, X, b, F)  BY <1>1, <1>5, Rekurzija
  <2> QED  BY <2>1 DEF ImaKorake, PoKoracima
<1>7. ASSUME NEW i \in 1 .. N  PROVE g[i] = Potpisana(D, g[i - 1], i) /\ g[i - 1] \in X
  <2>1. i - 1 \in 0 .. N /\ g[i - 1] \in X  BY <1>1
  <2>2. g[i] = F[<<g[i - 1], i>>]
    <3> HIDE DEF F
    <3> QED  BY <1>6
  <2> QED  BY <2>1, <2>2
<1>8. ASSUME NEW i \in 0 .. N  PROVE g[i] = Tijelo(g, i)
  <2>1. CASE i = 0  BY <1>3, <1>6, <2>1
  <2>2. CASE i # 0
    <3>1. i \in 1 .. N  BY <1>1, <2>2
    <3> QED  BY <1>3, <1>7, <2>2, <3>1
  <2> QED  BY <2>1, <2>2
<1>9. g = [i \in 0 .. N |-> Tijelo(g, i)]
  <2> HIDE DEF F
  <2> QED  BY <1>8
<1>10. do = [i \in 0 .. N |-> Tijelo(do, i)]  BY <1>9
<1> HIDE DEF do, F
<1> DEFINE T == {i \in 0 .. N : do[i] = g[i]}
<1>11. ASSUME NEW i \in 0 .. N  PROVE do[i] = IF i = 0 THEN b ELSE Potpisana(D, do[i - 1], i)
  <2>1. do[i] = Tijelo(do, i)  BY <1>10
  <2> QED  BY <2>1, <1>3
<1>12. 0 \in T
  <2>1. 0 \in 0 .. N  BY <1>1
  <2> QED  BY <1>6, <1>11, <2>1
<1>13. ASSUME NEW i \in 1 .. N, i - 1 \in T  PROVE i \in T
  <2>1. i \in 0 .. N /\ i # 0 /\ do[i - 1] = g[i - 1]  BY <1>1, <1>13
  <2> QED  BY <1>7, <1>11, <2>1
<1>14. N \in T
  <2> HIDE DEF T
  <2>1. 0 .. N \subseteq T  BY <1>1, <1>12, <1>13, Korakom
  <2> QED  BY <1>1, <2>1
<1>15. PotpisaneIde(n, t, D, g)
  <2>1. g \in [0 .. N -> Nastavak(n, t)]  BY <1>6 DEF X
  <2>2. g[0] = b /\ \A i \in 1 .. N : g[i] = Potpisana(D, g[i - 1], i)  BY <1>6, <1>7
  <2>3. PrimijeniPotpisane(t, D) = g[N]  BY <1>2, <1>14
  <2> QED  BY <2>1, <2>2, <2>3 DEF PotpisaneIde, b, N
<1> QED  BY <1>15

LEMMA PrimijeniPotpisaneUredno ==
    ASSUME NEW n, NEW t \in Uredne(n), NEW D \in SUBSET Odluke
    PROVE  PrimijeniPotpisane(t, D) \in Nastavak(n, t)
<1>1. PICK g : PotpisaneIde(n, t, D, g)  BY PotpisaneIdu
<1>2. ZadnjaOznaka \in 0 .. ZadnjaOznaka  BY PravaPretpostavka
<1> QED  BY <1>1, <1>2 DEF PotpisaneIde

\* The versions a transaction takes up: the last of what came, and of what waited.
Primjenjuje(t, V, ned) ==
    {v \in V : v.zapis \notin ned /\ \A w \in V : w.zapis = v.zapis => w.oznaka <= v.oznaka}
      \cup {Zadnja(t.K, z) : z \in ned}

LEMMA PrimjenjujeIzKnjige ==
    ASSUME NEW t, t.K \in SUBSET Verzija, NEW V \in SUBSET t.K, NEW ned \in SUBSET ZapisiU(t.K)
    PROVE  Primjenjuje(t, V, ned) \in SUBSET t.K
BY ZadnjaIzKnjige DEF Primjenjuje

LEMMA ApplyVersionsUredno ==
    ASSUME NEW n, NEW t \in Uredne(n), NEW V \in SUBSET t.K, NEW D \in SUBSET Odluke,
           NEW ned \in SUBSET ZapisiU(t.K)
    PROVE  ApplyVersions(t, V, D, ned) \in Nastavak(n, t)
<1> DEFINE u == Prolazi(t, Primjenjuje(t, V, ned))
           w == PrimijeniPotpisane(u, D)
           ceka == ((ned \cup w.ceka) \ w.proslo) \cup u.palo
<1>1. t.K \in SUBSET Verzija  BY DEF Uredne, Transakcije
<1>2. u \in Nastavak(n, t)  BY <1>1, PrimjenjujeIzKnjige, ProlaziUredno
<1>3. ApplyVersions(t, V, D, ned) = [w EXCEPT !.ceka = ceka]  BY DEF ApplyVersions, Primjenjuje
<1> HIDE DEF u
<1>4. u \in Uredne(n) /\ u.K = t.K  BY <1>2 DEF Nastavak
<1>5. w \in Nastavak(n, u)  BY <1>4, PrimijeniPotpisaneUredno
<1> HIDE DEF w
<1>6. w \in Uredne(n) /\ w.K = t.K  BY <1>4, <1>5 DEF Nastavak
<1>7. w \in Transakcije /\ w.palo \subseteq ZapisiU(w.K) /\ w.proslo \in SUBSET Zapis  BY <1>6 DEF Uredne, Transakcije
<1>8. ceka \in SUBSET ZapisiU(w.K)  BY <1>4, <1>6 DEF Uredne
<1> HIDE DEF ceka
<1>9. [w EXCEPT !.proslo = w.proslo, !.palo = w.palo, !.ceka = ceka] \in Nastavak(n, w)
  BY <1>6, <1>7, <1>8, BiljeskeUredno
<1>10. [w EXCEPT !.ceka = ceka] = [w EXCEPT !.proslo = w.proslo, !.palo = w.palo, !.ceka = ceka]
  BY <1>7 DEF Transakcije
<1> QED  BY <1>2, <1>3, <1>5, <1>9, <1>10, NastavakSlozen

-----------------------------------------------------------------------------
(* Recursion and induction over the subsets of a finite set, which lose one *)
(* chosen element at a time                                                 *)

Slojevi(S, k) == {s \in SUBSET S : Cardinality(s) <= k}

\* A choice of one element of every subset.
Biraci(S) == {c \in [SUBSET S -> S \cup {{}}] : \A s \in SUBSET S : s # {} => c[s] \in s}

LEMMA SlojeviSlazu ==
    ASSUME NEW S, IsFiniteSet(S)
    PROVE  /\ Cardinality(S) \in Nat
           /\ Slojevi(S, 0) = {{}}
           /\ Slojevi(S, Cardinality(S)) = SUBSET S
           /\ \A k \in Nat : \A s \in Slojevi(S, k) : \A x \in s : s \ {x} \in Slojevi(S, k - 1)
<1>1. Cardinality(S) \in Nat  BY FS_CardinalityType
<1>2. ASSUME NEW s \in SUBSET S
      PROVE  /\ IsFiniteSet(s) /\ Cardinality(s) \in Nat /\ Cardinality(s) <= Cardinality(S)
             /\ Cardinality(s) = 0 <=> s = {}
  <2>1. IsFiniteSet(s) /\ Cardinality(s) <= Cardinality(S)  BY FS_Subset
  <2> QED  BY <2>1, FS_CardinalityType, FS_EmptySet
<1>3. Slojevi(S, 0) = {{}}
  <2>1. {} \in SUBSET S  OBVIOUS
  <2> QED  BY <1>2, <2>1 DEF Slojevi
<1>4. Slojevi(S, Cardinality(S)) = SUBSET S  BY <1>2 DEF Slojevi
<1>5. ASSUME NEW k \in Nat, NEW s \in Slojevi(S, k), NEW x \in s
      PROVE  s \ {x} \in Slojevi(S, k - 1)
  <2>1. s \in SUBSET S /\ Cardinality(s) <= k  BY DEF Slojevi
  <2>2. IsFiniteSet(s) /\ Cardinality(s) \in Nat  BY <1>2, <2>1
  <2>3. Cardinality(s \ {x}) = Cardinality(s) - 1  BY <2>2, FS_RemoveElement
  <2> QED  BY <2>1, <2>2, <2>3 DEF Slojevi
<1> QED  BY <1>1, <1>3, <1>4, <1>5

LEMMA PoSkupovima ==
    ASSUME NEW S, IsFiniteSet(S), NEW c \in Biraci(S), NEW T, {} \in T,
           \A s \in SUBSET S : s # {} /\ s \ {c[s]} \in T => s \in T
    PROVE  SUBSET S \subseteq T
<1> DEFINE N == Cardinality(S)
           D == {k \in 0 .. N : Slojevi(S, k) \subseteq T}
<1>1. 0 \in D
  <2>1. N \in Nat /\ Slojevi(S, 0) = {{}}  BY SlojeviSlazu
  <2> HIDE DEF N
  <2> QED  BY <2>1
<1>2. ASSUME NEW k \in 1 .. N, k - 1 \in D  PROVE k \in D
  <2>1. ASSUME NEW s \in Slojevi(S, k)  PROVE s \in T
    <3>1. s \in SUBSET S  BY DEF Slojevi
    <3>2. CASE s = {}  BY <3>2
    <3>3. CASE s # {}
      <4>1. c[s] \in s  BY <3>1, <3>3 DEF Biraci
      <4>2. s \ {c[s]} \in Slojevi(S, k - 1)  BY <4>1, SlojeviSlazu
      <4> QED  BY <1>2, <3>1, <3>3, <4>2
    <3> QED  BY <3>2, <3>3
  <2> QED  BY <2>1
<1>3. N \in D
  <2> HIDE DEF D
  <2>1. N \in Nat  BY SlojeviSlazu
  <2>2. 0 .. N \subseteq D  BY <1>1, <1>2, <2>1, Korakom
  <2> QED  BY <2>1, <2>2
<1> QED  BY <1>3, SlojeviSlazu

PoPodskupovima(S, X, b, c, F, g) ==
    /\ g \in [SUBSET S -> X] /\ g[{}] = b
    /\ \A s \in SUBSET S : s # {} => g[s] = F[<<g[s \ {c[s]}], c[s]>>]
ImaPodskupove(S, X, b, c, F) == \E g : PoPodskupovima(S, X, b, c, F, g)

LEMMA RekurzijaPoSkupovima ==
    ASSUME NEW S, IsFiniteSet(S), NEW c \in Biraci(S), NEW X, NEW b \in X, NEW F \in [X \X S -> X]
    PROVE  ImaPodskupove(S, X, b, c, F)
<1> DEFINE N == Cardinality(S)
           Je(k, g) == /\ g[{}] = b
                       /\ \A s \in Slojevi(S, k) : s # {} => g[s] = F[<<g[s \ {c[s]}], c[s]>>]
           T == {k \in 0 .. N : \E g \in [Slojevi(S, k) -> X] : Je(k, g)}
<1>1. 0 \in T
  <2> DEFINE g == [s \in Slojevi(S, 0) |-> b]
  <2>1. g \in [Slojevi(S, 0) -> X] /\ Je(0, g)  BY SlojeviSlazu
  <2> QED  BY <2>1, SlojeviSlazu
<1>2. ASSUME NEW k \in 1 .. N, k - 1 \in T  PROVE k \in T
  <2>1. PICK g \in [Slojevi(S, k - 1) -> X] : Je(k - 1, g)  BY <1>2
  <2> DEFINE h == [s \in Slojevi(S, k) |-> IF s = {} THEN b ELSE F[<<g[s \ {c[s]}], c[s]>>]]
  <2>2. ASSUME NEW s \in Slojevi(S, k), s # {}
        PROVE  /\ s \in SUBSET S /\ c[s] \in s /\ c[s] \in S
               /\ s \ {c[s]} \in Slojevi(S, k - 1) /\ s \ {c[s]} \in Slojevi(S, k)
    <3>1. s \in SUBSET S  BY DEF Slojevi
    <3>2. c[s] \in s  BY <2>2, <3>1 DEF Biraci
    <3>3. s \ {c[s]} \in Slojevi(S, k - 1)  BY <3>2, SlojeviSlazu
    <3>4. Cardinality(s \ {c[s]}) \in Nat
      <4>1. IsFiniteSet(s \ {c[s]})  BY <3>1, FS_Subset
      <4> QED  BY <4>1, FS_CardinalityType
    <3>5. s \ {c[s]} \in Slojevi(S, k)  BY <3>3, <3>4 DEF Slojevi
    <3> QED  BY <3>1, <3>2, <3>3, <3>5
  <2>3. h \in [Slojevi(S, k) -> X]
    <3> SUFFICES ASSUME NEW s \in Slojevi(S, k), s # {}  PROVE F[<<g[s \ {c[s]}], c[s]>>] \in X
      OBVIOUS
    <3>1. g[s \ {c[s]}] \in X /\ c[s] \in S  BY <2>2
    <3> QED  BY <3>1
  <2>4. {} \in Slojevi(S, k)
    <3>1. Cardinality({}) = 0  BY FS_EmptySet
    <3> QED  BY <3>1 DEF Slojevi
  <2>5. h[{}] = b  BY <2>4
  <2>6. ASSUME NEW s \in Slojevi(S, k), s # {}  PROVE h[s] = F[<<h[s \ {c[s]}], c[s]>>]
    <3> DEFINE m == s \ {c[s]}
    <3>1. m \in Slojevi(S, k - 1) /\ m \in Slojevi(S, k)  BY <2>2, <2>6
    <3>2. h[s] = F[<<g[m], c[s]>>]  BY <2>6
    <3> HIDE DEF m
    <3>3. h[m] = g[m]
      <4>1. CASE m = {}  BY <2>1, <2>5, <4>1
      <4>2. CASE m # {}
        <5>1. h[m] = F[<<g[m \ {c[m]}], c[m]>>]  BY <3>1, <4>2
        <5>2. g[m] = F[<<g[m \ {c[m]}], c[m]>>]  BY <2>1, <3>1, <4>2
        <5> QED  BY <5>1, <5>2
      <4> QED  BY <4>1, <4>2
    <3> QED  BY <3>2, <3>3 DEF m
  <2> HIDE DEF h
  <2>7. Je(k, h)  BY <2>5, <2>6
  <2> HIDE DEF Je
  <2> QED  BY <2>3, <2>7
<1> HIDE DEF T
<1>3. N \in Nat  BY SlojeviSlazu
<1>4. N \in T
  <2>1. 0 .. N \subseteq T  BY <1>1, <1>2, <1>3, Korakom
  <2> QED  BY <1>3, <2>1
<1>5. PICK g \in [SUBSET S -> X] : Je(N, g)  BY <1>4, SlojeviSlazu DEF T
<1>6. PoPodskupovima(S, X, b, c, F, g)  BY <1>5, SlojeviSlazu DEF PoPodskupovima
<1> QED  BY <1>6 DEF ImaPodskupove

-----------------------------------------------------------------------------
(* Signing *)

\* A decision about a record: its rights are of the kind of the record.
LEMMA PotpisiUredno ==
    ASSUME IsFiniteSet(Napisano), NEW n \in Cvor, NEW t \in Uredne(n), NEW z \in Zapis \cup {Mreza},
           NEW o \in Nat, NEW odluka \in {"potvrdeno", "odbijeno"},
           NEW prava \in PravaRacuna \cup PravaDuznosti \cup {Nema}, z \in Zapis => prava \in PravaZapisa(z)
    PROVE  Potpisi(t, n, z, o, odluka, prava) \in Potpisano(n, t)
<1> DEFINE x == [oznaka |-> Sljedeca(t), autor |-> n, zapis |-> z, verzija |-> o,
                 odluka |-> odluka, prava |-> prava]
           u == Potpisi(t, n, z, o, odluka, prava)
<1>1. t \in Transakcije /\ IsFiniteSet(t.K) /\ IsFiniteSet(t.O)  BY DEF Uredne
<1>2. Sljedeca(t) \in Nat
  <2>1. IsFiniteSet(Napisano \cup t.K)  BY <1>1, FS_Union
  <2>2. IsFiniteSet(Napisano \cup t.K \cup t.O)  BY <1>1, <2>1, FS_Union
  <2> QED  BY <2>2, FS_CardinalityType DEF Sljedeca
<1>3. x \in Odluke  BY <1>2 DEF Odluke
<1>4. DobraOdluka(x) /\ x.autor = n  BY DEF DobraOdluka
<1>5. u = [t EXCEPT !.O = @ \cup {x}]  BY DEF Potpisi
<1> HIDE DEF x, u
<1>6. u \in Transakcije  BY <1>1, <1>3, <1>5 DEF Transakcije
<1>7. /\ u.K = t.K /\ u.O = t.O \cup {x} /\ u.vl = t.vl /\ u.p = t.p /\ u.palo = t.palo /\ u.ceka = t.ceka
  BY <1>1, <1>5 DEF Transakcije
<1>8. IsFiniteSet(u.O)
  <2>1. IsFiniteSet(t.O \cup {x})  BY <1>1, FS_AddElement
  <2> QED  BY <1>7, <2>1
<1>9. \A y \in Zapis : DobraPrava(n, t, y) \subseteq DobraPrava(n, u, y)
  BY <1>7 DEF DobraPrava, ImaPodlogu, OdlukeZapisa
<1>10. \A y \in Zapis : RedStoji(n, u, y)
  BY <1>7, <1>9 DEF Uredne, RedStoji
<1>11. u \in Uredne(n)  BY <1>1, <1>4, <1>6, <1>7, <1>8, <1>10 DEF Uredne
<1>12. u \in Potpisano(n, t)  BY <1>4, <1>7, <1>11 DEF Potpisano
<1> QED  BY <1>12 DEF u

LEMMA PolazisteUredno ==
    ASSUME IsFiniteSet(Napisano), NEW n \in Cvor, NEW t \in Uredne(n), NEW z \in Zapis
    PROVE  PotpisiPolaziste(t, n, z) \in Potpisano(n, t)
<1> DEFINE o == Kasnija(Polaziste(t, z)).oznaka
           u == Potpisi(t, n, z, o, "potvrdeno", t.p[z].prava)
           nista == \/ Mjerodavno(t.O, z) \/ t.p[z] = Nema
                    \/ IzracunajStanje(t.p, VerzijeZapisa(t.K, z), {}, {}).prava = t.p[z].prava
                    \/ Polaziste(t, z) = {}
<1>1. PotpisiPolaziste(t, n, z) = IF nista THEN t ELSE u  BY DEF PotpisiPolaziste
<1>2. CASE nista  BY <1>1, <1>2, PotpisanoSvoje
<1>3. CASE ~nista
  <2>1. t.p[z] # Nema /\ Polaziste(t, z) # {}  BY <1>3
  <2>2. Polaziste(t, z) \in SUBSET Verzija  BY DEF Uredne, Transakcije, Polaziste, VerzijeZapisa
  <2>3. o \in Nat  BY <2>1, <2>2, ZadnjaUnutra, VerzijaPolja
  <2>4. t.p[z].prava \in PravaZapisa(z)  BY <2>1 DEF Uredne, RedStoji, DobraPrava
  <2>5. t.p[z].prava \in PravaRacuna \cup PravaDuznosti \cup {Nema}  BY <2>4 DEF PravaZapisa
  <2> HIDE DEF o
  <2>6. u \in Potpisano(n, t)  BY <2>3, <2>4, <2>5, PotpisiUredno
  <2> HIDE DEF u, nista
  <2> QED  BY <1>1, <1>3, <2>6
<1> QED  BY <1>2, <1>3

LEMMA VlastitaUredno ==
    ASSUME IsFiniteSet(Napisano), NEW n \in Cvor, NEW t \in Uredne(n), NEW z \in Zapis
    PROVE  PotpisiVlastitu(t, n, z) \in Potpisano(n, t)
<1> DEFINE s == StanjeDrugdje(t, z)
           svoje == {v \in VerzijeZapisa(t.K, z) : v.oznaka \in t.vl /\ v.oznaka > s.tocka}
           v == Kasnija(svoje)
           u == Potpisi(t, n, z, v.oznaka, "potvrdeno", v.prava)
           potpisuje == svoje # {} /\ s.ishod[v.oznaka] \in {"ceka", "zamijenjeno"}
<1>1. PotpisiVlastitu(t, n, z) = IF potpisuje THEN u ELSE t  BY DEF PotpisiVlastitu
<1>2. CASE ~potpisuje  BY <1>1, <1>2, PotpisanoSvoje
<1>3. CASE potpisuje
  <2>1. svoje \in SUBSET Verzija  BY DEF Uredne, Transakcije, VerzijeZapisa
  <2>2. \A w \in svoje : w.zapis = z  BY DEF VerzijeZapisa
  <2>3. svoje # {}  BY <1>3
  <2> HIDE DEF svoje
  <2>4. v \in Verzija /\ v.zapis = z  BY <2>1, <2>2, <2>3, ZadnjaUnutra
  <2> HIDE DEF v
  <2>5. u \in Potpisano(n, t)  BY <2>4, VerzijaPolja, PotpisiUredno
  <2> HIDE DEF potpisuje, u
  <2> QED  BY <1>1, <1>3, <2>5
<1> QED  BY <1>2, <1>3

LEMMA PotpisiZapisUredno ==
    ASSUME IsFiniteSet(Napisano), NEW n \in Cvor, NEW t \in Uredne(n), NEW z \in Zapis
    PROVE  PotpisiZapis(t, n, z) \in Potpisano(n, t)
<1> DEFINE w == PotpisiPolaziste(t, n, z)
           u == PotpisiVlastitu(w, n, z)
<1>1. w \in Potpisano(n, t)  BY PolazisteUredno
<1>2. PotpisiZapis(t, n, z) \in {t, ObnoviZapis(u, z)}  BY DEF PotpisiZapis
<1> HIDE DEF w
<1>3. w \in Uredne(n)  BY <1>1 DEF Potpisano
<1>4. u \in Potpisano(n, w)  BY <1>3, VlastitaUredno
<1> HIDE DEF u
<1>5. u \in Uredne(n)  BY <1>4 DEF Potpisano
<1>6. ObnoviZapis(u, z) \in Nastavak(n, u)  BY <1>5, ObnoviUredno
<1> QED  BY <1>1, <1>2, <1>4, <1>6, PotpisanoSlozeno, PotpisanoSvoje

\* The two rounds of PotpisiSve over the records of the ledger.
PotpisiZapise(t, n, Z) ==
    MapThenFoldSet(LAMBDA z, u : PotpisiZapis(u, n, z), t, LAMBDA z : z, Zadnji, Z)
ObnoviZapise(t, Z) ==
    MapThenFoldSet(LAMBDA z, u : ObnoviZapis(u, z), t, LAMBDA z : z, Zadnji, Z)

Birac(Z) == [s \in SUBSET Z |-> IF s = {} THEN {} ELSE Zadnji(s)]

LEMMA BiracBira ==
    ASSUME NEW Z
    PROVE  /\ Birac(Z) \in Biraci(Z)
           /\ \A s \in SUBSET Z : s # {} => Birac(Z)[s] = Zadnji(s) /\ Zadnji(s) \in s
<1>1. ASSUME NEW s \in SUBSET Z, s # {}  PROVE Birac(Z)[s] = Zadnji(s) /\ Zadnji(s) \in s
  <2>1. \E z \in s : z \in Duznost \/ s \cap Duznost = {}  BY <1>1
  <2>2. Zadnji(s) \in s  BY <2>1 DEF Zadnji
  <2> QED  BY <1>1, <2>2 DEF Birac
<1>2. Birac(Z) \in [SUBSET Z -> Z \cup {{}}]  BY <1>1 DEF Birac
<1> QED  BY <1>1, <1>2 DEF Biraci

PotpisujeIde(n, t, Z, g) ==
    /\ g \in [SUBSET Z -> Potpisano(n, t)] /\ g[{}] = t
    /\ \A s \in SUBSET Z : s # {} => g[s] = PotpisiZapis(g[s \ {Zadnji(s)}], n, Zadnji(s))
    /\ PotpisiZapise(t, n, Z) = g[Z]

LEMMA PotpisujeSe ==
    ASSUME IsFiniteSet(Napisano), NEW n \in Cvor, NEW t \in Uredne(n), NEW Z \in SUBSET Zapis, IsFiniteSet(Z)
    PROVE  \E g : PotpisujeIde(n, t, Z, g)
<1> DEFINE X == Potpisano(n, t)
           c == Birac(Z)
           Tijelo(f, s) == IF s = {} THEN t ELSE PotpisiZapis(f[s \ {Zadnji(s)}], n, Zadnji(s))
           iter == CHOOSE f : f = [s \in SUBSET Z |-> Tijelo(f, s)]
           F == [x \in X \X Z |-> PotpisiZapis(x[1], n, x[2])]
<1>1. c \in Biraci(Z) /\ \A s \in SUBSET Z : s # {} => c[s] = Zadnji(s) /\ Zadnji(s) \in s
  BY BiracBira
<1>2. PotpisiZapise(t, n, Z) = iter[Z]  BY DEF PotpisiZapise, MapThenFoldSet
<1>3. ASSUME NEW u \in X, NEW z \in Z  PROVE PotpisiZapis(u, n, z) \in X
  <2>1. u \in Uredne(n) /\ z \in Zapis  BY DEF Potpisano
  <2>2. PotpisiZapis(u, n, z) \in Potpisano(n, u)  BY <2>1, PotpisiZapisUredno
  <2> QED  BY <2>2, PotpisanoSlozeno
<1>4. t \in X  BY PotpisanoSvoje
<1> HIDE DEF X, c, Tijelo
<1>5. F \in [X \X Z -> X]  BY <1>3
<1>6. PICK g \in [SUBSET Z -> X] : /\ g[{}] = t
                                   /\ \A s \in SUBSET Z : s # {} => g[s] = F[<<g[s \ {c[s]}], c[s]>>]
  <2> HIDE DEF F
  <2>1. ImaPodskupove(Z, X, t, c, F)  BY <1>1, <1>4, <1>5, RekurzijaPoSkupovima
  <2> QED  BY <2>1 DEF ImaPodskupove, PoPodskupovima
<1>7. ASSUME NEW s \in SUBSET Z, s # {}  PROVE g[s] = PotpisiZapis(g[s \ {Zadnji(s)}], n, Zadnji(s))
  <2>1. c[s] = Zadnji(s) /\ Zadnji(s) \in Z /\ s \ {Zadnji(s)} \in SUBSET Z  BY <1>1, <1>7
  <2>2. g[s \ {Zadnji(s)}] \in X  BY <2>1
  <2>3. g[s] = F[<<g[s \ {Zadnji(s)}], Zadnji(s)>>]
    <3> HIDE DEF F
    <3> QED  BY <1>6, <1>7, <2>1
  <2> QED  BY <2>1, <2>2, <2>3
<1>8. ASSUME NEW s \in SUBSET Z  PROVE g[s] = Tijelo(g, s)
  BY <1>6, <1>7 DEF Tijelo
<1>9. g = [s \in SUBSET Z |-> Tijelo(g, s)]
  <2> HIDE DEF F
  <2> QED  BY <1>8
<1>10. iter = [s \in SUBSET Z |-> Tijelo(iter, s)]  BY <1>9
<1> HIDE DEF iter, F
<1> DEFINE T == {s \in SUBSET Z : iter[s] = g[s]}
<1>11. {} \in T  BY <1>6, <1>10 DEF Tijelo
<1>12. ASSUME NEW s \in SUBSET Z, s # {}, s \ {c[s]} \in T  PROVE s \in T
  <2>1. c[s] = Zadnji(s)  BY <1>1, <1>12
  <2>2. iter[s \ {Zadnji(s)}] = g[s \ {Zadnji(s)}]  BY <1>12, <2>1
  <2>3. iter[s] = PotpisiZapis(iter[s \ {Zadnji(s)}], n, Zadnji(s))  BY <1>10, <1>12 DEF Tijelo
  <2>4. iter[s] = g[s]  BY <1>7, <1>12, <2>2, <2>3
  <2> QED  BY <2>4
<1>13. Z \in T
  <2> HIDE DEF T
  <2>1. SUBSET Z \subseteq T  BY <1>1, <1>11, <1>12, PoSkupovima
  <2> QED  BY <2>1
<1>14. PotpisujeIde(n, t, Z, g)
  <2>1. g \in [SUBSET Z -> Potpisano(n, t)]  BY <1>6 DEF X
  <2>2. PotpisiZapise(t, n, Z) = g[Z]  BY <1>2, <1>13
  <2> QED  BY <1>6, <1>7, <2>1, <2>2 DEF PotpisujeIde
<1> QED  BY <1>14

ObnavljaIde(n, t, Z, g) ==
    /\ g \in [SUBSET Z -> Potpisano(n, t)] /\ g[{}] = t
    /\ \A s \in SUBSET Z : s # {} => g[s] = ObnoviZapis(g[s \ {Zadnji(s)}], Zadnji(s))
    /\ ObnoviZapise(t, Z) = g[Z]

LEMMA ObnavljaSe ==
    ASSUME NEW n, NEW t \in Uredne(n), NEW Z \in SUBSET Zapis, IsFiniteSet(Z)
    PROVE  \E g : ObnavljaIde(n, t, Z, g)
<1> DEFINE X == Potpisano(n, t)
           c == Birac(Z)
           Tijelo(f, s) == IF s = {} THEN t ELSE ObnoviZapis(f[s \ {Zadnji(s)}], Zadnji(s))
           iter == CHOOSE f : f = [s \in SUBSET Z |-> Tijelo(f, s)]
           F == [x \in X \X Z |-> ObnoviZapis(x[1], x[2])]
<1>1. c \in Biraci(Z) /\ \A s \in SUBSET Z : s # {} => c[s] = Zadnji(s) /\ Zadnji(s) \in s
  BY BiracBira
<1>2. ObnoviZapise(t, Z) = iter[Z]  BY DEF ObnoviZapise, MapThenFoldSet
<1>3. ASSUME NEW u \in X, NEW z \in Z  PROVE ObnoviZapis(u, z) \in X
  <2>1. u \in Uredne(n) /\ z \in Zapis  BY DEF Potpisano
  <2>2. ObnoviZapis(u, z) \in Nastavak(n, u)  BY <2>1, ObnoviUredno
  <2> QED  BY <2>2, PotpisanoSlozeno
<1>4. t \in X  BY PotpisanoSvoje
<1> HIDE DEF X, c, Tijelo
<1>5. F \in [X \X Z -> X]  BY <1>3
<1>6. PICK g \in [SUBSET Z -> X] : /\ g[{}] = t
                                   /\ \A s \in SUBSET Z : s # {} => g[s] = F[<<g[s \ {c[s]}], c[s]>>]
  <2> HIDE DEF F
  <2>1. ImaPodskupove(Z, X, t, c, F)  BY <1>1, <1>4, <1>5, RekurzijaPoSkupovima
  <2> QED  BY <2>1 DEF ImaPodskupove, PoPodskupovima
<1>7. ASSUME NEW s \in SUBSET Z, s # {}  PROVE g[s] = ObnoviZapis(g[s \ {Zadnji(s)}], Zadnji(s))
  <2>1. c[s] = Zadnji(s) /\ Zadnji(s) \in Z /\ s \ {Zadnji(s)} \in SUBSET Z  BY <1>1, <1>7
  <2>2. g[s \ {Zadnji(s)}] \in X  BY <2>1
  <2>3. g[s] = F[<<g[s \ {Zadnji(s)}], Zadnji(s)>>]
    <3> HIDE DEF F
    <3> QED  BY <1>6, <1>7, <2>1
  <2> QED  BY <2>1, <2>2, <2>3
<1>8. ASSUME NEW s \in SUBSET Z  PROVE g[s] = Tijelo(g, s)
  BY <1>6, <1>7 DEF Tijelo
<1>9. g = [s \in SUBSET Z |-> Tijelo(g, s)]
  <2> HIDE DEF F
  <2> QED  BY <1>8
<1>10. iter = [s \in SUBSET Z |-> Tijelo(iter, s)]  BY <1>9
<1> HIDE DEF iter, F
<1> DEFINE T == {s \in SUBSET Z : iter[s] = g[s]}
<1>11. {} \in T  BY <1>6, <1>10 DEF Tijelo
<1>12. ASSUME NEW s \in SUBSET Z, s # {}, s \ {c[s]} \in T  PROVE s \in T
  <2>1. c[s] = Zadnji(s)  BY <1>1, <1>12
  <2>2. iter[s \ {Zadnji(s)}] = g[s \ {Zadnji(s)}]  BY <1>12, <2>1
  <2>3. iter[s] = ObnoviZapis(iter[s \ {Zadnji(s)}], Zadnji(s))  BY <1>10, <1>12 DEF Tijelo
  <2>4. iter[s] = g[s]  BY <1>7, <1>12, <2>2, <2>3
  <2> QED  BY <2>4
<1>13. Z \in T
  <2> HIDE DEF T
  <2>1. SUBSET Z \subseteq T  BY <1>1, <1>11, <1>12, PoSkupovima
  <2> QED  BY <2>1
<1>14. ObnavljaIde(n, t, Z, g)
  <2>1. g \in [SUBSET Z -> Potpisano(n, t)]  BY <1>6 DEF X
  <2>2. ObnoviZapise(t, Z) = g[Z]  BY <1>2, <1>13
  <2> QED  BY <1>6, <1>7, <2>1, <2>2 DEF ObnavljaIde
<1> QED  BY <1>14

LEMMA PotpisiSveUredno ==
    ASSUME IsFiniteSet(Napisano), NEW n \in Cvor, NEW t \in Uredne(n)
    PROVE  PotpisiSve(t, n) \in Potpisano(n, t)
<1> DEFINE Z == ZapisiU(t.K)
           u == PotpisiZapise(t, n, Z)
           w == Potpisi(u, n, Mreza, 0, "potvrdeno", Nema)
           x == ObnoviZapise(w, Z)
<1>1. Z \in SUBSET Zapis /\ IsFiniteSet(Z)
  <2>1. IsFiniteSet(t.K) /\ t.K \subseteq Verzija  BY DEF Uredne, Transakcije
  <2>2. Z = {v.zapis : v \in t.K}  BY DEF ZapisiU
  <2>3. IsFiniteSet(Z)
    <3> DEFINE f == [v \in t.K |-> v.zapis]
    <3>1. f \in Surjection(t.K, Z)  BY <2>2 DEF Surjection
    <3> QED  BY <2>1, <3>1, FS_Surjection
  <2> QED  BY <2>1, <2>2, <2>3, VerzijaPolja
<1>2. PotpisiSve(t, n) = IF PrijelazGotov(u.O) THEN u ELSE x
  BY DEF PotpisiSve, DovrsiPrijelaz, PotpisiZapise, ObnoviZapise, ZapisiU
<1> HIDE DEF Z
<1>3. u \in Potpisano(n, t)
  <2>1. PICK g : PotpisujeIde(n, t, Z, g)  BY <1>1, PotpisujeSe
  <2> QED  BY <2>1 DEF PotpisujeIde
<1> HIDE DEF u
<1>4. u \in Uredne(n)  BY <1>3 DEF Potpisano
<1>5. w \in Potpisano(n, u)
  <2>1. Mreza \notin Zapis  BY PravaPretpostavka
  <2> QED  BY <1>4, <2>1, PotpisiUredno
<1> HIDE DEF w
<1>6. w \in Uredne(n)  BY <1>5 DEF Potpisano
<1>7. x \in Potpisano(n, w)
  <2>1. PICK g : ObnavljaIde(n, w, Z, g)  BY <1>1, <1>6, ObnavljaSe
  <2> QED  BY <2>1 DEF ObnavljaIde
<1> HIDE DEF x
<1> QED  BY <1>2, <1>3, <1>5, <1>7, PotpisanoSlozeno

-----------------------------------------------------------------------------
(* The invariant of the specification *)

Osnova ==
    /\ knjiga \in [Cvor -> SUBSET Verzija] /\ odluke \in [Cvor -> SUBSET Odluke]
    /\ vlastite \in [Cvor -> SUBSET Oznake] /\ povrsina \in [Cvor -> Povrsine]
    /\ popis \in [Cvor -> Popisi] /\ nedovrseni \in [Cvor -> SUBSET Zapis]
    /\ kljuc \subseteq Cvor

Vlastito(n, K, vl) == vl \subseteq {v.oznaka : v \in {w \in K : w.autor = n}}

CvorUredan(n) ==
    /\ Transakcija(n) \in Uredne(n)
    /\ Vlastito(n, knjiga[n], vlastite[n])
    /\ \A x \in odluke[n] : x.autor \in kljuc
    /\ nedovrseni[n] \subseteq ZapisiU(knjiga[n])

Uredeno ==
    /\ Osnova
    /\ IsFiniteSet(Napisano)
    /\ \A n \in Cvor : CvorUredan(n)

\* The types and the support of every flag are parts of it.
LEMMA UredenoDaje ==
    ASSUME Uredeno
    PROVE  TypeOK /\ ZastavicaSPodlogom
<1>1. ASSUME NEW n \in Cvor, NEW z \in Zapis, povrsina[n][z] # Nema
      PROVE  /\ povrsina[n][z].prava \in PravaZapisa(z)
             /\ \E v \in VerzijeZapisa(knjiga[n], z) : v.oznaka = povrsina[n][z].oznaka
             /\ z \in Duznost => povrsina[n][Vlasnik[z]] # Nema
             /\ z \in Racun /\ povrsina[n][z].prava.zastavica => ImaPodlogu(n, Transakcija(n), z)
  <2>1. RedStoji(n, Transakcija(n), z)  BY DEF Uredeno, CvorUredan, Uredne
  <2>2. Transakcija(n).p = povrsina[n] /\ Transakcija(n).K = knjiga[n]  BY DEF Transakcija
  <2> QED  BY <1>1, <2>1, <2>2 DEF RedStoji, DobraPrava, OznakeU
<1>2. TypeOK
  <2>1. \A d \in Duznost : d \in Zapis  BY DEF Zapis
  <2> QED  BY <1>1, <2>1 DEF TypeOK, Uredeno, Osnova, CvorUredan, Vlastito
<1>3. ZastavicaSPodlogom
  <2> SUFFICES ASSUME NEW n \in Cvor, NEW r \in Racun, povrsina[n][r] # Nema,
                      povrsina[n][r].prava.zastavica
               PROVE  \/ \E v \in VerzijeZapisa(knjiga[n], r) :
                            v.prava.zastavica /\ (v.oznaka \in vlastite[n] \/ v \in PocetnaKnjiga[n])
                      \/ \E x \in OdlukeZapisa(odluke[n], r) : x.odluka = "potvrdeno" /\ x.prava.zastavica
    BY DEF ZastavicaSPodlogom
  <2>1. ImaPodlogu(n, Transakcija(n), r)  BY <1>1 DEF Zapis
  <2> QED  BY <2>1 DEF ImaPodlogu, Transakcija
<1> QED  BY <1>2, <1>3

LEMMA PocetakUreden ==
    ASSUME Init
    PROVE  Uredeno
<1>1. ASSUME NEW n \in Cvor, NEW z \in Zapis, VerzijeZapisa(knjiga[n], z) # {}
      PROVE  /\ Zadnja(knjiga[n], z) \in knjiga[n] /\ Zadnja(knjiga[n], z).zapis = z
             /\ Zadnja(knjiga[n], z) \in Verzija /\ Zadnja(knjiga[n], z) \in PocetnaKnjiga[n]
             /\ Red(Zadnja(knjiga[n], z).oznaka, Zadnja(knjiga[n], z).prava) \in Redovi
  <2>1. knjiga[n] \in SUBSET Verzija /\ knjiga[n] = PocetnaKnjiga[n]  BY PravaPretpostavka DEF Init
  <2>2. z \in ZapisiU(knjiga[n])  BY <1>1 DEF VerzijeZapisa, ZapisiU
  <2>3. Zadnja(knjiga[n], z) \in knjiga[n] /\ Zadnja(knjiga[n], z).zapis = z  BY <2>1, <2>2, ZadnjaIzKnjige
  <2> QED  BY <2>1, <2>3, VerzijaPolja DEF Red, Redovi
<1>2. Osnova
  <2>1. povrsina \in [Cvor -> Povrsine]  BY <1>1 DEF Init, Povrsine
  <2>2. popis \in [Cvor -> Popisi]  BY DEF Init, Popisi, Ishodi
  <2> QED  BY <2>1, <2>2, PravaPretpostavka DEF Init, Osnova
<1>3. IsFiniteSet(Napisano)
  <2>1. Napisano = UNION {PocetnaKnjiga[n] : n \in Cvor}  BY DEF Init, Napisano
  <2> QED  BY <2>1, PravaPretpostavka
<1>4. ASSUME NEW n \in Cvor  PROVE CvorUredan(n)
  <2> DEFINE t == Transakcija(n)
  <2>1. /\ t.K = knjiga[n] /\ t.O = {} /\ t.vl = {} /\ t.p = povrsina[n] /\ t.palo = {} /\ t.ceka = {}
    BY DEF Transakcija, Init
  <2>2. t \in Transakcije  BY <1>2 DEF Osnova, Transakcija, Transakcije
  <2>3. IsFiniteSet(t.K) /\ IsFiniteSet(t.O)
    <3>1. knjiga[n] \subseteq Napisano  BY DEF Napisano
    <3> QED  BY <1>3, <2>1, <3>1, FS_Subset, FS_EmptySet
  <2> HIDE DEF t
  <2>4. ASSUME NEW z \in Zapis, t.p[z] # Nema  PROVE RedStoji(n, t, z)
    <3> DEFINE v == Zadnja(knjiga[n], z)
    <3>1. VerzijeZapisa(knjiga[n], z) # {} /\ t.p[z] = Red(v.oznaka, v.prava)  BY <2>1, <2>4 DEF Init
    <3>2. v \in knjiga[n] /\ v.zapis = z /\ v \in Verzija /\ v \in PocetnaKnjiga[n]  BY <1>1, <3>1
    <3> HIDE DEF v
    <3>3. t.p[z].oznaka = v.oznaka /\ t.p[z].prava = v.prava  BY <3>1 DEF Red
    <3>4. v.prava \in DobraPrava(n, t, z)
      BY <2>1, <3>2, VerzijaPolja DEF DobraPrava, ImaPodlogu, VerzijeZapisa
    <3>5. ASSUME z \in Duznost  PROVE t.p[Vlasnik[z]] # Nema
      <4> DEFINE r == Vlasnik[z]
      <4>1. r \in Zapis  BY <3>5, PravaPretpostavka DEF Zapis
      <4>2. VerzijeZapisa(knjiga[n], r) # {}
        <5>1. \E w \in PocetnaKnjiga[n] : w.zapis = r  BY <3>2, <3>5, PravaPretpostavka
        <5> QED  BY <5>1 DEF Init, VerzijeZapisa
      <4> HIDE DEF r
      <4>3. Red(Zadnja(knjiga[n], r).oznaka, Zadnja(knjiga[n], r).prava) \in Redovi  BY <1>1, <4>1, <4>2
      <4>4. t.p[r] \in Redovi  BY <2>1, <4>1, <4>2, <4>3 DEF Init
      <4> QED  BY <4>4, PravaPretpostavka DEF Redovi, r
    <3> QED  BY <2>1, <3>2, <3>3, <3>4, <3>5 DEF RedStoji, OznakeU, VerzijeZapisa
  <2>5. t \in Uredne(n)  BY <2>1, <2>2, <2>3, <2>4 DEF Uredne, RedStoji
  <2> QED  BY <2>5 DEF CvorUredan, Vlastito, Init, t
<1> QED  BY <1>2, <1>3, <1>4 DEF Uredeno

\* A node's transaction that ends well keeps the invariant.
LEMMA IshodCuva ==
    ASSUME Uredeno, NEW n \in Cvor, NEW t \in Uredne(n), NEW ned \in SUBSET ZapisiU(t.K),
           Ishod(n, t, ned), kljuc \subseteq kljuc', kljuc' \subseteq Cvor,
           Vlastito(n, t.K, t.vl), \A x \in t.O : x.autor \in kljuc'
    PROVE  Uredeno'
<1>1. t \in Transakcije  BY DEF Uredne
<1>2. /\ t.K \in SUBSET Verzija /\ t.O \in SUBSET Odluke /\ t.vl \in SUBSET Oznake
      /\ t.p \in Povrsine /\ t.q \in Popisi
  BY <1>1 DEF Transakcije
<1>3. ned \in SUBSET Zapis  BY <1>2, VerzijaPolja DEF ZapisiU
<1>4. /\ knjiga' = [knjiga EXCEPT ![n] = t.K] /\ odluke' = [odluke EXCEPT ![n] = t.O]
      /\ vlastite' = [vlastite EXCEPT ![n] = t.vl] /\ povrsina' = [povrsina EXCEPT ![n] = t.p]
      /\ popis' = [popis EXCEPT ![n] = t.q] /\ nedovrseni' = [nedovrseni EXCEPT ![n] = ned]
  BY DEF Ishod
<1>5. Osnova'  BY <1>2, <1>3, <1>4 DEF Uredeno, Osnova
<1>6. \A m \in Cvor :
         IF m = n
         THEN /\ knjiga'[m] = t.K /\ odluke'[m] = t.O /\ vlastite'[m] = t.vl
              /\ povrsina'[m] = t.p /\ popis'[m] = t.q /\ nedovrseni'[m] = ned
         ELSE /\ knjiga'[m] = knjiga[m] /\ odluke'[m] = odluke[m] /\ vlastite'[m] = vlastite[m]
              /\ povrsina'[m] = povrsina[m] /\ popis'[m] = popis[m] /\ nedovrseni'[m] = nedovrseni[m]
  BY <1>4 DEF Uredeno, Osnova
<1>7. IsFiniteSet(Napisano')
  <2>1. Napisano' \subseteq Napisano \cup t.K \cup t.O  BY <1>6 DEF Napisano
  <2>2. IsFiniteSet(Napisano \cup t.K)  BY FS_Union DEF Uredeno, Uredne
  <2>3. IsFiniteSet(Napisano \cup t.K \cup t.O)  BY <2>2, FS_Union DEF Uredne
  <2> QED  BY <2>1, <2>3, FS_Subset
<1>8. ASSUME NEW m \in Cvor  PROVE CvorUredan(m)'
  <2>1. CASE m = n
    <3> DEFINE u == [t EXCEPT !.proslo = {}, !.palo = {}, !.ceka = {}]
    <3>1. u \in Nastavak(n, t)  BY BiljeskeUredno
    <3>2. u \in Uredne(n)  BY <3>1 DEF Nastavak
    <3>3. u = [K |-> t.K, O |-> t.O, vl |-> t.vl, p |-> t.p, q |-> t.q,
               proslo |-> {}, palo |-> {}, ceka |-> {}]
      <4>1. /\ u.K = t.K /\ u.O = t.O /\ u.vl = t.vl /\ u.p = t.p /\ u.q = t.q
            /\ u.proslo = {} /\ u.palo = {} /\ u.ceka = {}
        BY <1>1 DEF Transakcije
      <4> HIDE DEF u
      <4>2. u \in Transakcije  BY <3>2 DEF Uredne
      <4> QED  BY <4>1, <4>2, TransakcijaPolja
    <3> HIDE DEF u
    <3>4. Transakcija(n)' = u  BY <1>6, <3>3 DEF Transakcija
    <3> QED  BY <1>6, <2>1, <3>2, <3>4 DEF CvorUredan
  <2>2. CASE m # n
    <3>1. Transakcija(m)' = Transakcija(m)  BY <1>6, <2>2 DEF Transakcija
    <3>2. CvorUredan(m)  BY DEF Uredeno
    <3> QED  BY <1>6, <2>2, <3>1, <3>2 DEF CvorUredan
  <2> QED  BY <2>1, <2>2
<1> QED  BY <1>5, <1>7, <1>8 DEF Uredeno

\* An own write.
Napisana(n, z, prava) ==
    [oznaka |-> Sljedeca(Transakcija(n)), autor |-> n, zapis |-> z, prava |-> prava]

LEMMA UKnjiguUredno ==
    ASSUME Uredeno, NEW n \in Cvor, NEW z \in Zapis, NEW prava \in PravaZapisa(z),
           Cardinality(Napisano) < ZadnjaOznaka,
           z \in Duznost => povrsina[n][Vlasnik[z]] # Nema
    PROVE  /\ Napisana(n, z, prava) \in Verzija
           /\ Napisana(n, z, prava).oznaka = Cardinality(Napisano) + 1
           /\ Napisana(n, z, prava).zapis = z
           /\ UKnjigu(n, z, prava) \in Uredne(n)
           /\ UKnjigu(n, z, prava).K = knjiga[n] \cup {Napisana(n, z, prava)}
           /\ UKnjigu(n, z, prava).O = odluke[n]
           /\ UKnjigu(n, z, prava).vl = vlastite[n] \cup {Cardinality(Napisano) + 1}
           /\ Vlastito(n, UKnjigu(n, z, prava).K, UKnjigu(n, z, prava).vl)
<1> DEFINE o == Sljedeca(Transakcija(n))
           v == Napisana(n, z, prava)
           p == [povrsina[n] EXCEPT ![z] = Red(o, prava)]
           t0 == Transakcija(n)
           t == UKnjigu(n, z, prava)
<1>0. v = [oznaka |-> o, autor |-> n, zapis |-> z, prava |-> prava]  BY DEF Napisana
<1>1. t0 \in Uredne(n) /\ t0 \in Transakcije /\ Vlastito(n, knjiga[n], vlastite[n])
  BY DEF Uredeno, CvorUredan, Uredne
<1>2. /\ t0.K = knjiga[n] /\ t0.O = odluke[n] /\ t0.vl = vlastite[n] /\ t0.p = povrsina[n]
      /\ t0.q = popis[n] /\ t0.palo = {} /\ t0.ceka = {} /\ t0.proslo = {}
  BY DEF Transakcija
<1>3. o = Cardinality(Napisano) + 1
  <2>1. Napisano \cup t0.K \cup t0.O = Napisano  BY <1>2 DEF Napisano
  <2> QED  BY <2>1 DEF Sljedeca
<1>4. o \in Oznake
  <2>1. Cardinality(Napisano) \in Nat  BY FS_CardinalityType DEF Uredeno
  <2> QED  BY <1>3, <2>1, PravaPretpostavka DEF Oznake
<1> HIDE DEF o
<1>5. v \in Verzija  BY <1>0, <1>4 DEF Verzija
<1>6. t = [t0 EXCEPT !.K = @ \cup {v}, !.vl = @ \cup {o}, !.p[z] = Red(o, prava)]
  BY DEF UKnjigu, Napisana, o
<1>7. Red(o, prava) \in Redovi /\ Red(o, prava) # Nema
  <2>1. prava \in PravaRacuna \cup PravaDuznosti  BY DEF PravaZapisa
  <2> QED  BY <1>4, <2>1, PravaPretpostavka DEF Red, Redovi
<1>8. p \in Povrsine  BY <1>1, <1>2, <1>7 DEF Transakcije, Povrsine
<1> HIDE DEF v, t, t0
<1>9. t \in Transakcije
  <2>1. p = [t0.p EXCEPT ![z] = Red(o, prava)]  BY <1>2
  <2> HIDE DEF p
  <2> QED  BY <1>1, <1>4, <1>5, <1>6, <1>8, <2>1 DEF Transakcije
<1>10. /\ t.K = t0.K \cup {v} /\ t.O = t0.O /\ t.vl = t0.vl \cup {o} /\ t.p = p
       /\ t.q = t0.q /\ t.palo = {} /\ t.ceka = {}
  BY <1>1, <1>2, <1>6 DEF Transakcije
<1> HIDE DEF p
<1>11. v.oznaka = o /\ v.autor = n /\ v.zapis = z /\ v.prava = prava  BY <1>0
<1>12. IsFiniteSet(t.K) /\ IsFiniteSet(t.O)
  <2>1. IsFiniteSet(t0.K) /\ IsFiniteSet(t0.O)  BY <1>1 DEF Uredne
  <2>2. IsFiniteSet(t0.K \cup {v})  BY <2>1, FS_AddElement
  <2> QED  BY <1>10, <2>1, <2>2
<1>13. \A y \in Zapis : DobraPrava(n, t0, y) \subseteq DobraPrava(n, t, y)
  BY <1>10 DEF DobraPrava, ImaPodlogu, VerzijeZapisa, OdlukeZapisa
<1>14. ASSUME NEW y \in Zapis, t.p[y] # Nema  PROVE RedStoji(n, t, y)
  <2>1. \A w \in Zapis : t0.p[w] # Nema => t.p[w] # Nema
    BY <1>1, <1>2, <1>7, <1>10 DEF p, Transakcije, Povrsine
  <2>2. y \in Duznost => Vlasnik[y] \in Zapis  BY PravaPretpostavka DEF Zapis
  <2>3. CASE y = z
    <3>1. t.p[y] = Red(o, prava)  BY <1>1, <1>2, <1>10, <2>3 DEF p, Transakcije, Povrsine
    <3>2. t.p[y].prava = prava /\ t.p[y].oznaka = o  BY <3>1 DEF Red
    <3>3. prava \in DobraPrava(n, t, z)
      BY <1>10, <1>11 DEF DobraPrava, ImaPodlogu, VerzijeZapisa
    <3>4. o \in OznakeU(VerzijeZapisa(t.K, z))
      BY <1>10, <1>11 DEF OznakeU, VerzijeZapisa
    <3>5. y \in Duznost => t.p[Vlasnik[y]] # Nema  BY <1>2, <2>1, <2>2, <2>3
    <3> QED  BY <2>3, <3>2, <3>3, <3>4, <3>5 DEF RedStoji
  <2>4. CASE y # z
    <3>1. t.p[y] = t0.p[y]  BY <1>1, <1>2, <1>10, <2>4 DEF p, Transakcije, Povrsine
    <3>2. RedStoji(n, t0, y) /\ t0.p[y] # Nema  BY <1>1, <1>14, <3>1 DEF Uredne
    <3>3. OznakeU(VerzijeZapisa(t0.K, y)) \subseteq OznakeU(VerzijeZapisa(t.K, y))
      BY <1>10 DEF OznakeU, VerzijeZapisa
    <3> QED  BY <1>13, <2>1, <2>2, <3>1, <3>2, <3>3 DEF RedStoji
  <2> QED  BY <2>3, <2>4
<1>15. t \in Uredne(n)
  <2>1. \A x \in t.O : DobraOdluka(x)  BY <1>1, <1>10 DEF Uredne
  <2> QED  BY <1>9, <1>10, <1>12, <1>14, <2>1 DEF Uredne, RedStoji
<1>16. Vlastito(n, t.K, t.vl)  BY <1>1, <1>2, <1>10, <1>11 DEF Vlastito
<1>17. /\ t.K = knjiga[n] \cup {v} /\ t.O = odluke[n] /\ t.vl = vlastite[n] \cup {o}
       /\ t.p = p /\ t.q = popis[n]
  BY <1>2, <1>10
<1> QED  BY <1>3, <1>5, <1>11, <1>15, <1>16, <1>17 DEF v, t, p

\* Every node's transaction is one of these, and ends by signing on a node with
\* the key or by computing rights.
LEMMA PotpisanoCuva ==
    ASSUME Uredeno, NEW n \in Cvor, NEW t \in Uredne(n), NEW u \in Potpisano(n, t),
           NEW ned \in SUBSET ZapisiU(t.K), Ishod(n, u, ned), kljuc \subseteq kljuc', kljuc' \subseteq Cvor,
           Vlastito(n, t.K, t.vl), \A x \in t.O : x.autor \in kljuc', u.O = t.O \/ n \in kljuc'
    PROVE  Uredeno'
<1>1. u \in Uredne(n) /\ u.K = t.K /\ u.vl = t.vl  BY DEF Potpisano
<1>2. \A x \in u.O : x.autor \in kljuc'  BY DEF Potpisano
<1> QED  BY <1>1, <1>2, IshodCuva

\* The node's own transaction, with nothing written.
LEMMA TransakcijaUredna ==
    ASSUME Uredeno, NEW n \in Cvor
    PROVE  LET t == Transakcija(n)
           IN  /\ t \in Uredne(n) /\ t.K = knjiga[n] /\ t.O = odluke[n] /\ t.vl = vlastite[n]
               /\ t.p = povrsina[n] /\ t.q = popis[n] /\ t.palo = {} /\ t.ceka = {}
               /\ Vlastito(n, t.K, t.vl) /\ nedovrseni[n] \in SUBSET ZapisiU(t.K)
               /\ knjiga[n] \in SUBSET Verzija
               /\ \A x \in t.O : x.autor \in kljuc
BY DEF Uredeno, Osnova, CvorUredan, Transakcija

LEMMA PotvrdiUredno ==
    ASSUME Uredeno, NEW n \in Cvor, NEW t \in Uredne(n), NEW v \in t.K
    PROVE  LET u == PotvrdiIzmjenu(t, n, v)
           IN  u \in Potpisano(n, t) /\ (u.O = t.O \/ n \in kljuc)
<1> DEFINE u == PotvrdiIzmjenu(t, n, v)
           w == Potpisi(t, n, v.zapis, v.oznaka, "potvrdeno", v.prava)
           potpisuje == n \in kljuc /\ StanjeDrugdje(t, v.zapis).ishod[v.oznaka] \notin {"", "potvrdeno"}
<1>1. u = IF potpisuje THEN w ELSE t  BY DEF PotvrdiIzmjenu
<1>2. v \in Verzija  BY DEF Uredne, Transakcije
<1>3. w \in Potpisano(n, t)  BY <1>2, VerzijaPolja, PotpisiUredno DEF Uredeno
<1>4. potpisuje => n \in kljuc  OBVIOUS
<1> HIDE DEF w, u, potpisuje
<1>5. u \in Potpisano(n, t) /\ (u.O = t.O \/ n \in kljuc)
  BY <1>1, <1>3, <1>4, PotpisanoSvoje
<1> QED  BY <1>5 DEF u

LEMMA UpisiCuva ==
    ASSUME Uredeno, NEW n \in Cvor, NEW z \in Zapis, NEW prava \in PravaZapisa(z),
           z \in Duznost => povrsina[n][Vlasnik[z]] # Nema, Upisi(n, z, prava)
    PROVE  Uredeno'
<1> DEFINE t == UKnjigu(n, z, prava)
           v == Napisana(n, z, prava)
           w == Zadnja(t.K, z)
           u == PotvrdiIzmjenu(t, n, w)
<1>1. Cardinality(Napisano) < ZadnjaOznaka /\ Ishod(n, u, nedovrseni[n]) /\ kljuc' = kljuc
  BY DEF Upisi
<1>2. t \in Uredne(n) /\ t.K = knjiga[n] \cup {v} /\ v.zapis = z /\ t.O = odluke[n] /\ Vlastito(n, t.K, t.vl)
  BY <1>1, UKnjiguUredno
<1> HIDE DEF t, v
<1>4. w \in t.K
  <2>1. t.K \in SUBSET Verzija  BY <1>2 DEF Uredne, Transakcije
  <2>2. z \in ZapisiU(t.K)  BY <1>2 DEF ZapisiU
  <2> QED  BY <2>1, <2>2, ZadnjaIzKnjige
<1> HIDE DEF w
<1>5. u \in Potpisano(n, t) /\ (u.O = t.O \/ n \in kljuc)  BY <1>2, <1>4, PotvrdiUredno
<1>6. nedovrseni[n] \in SUBSET ZapisiU(t.K)  BY <1>2 DEF Uredeno, CvorUredan, ZapisiU
<1>7. /\ \A x \in t.O : x.autor \in kljuc
      /\ kljuc \subseteq Cvor
  BY <1>2 DEF Uredeno, Osnova, CvorUredan
<1> HIDE DEF u
<1> QED  BY <1>1, <1>2, <1>5, <1>6, <1>7, PotpisanoCuva

LEMMA IzmijeniCuva ==
    ASSUME Uredeno, NEW n \in Cvor, NEW z \in Zapis, NEW prava \in PravaZapisa(z), Izmijeni(n, z, prava)
    PROVE  Uredeno'
<1>1. povrsina[n][z] # Nema /\ Upisi(n, z, prava)  BY DEF Izmijeni
<1>2. z \in Duznost => povrsina[n][Vlasnik[z]] # Nema  BY <1>1, UredenoDaje DEF TypeOK
<1> QED  BY <1>1, <1>2, UpisiCuva

LEMMA NoviCuva ==
    ASSUME Uredeno, NEW n \in Cvor, NEW z \in Zapis, NEW prava \in PravaZapisa(z), Novi(n, z, prava)
    PROVE  Uredeno'
<1>1. Upisi(n, z, prava) /\ (z \in Duznost => povrsina[n][Vlasnik[z]] # Nema)  BY DEF Novi
<1> QED  BY <1>1, UpisiCuva

LEMMA OdluciCuva ==
    ASSUME Uredeno, NEW n \in Cvor, NEW odluka \in {"potvrdeno", "odbijeno"}, NEW v \in knjiga[n],
           OdluciKljucem(n, v, odluka)
    PROVE  Uredeno'
<1> DEFINE t0 == Transakcija(n)
           z == v.zapis
           t == PotpisiPolaziste(t0, n, z)
           u == Potpisi(t, n, z, v.oznaka, odluka, v.prava)
           w == ObnoviZapis(u, z)
<1>1. n \in kljuc /\ kljuc' = kljuc /\ Ishod(n, w, nedovrseni[n])  BY DEF OdluciKljucem
<1>2. /\ t0 \in Uredne(n) /\ Vlastito(n, t0.K, t0.vl) /\ nedovrseni[n] \in SUBSET ZapisiU(t0.K)
      /\ \A x \in t0.O : x.autor \in kljuc
      /\ knjiga[n] \in SUBSET Verzija
  BY TransakcijaUredna
<1>3. v \in Verzija /\ z \in Zapis  BY <1>2, VerzijaPolja
<1>4. IsFiniteSet(Napisano) /\ kljuc \subseteq Cvor  BY DEF Uredeno, Osnova
<1> HIDE DEF t0, z
<1>5. t \in Potpisano(n, t0)  BY <1>2, <1>3, <1>4, PolazisteUredno
<1> HIDE DEF t
<1>6. t \in Uredne(n)  BY <1>5 DEF Potpisano
<1>7. u \in Potpisano(n, t)  BY <1>3, <1>4, <1>6, VerzijaPolja, PotpisiUredno DEF z
<1> HIDE DEF u
<1>8. u \in Uredne(n)  BY <1>7 DEF Potpisano
<1>9. w \in Nastavak(n, u)  BY <1>3, <1>8, ObnoviUredno
<1> HIDE DEF w
<1>10. w \in Potpisano(n, t0)  BY <1>5, <1>7, <1>9, PotpisanoSlozeno
<1> QED  BY <1>1, <1>2, <1>4, <1>10, PotpisanoCuva

LEMMA PotpisiStanjeCuva ==
    ASSUME Uredeno, NEW n \in Cvor, PotpisiStanjePrava(n)
    PROVE  Uredeno'
<1> DEFINE t0 == Transakcija(n)
           t == PotpisiSve(t0, n)
<1>1. n \in kljuc /\ kljuc' = kljuc /\ Ishod(n, t, nedovrseni[n])  BY DEF PotpisiStanjePrava
<1>2. /\ t0 \in Uredne(n) /\ Vlastito(n, t0.K, t0.vl) /\ nedovrseni[n] \in SUBSET ZapisiU(t0.K)
      /\ \A x \in t0.O : x.autor \in kljuc
  BY TransakcijaUredna
<1>3. IsFiniteSet(Napisano) /\ kljuc \subseteq Cvor  BY DEF Uredeno, Osnova
<1> HIDE DEF t0
<1>4. t \in Potpisano(n, t0)  BY <1>2, <1>3, PotpisiSveUredno
<1> HIDE DEF t
<1> QED  BY <1>1, <1>2, <1>3, <1>4, PotpisanoCuva

LEMMA UcitajCuva ==
    ASSUME Uredeno, NEW n \in Cvor, UcitajKopijuKljuca(n)
    PROVE  Uredeno'
<1> DEFINE t0 == Transakcija(n)
           t == PotpisiSve(t0, n)
           u == IF t.ceka = {} THEN t ELSE t0
<1>1. kljuc' = kljuc \cup {n} /\ Ishod(n, u, nedovrseni[n])  BY DEF UcitajKopijuKljuca
<1>2. /\ t0 \in Uredne(n) /\ Vlastito(n, t0.K, t0.vl) /\ nedovrseni[n] \in SUBSET ZapisiU(t0.K)
      /\ \A x \in t0.O : x.autor \in kljuc
  BY TransakcijaUredna
<1>3. IsFiniteSet(Napisano) /\ kljuc \subseteq Cvor  BY DEF Uredeno, Osnova
<1> HIDE DEF t0
<1>4. t \in Potpisano(n, t0)  BY <1>2, <1>3, PotpisiSveUredno
<1> HIDE DEF t
<1>5. u \in Potpisano(n, t0)  BY <1>2, <1>4, PotpisanoSvoje
<1> HIDE DEF u
<1> QED  BY <1>1, <1>2, <1>3, <1>5, PotpisanoCuva

\* A node's transaction with what came from another.
LEMMA PrimljenoUredno ==
    ASSUME Uredeno, NEW n \in Cvor, NEW m \in Cvor, NEW V \in SUBSET knjiga[m], NEW D \in SUBSET odluke[m]
    PROVE  LET t == [Transakcija(n) EXCEPT !.K = @ \cup V, !.O = @ \cup D]
           IN  /\ t \in Uredne(n) /\ t.K = knjiga[n] \cup V /\ t.O = odluke[n] \cup D
               /\ Vlastito(n, t.K, t.vl) /\ nedovrseni[n] \in SUBSET ZapisiU(t.K)
               /\ V \in SUBSET t.K /\ D \in SUBSET Odluke
               /\ \A x \in t.O : x.autor \in kljuc
<1> DEFINE t0 == Transakcija(n)
           t == [t0 EXCEPT !.K = @ \cup V, !.O = @ \cup D]
<1>1. /\ t0 \in Uredne(n) /\ t0.K = knjiga[n] /\ t0.O = odluke[n] /\ t0.vl = vlastite[n]
      /\ Vlastito(n, t0.K, t0.vl) /\ nedovrseni[n] \in SUBSET ZapisiU(t0.K)
      /\ \A x \in t0.O : x.autor \in kljuc
  BY TransakcijaUredna
<1>2. t0 \in Transakcije  BY <1>1 DEF Uredne
<1>3. /\ V \in SUBSET Verzija /\ D \in SUBSET Odluke /\ IsFiniteSet(V) /\ IsFiniteSet(D)
      /\ \A x \in D : DobraOdluka(x) /\ x.autor \in kljuc
  <2>1. Transakcija(m) \in Uredne(m) /\ Transakcija(m).K = knjiga[m] /\ Transakcija(m).O = odluke[m]
    BY TransakcijaUredna
  <2>2. /\ knjiga[m] \in SUBSET Verzija /\ odluke[m] \in SUBSET Odluke
        /\ \A x \in odluke[m] : x.autor \in kljuc
    BY DEF Uredeno, Osnova, CvorUredan
  <2>3. IsFiniteSet(knjiga[m]) /\ IsFiniteSet(odluke[m]) /\ \A x \in odluke[m] : DobraOdluka(x)
    BY <2>1 DEF Uredne
  <2> QED  BY <2>2, <2>3, FS_Subset
<1> HIDE DEF t0
<1>4. t \in Transakcije  BY <1>2, <1>3 DEF Transakcije
<1>5. /\ t.K = t0.K \cup V /\ t.O = t0.O \cup D /\ t.vl = t0.vl /\ t.p = t0.p
      /\ t.palo = t0.palo /\ t.ceka = t0.ceka
  BY <1>2 DEF Transakcije
<1> HIDE DEF t
<1>6. IsFiniteSet(t.K) /\ IsFiniteSet(t.O)
  <2>1. IsFiniteSet(t0.K) /\ IsFiniteSet(t0.O)  BY <1>1 DEF Uredne
  <2>2. IsFiniteSet(t0.K \cup V) /\ IsFiniteSet(t0.O \cup D)  BY <1>3, <2>1, FS_Union
  <2> QED  BY <1>5, <2>2
<1>7. ASSUME NEW z \in Zapis  PROVE RedStoji(n, t, z)
  <2>1. RedStoji(n, t0, z)  BY <1>1 DEF Uredne
  <2>2. DobraPrava(n, t0, z) \subseteq DobraPrava(n, t, z)
    BY <1>5 DEF DobraPrava, ImaPodlogu, VerzijeZapisa, OdlukeZapisa
  <2>3. OznakeU(VerzijeZapisa(t0.K, z)) \subseteq OznakeU(VerzijeZapisa(t.K, z))
    BY <1>5 DEF OznakeU, VerzijeZapisa
  <2> QED  BY <1>5, <2>1, <2>2, <2>3 DEF RedStoji
<1>8. t \in Uredne(n)
  <2>1. \A x \in t.O : DobraOdluka(x)  BY <1>1, <1>3, <1>5 DEF Uredne
  <2>2. t.palo \subseteq ZapisiU(t.K) /\ t.ceka \subseteq ZapisiU(t.K)
    BY <1>1, <1>5 DEF Uredne, ZapisiU
  <2> QED  BY <1>4, <1>6, <1>7, <2>1, <2>2 DEF Uredne
<1>9. Vlastito(n, t.K, t.vl)  BY <1>1, <1>5 DEF Vlastito
<1>10. nedovrseni[n] \in SUBSET ZapisiU(t.K)  BY <1>1, <1>5 DEF ZapisiU
<1>11. \A x \in t.O : x.autor \in kljuc  BY <1>1, <1>3, <1>5
<1>12. t.K = knjiga[n] \cup V /\ t.O = odluke[n] \cup D /\ V \in SUBSET t.K /\ D \in SUBSET Odluke
  BY <1>1, <1>3, <1>5
<1> QED  BY <1>8, <1>9, <1>10, <1>11, <1>12 DEF t, t0

LEMMA PrimijenjenoCuva ==
    ASSUME Uredeno, NEW n \in Cvor, NEW t \in Uredne(n), NEW V \in SUBSET t.K, NEW D \in SUBSET Odluke,
           NEW ned \in SUBSET ZapisiU(t.K), Vlastito(n, t.K, t.vl), \A x \in t.O : x.autor \in kljuc,
           Ishod(n, ApplyVersions(t, V, D, ned), ApplyVersions(t, V, D, ned).ceka), kljuc' = kljuc
    PROVE  Uredeno'
<1> DEFINE w == ApplyVersions(t, V, D, ned)
<1>1. w \in Nastavak(n, t)  BY ApplyVersionsUredno
<1>2. Ishod(n, w, w.ceka)  OBVIOUS
<1> HIDE DEF w
<1>3. w.ceka \in SUBSET ZapisiU(t.K) /\ w.O = t.O  BY <1>1 DEF Nastavak, Uredne
<1>4. w \in Potpisano(n, t)  BY <1>1, PotpisanoSvoje
<1>5. kljuc \subseteq Cvor  BY DEF Uredeno, Osnova
<1> QED  BY <1>2, <1>3, <1>4, <1>5, PotpisanoCuva

LEMMA PrimiCuva ==
    ASSUME Uredeno, NEW n \in Cvor, NEW m \in Cvor, NEW X, Primi(n, m, X)
    PROVE  Uredeno'
<1> DEFINE V == X \cap knjiga[m]
           D == X \cap odluke[m]
           t == [Transakcija(n) EXCEPT !.K = @ \cup V, !.O = @ \cup D]
           w == ApplyVersions(t, V, D, nedovrseni[n])
<1>1. Ishod(n, w, w.ceka) /\ kljuc' = kljuc  BY DEF Primi
<1>2. /\ t \in Uredne(n) /\ Vlastito(n, t.K, t.vl) /\ nedovrseni[n] \in SUBSET ZapisiU(t.K)
      /\ V \in SUBSET t.K /\ D \in SUBSET Odluke
      /\ \A x \in t.O : x.autor \in kljuc
  <2>1. V \in SUBSET knjiga[m] /\ D \in SUBSET odluke[m]  OBVIOUS
  <2> HIDE DEF V, D
  <2> QED  BY <2>1, PrimljenoUredno
<1> HIDE DEF t, V, D
<1> QED  BY <1>1, <1>2, PrimijenjenoCuva

LEMMA PokreniCuva ==
    ASSUME Uredeno, NEW n \in Cvor, Pokreni(n)
    PROVE  Uredeno'
<1> DEFINE t == Transakcija(n)
           w == ApplyVersions(t, knjiga[n], odluke[n], {})
<1>1. Ishod(n, w, w.ceka) /\ kljuc' = kljuc  BY DEF Pokreni
<1>2. /\ t \in Uredne(n) /\ t.K = knjiga[n] /\ Vlastito(n, t.K, t.vl)
      /\ \A x \in t.O : x.autor \in kljuc
  BY TransakcijaUredna
<1>3. odluke[n] \in SUBSET Odluke  BY DEF Uredeno, Osnova
<1> HIDE DEF t
<1> QED  BY <1>1, <1>2, <1>3, PrimijenjenoCuva

LEMMA MirovanjeCuva ==
    ASSUME Uredeno, UNCHANGED vars
    PROVE  Uredeno'
<1>1. /\ kljuc' = kljuc /\ knjiga' = knjiga /\ odluke' = odluke /\ vlastite' = vlastite
      /\ povrsina' = povrsina /\ popis' = popis /\ nedovrseni' = nedovrseni
  BY DEF vars
<1>2. Napisano' = Napisano  BY <1>1 DEF Napisano
<1>3. \A n \in Cvor : Transakcija(n)' = Transakcija(n)  BY <1>1 DEF Transakcija
<1> QED  BY <1>1, <1>2, <1>3 DEF Uredeno, Osnova, CvorUredan

LEMMA KorakCuva ==
    ASSUME Uredeno, [Next]_vars
    PROVE  Uredeno'
<1>1. \A n \in Cvor : Pise[n] \subseteq Zapis  BY PravaPretpostavka
<1>2. ASSUME NEW n \in Cvor, NEW z \in Pise[n], NEW prava \in PravaZapisa(z), Izmijeni(n, z, prava)
      PROVE Uredeno'
  BY <1>1, <1>2, IzmijeniCuva
<1>3. ASSUME NEW n \in Cvor, NEW z \in Pise[n], NEW prava \in PravaZapisa(z), Novi(n, z, prava)
      PROVE Uredeno'
  BY <1>1, <1>3, NoviCuva
<1>4. ASSUME NEW n \in Cvor, NEW odluka \in {"potvrdeno", "odbijeno"}, NEW v \in knjiga[n],
             OdluciKljucem(n, v, odluka)
      PROVE Uredeno'
  BY <1>4, OdluciCuva
<1>5. ASSUME NEW n \in Cvor, PotpisiStanjePrava(n)  PROVE Uredeno'
  BY <1>5, PotpisiStanjeCuva
<1>6. ASSUME NEW n \in Cvor, UcitajKopijuKljuca(n)  PROVE Uredeno'
  BY <1>6, UcitajCuva
<1>7. ASSUME NEW n \in Cvor, NEW m \in Cvor, NEW X \in Paketi(n, m), Primi(n, m, X)  PROVE Uredeno'
  BY <1>7, PrimiCuva
<1>8. ASSUME NEW n \in Cvor, Pokreni(n)  PROVE Uredeno'
  BY <1>8, PokreniCuva
<1>9. ASSUME UNCHANGED vars  PROVE Uredeno'
  BY <1>9, MirovanjeCuva
<1> QED  BY <1>2, <1>3, <1>4, <1>5, <1>6, <1>7, <1>8, <1>9 DEF Next

\* Types, and: decisions are signed with the key, what is own is in the ledger,
\* a row stands for a version of the ledger, and a duty has its account on the
\* surface (apply_ograda_prava.go, apply_potvrda_prava.go).
THEOREM PravaTip == Spec => []TypeOK
<1>1. Init => Uredeno  BY PocetakUreden
<1>2. Uredeno /\ [Next]_vars => Uredeno'  BY KorakCuva
<1>3. Uredeno => TypeOK  BY UredenoDaje
<1> QED  BY <1>1, <1>2, <1>3, PTL DEF Spec

\* An account is a global administrator only where its flag was written, where
\* it stood before the signatures, or by a signed confirmation
\* (apply_ograda_prava.go, apply_potvrda_stanje.go).
THEOREM ZastavicaOcuvana == Spec => []ZastavicaSPodlogom
<1>1. Init => Uredeno  BY PocetakUreden
<1>2. Uredeno /\ [Next]_vars => Uredeno'  BY KorakCuva
<1>3. Uredeno => ZastavicaSPodlogom  BY UredenoDaje
<1> QED  BY <1>1, <1>2, <1>3, PTL DEF Spec

-----------------------------------------------------------------------------
(* The same history gives the same state *)

SvaPrava == PravaRacuna \cup PravaDuznosti

\* Surfaces p and r compare versions of K alike.
IstoMijenja(p, r, K) ==
    \A v \in K : \A prava \in SvaPrava \cup {Nema} : MijenjaPrava(p, prava, v) <=> MijenjaPrava(r, prava, v)

LEMMA SvePrave ==
    ASSUME NEW p, NEW vl, NEW K \in SUBSET Verzija, NEW D, \A x \in Potvrde(D) : x.prava \in SvaPrava
    PROVE  Zatvoreno(SvaPrava, p, K, D, vl)
BY VerzijaPolja DEF Zatvoreno, SvaPrava

LEMMA KorakIsti ==
    ASSUME NEW p, NEW r, NEW K, NEW D, NEW vl, NEW wl, NEW s \in Stanja, NEW v \in K,
           IstoMijenja(p, r, K), \A o \in OznakeU(K) : o \in vl <=> o \in wl
    PROVE  Korak(p, K, D, vl, s, v) = Korak(r, K, D, wl, s, v)
<1> DEFINE s1 == [s EXCEPT !.zadnja = v.oznaka]
<1>1. Tocke(K, D, vl) = Tocke(K, D, wl)  BY DEF Tocke
<1>2. v.oznaka \in OznakeU(K)  BY DEF OznakeU
<1>3. s1.prava = s.prava /\ s.prava \in SvaPrava \cup {Nema}  BY DEF Stanja, SvaPrava
<1>4. MijenjaPrava(p, s1.prava, v) <=> MijenjaPrava(r, s1.prava, v)  BY <1>3 DEF IstoMijenja
<1> QED  BY <1>1, <1>2, <1>4 DEF Korak

LEMMA IzracunatoIsto ==
    ASSUME NEW K \in SUBSET Verzija, NEW D \in SUBSET Odluke, IsFiniteSet(D),
           \A x \in Potvrde(D) : x.prava \in SvaPrava,
           NEW p, NEW r, NEW vl, NEW wl,
           IstoMijenja(p, r, K), \A o \in OznakeU(K) : o \in vl <=> o \in wl
    PROVE  IzracunajStanje(p, K, D, vl) = IzracunajStanje(r, K, D, wl)
<1> DEFINE N == ZadnjaOznaka
<1>1. PICK g : Racuna(SvaPrava, p, K, D, vl, g)  BY SvePrave, RacunaSe
<1>2. PICK h : Racuna(SvaPrava, r, K, D, wl, h)  BY SvePrave, RacunaSe
<1>3. ASSUME NEW s \in Stanja, NEW i \in 1 .. N
      PROVE  Dalje(p, K, D, vl, s, i) = Dalje(r, K, D, wl, s, i)
  <2> DEFINE v == CHOOSE v \in K : v.oznaka = i
  <2>1. CASE i \in OznakeU(K)
    <3>1. v \in K  BY <2>1 DEF OznakeU
    <3>2. Korak(p, K, D, vl, s, v) = Korak(r, K, D, wl, s, v)
      <4> HIDE DEF v
      <4> QED  BY <3>1, KorakIsti
    <3> QED  BY <2>1, <3>2 DEF Dalje
  <2>2. CASE i \notin OznakeU(K)  BY <2>2 DEF Dalje
  <2> QED  BY <2>1, <2>2
<1> DEFINE T == {i \in 0 .. N : g[i] = h[i]}
<1>4. N \in Nat  BY PravaPretpostavka
<1>5. 0 \in T
  <2>1. 0 \in 0 .. N  BY <1>4
  <2>2. g[0] \in Stanja /\ h[0] \in Stanja  BY <1>1, <1>2, <2>1 DEF Racuna, DobraStanja
  <2>3. /\ g[0].prava = h[0].prava /\ g[0].tocka = h[0].tocka
        /\ g[0].zadnja = h[0].zadnja /\ g[0].ishod = h[0].ishod
    BY <1>1, <1>2 DEF Racuna
  <2>4. g[0] = h[0]  BY <2>2, <2>3 DEF Stanja
  <2> QED  BY <2>1, <2>4
<1>6. ASSUME NEW i \in 1 .. N, i - 1 \in T  PROVE i \in T
  <2>1. i \in 0 .. N /\ i - 1 \in 0 .. N /\ g[i - 1] = h[i - 1]  BY <1>4, <1>6
  <2>2. g[i - 1] \in Stanja  BY <1>1, <2>1 DEF Racuna, DobraStanja
  <2>3. g[i] = Dalje(p, K, D, vl, g[i - 1], i) /\ h[i] = Dalje(r, K, D, wl, h[i - 1], i)
    BY <1>1, <1>2 DEF Racuna
  <2> QED  BY <1>3, <2>1, <2>2, <2>3
<1>7. N \in T
  <2> HIDE DEF T, N
  <2>1. 0 .. N \subseteq T  BY <1>4, <1>5, <1>6, Korakom
  <2> QED  BY <1>4, <2>1
<1> QED  BY <1>1, <1>2, <1>7 DEF Racuna

\* What the ledger K, O and the own versions vl of a transaction say of record z.
Ocekivano(t, z) ==
    LET s == Stanje(t, z)
    IN  IF s.prava = Nema \/ s.zadnja = 0 THEN Nema ELSE Red(s.zadnja, s.prava)

BezDuznostiU(K, z) == \A d \in Duznost : Vlasnik[d] = z => VerzijeZapisa(K, d) = {}

\* The surface shows a record with decisions as the ledger says, or hides a duty.
Tocan(t, z) ==
    OdlukeZapisa(t.O, z) # {} /\ BezDuznostiU(t.K, z)
    => t.p[z] = Ocekivano(t, z) \/ (z \in Duznost /\ t.p[z] = Nema)

Tocni(t) == {z \in Zapis : Tocan(t, z)}

\* Transactions t and u have the same history of record z.
IstaPovijest(t, u, z) ==
    /\ VerzijeZapisa(u.K, z) = VerzijeZapisa(t.K, z)
    /\ OdlukeZapisa(u.O, z) = OdlukeZapisa(t.O, z)
    /\ \A o \in OznakeU(VerzijeZapisa(t.K, z)) : o \in t.vl <=> o \in u.vl

LEMMA OdlukeSuPrave ==
    ASSUME NEW n, NEW t \in Uredne(n), NEW z \in Zapis
    PROVE  LET K == VerzijeZapisa(t.K, z)
               D == OdlukeZapisa(t.O, z)
           IN  /\ K \in SUBSET Verzija /\ D \in SUBSET Odluke /\ IsFiniteSet(D)
               /\ \A x \in D : x.prava \in SvaPrava
               /\ \A x \in Potvrde(D) : x.prava \in SvaPrava
<1>1. t.K \in SUBSET Verzija /\ t.O \in SUBSET Odluke /\ IsFiniteSet(t.O)
  BY DEF Uredne, Transakcije
<1>2. IsFiniteSet(OdlukeZapisa(t.O, z))
  <2>1. OdlukeZapisa(t.O, z) \subseteq t.O  BY DEF OdlukeZapisa
  <2> QED  BY <1>1, <2>1, FS_Subset
<1>3. \A x \in OdlukeZapisa(t.O, z) : x.prava \in SvaPrava
  BY DEF Uredne, DobraOdluka, OdlukeZapisa, SvaPrava, PravaZapisa
<1> QED  BY <1>1, <1>2, <1>3 DEF VerzijeZapisa, OdlukeZapisa, Potvrde

\* No row of a duty that the ledger does not know.
LEMMA BezUprave ==
    ASSUME NEW n, NEW t \in Uredne(n), NEW z \in Zapis, BezDuznostiU(t.K, z)
    PROVE  ~ImaUpravu(t.p, z)
<1> SUFFICES ASSUME NEW d \in Duznost, Vlasnik[d] = z, t.p[d] # Nema  PROVE FALSE
  BY DEF ImaUpravu
<1>1. RedStoji(n, t, d)  BY DEF Uredne, Zapis
<1>2. OznakeU(VerzijeZapisa(t.K, d)) # {}  BY <1>1 DEF RedStoji
<1> QED  BY <1>2 DEF BezDuznostiU, OznakeU

LEMMA MijenjaIsto ==
    ASSUME NEW p, NEW r, NEW z, ~ImaUpravu(p, z), ~ImaUpravu(r, z),
           NEW K, \A v \in K : v.zapis = z
    PROVE  IstoMijenja(p, r, K)
BY DEF IstoMijenja, MijenjaPrava, Globalni

\* Rights from the history do not depend on the surface.
LEMMA StanjeIsto ==
    ASSUME NEW n, NEW m, NEW t \in Uredne(n), NEW u \in Uredne(m), NEW z \in Zapis,
           IstaPovijest(t, u, z), BezDuznostiU(t.K, z), BezDuznostiU(u.K, z)
    PROVE  Stanje(u, z) = Stanje(t, z)
<1> DEFINE K == VerzijeZapisa(t.K, z)
           D == OdlukeZapisa(t.O, z)
<1>1. K \in SUBSET Verzija /\ D \in SUBSET Odluke /\ IsFiniteSet(D) /\ \A x \in Potvrde(D) : x.prava \in SvaPrava
  BY OdlukeSuPrave
<1>2. ~ImaUpravu(t.p, z) /\ ~ImaUpravu(u.p, z)  BY BezUprave
<1>3. \A v \in K : v.zapis = z  BY DEF VerzijeZapisa
<1>4. VerzijeZapisa(u.K, z) = K /\ OdlukeZapisa(u.O, z) = D /\ \A o \in OznakeU(K) : o \in t.vl <=> o \in u.vl
  BY DEF IstaPovijest
<1> HIDE DEF K, D
<1>5. IstoMijenja(t.p, u.p, K)  BY <1>2, <1>3, MijenjaIsto
<1>6. IzracunajStanje(t.p, K, D, t.vl) = IzracunajStanje(u.p, K, D, u.vl)
  BY <1>1, <1>4, <1>5, IzracunatoIsto
<1> QED  BY <1>4, <1>6 DEF Stanje, K, D

\* A record stays as the ledger says when its history and its row stay, or when
\* it is a duty and is hidden.
Sakriva(t, u, z) == u.p[z] = t.p[z] \/ (z \in Duznost /\ u.p[z] = Nema)

LEMMA TocanOstaje ==
    ASSUME NEW n, NEW t \in Uredne(n), NEW u \in Uredne(n), NEW z \in Tocni(t),
           IstaPovijest(t, u, z), t.K \subseteq u.K, Sakriva(t, u, z)
    PROVE  z \in Tocni(u)
<1>1. z \in Zapis /\ Tocan(t, z)  BY DEF Tocni
<1>2. CASE OdlukeZapisa(u.O, z) # {} /\ BezDuznostiU(u.K, z)
  <2>1. OdlukeZapisa(t.O, z) # {} /\ BezDuznostiU(t.K, z)
    BY <1>2 DEF IstaPovijest, BezDuznostiU, VerzijeZapisa
  <2>2. Ocekivano(u, z) = Ocekivano(t, z)  BY <1>1, <1>2, <2>1, StanjeIsto DEF Ocekivano
  <2> QED  BY <1>1, <2>1, <2>2 DEF Tocni, Tocan, Sakriva
<1>3. CASE ~(OdlukeZapisa(u.O, z) # {} /\ BezDuznostiU(u.K, z))
  BY <1>1, <1>3 DEF Tocni, Tocan
<1> QED  BY <1>2, <1>3

LEMMA TocniUNastavku ==
    ASSUME NEW n, NEW t \in Uredne(n), NEW u \in Nastavak(n, t), NEW z \in Tocni(t), Sakriva(t, u, z)
    PROVE  z \in Tocni(u)
<1>1. u \in Uredne(n) /\ u.K = t.K /\ u.vl = t.vl /\ u.O = t.O  BY DEF Nastavak
<1>2. IstaPovijest(t, u, z)  BY <1>1 DEF IstaPovijest
<1> QED  BY <1>1, <1>2, TocanOstaje

LEMMA TocniPoPoljima ==
    ASSUME NEW t, NEW u, u.K = t.K, u.O = t.O, u.vl = t.vl, u.p = t.p
    PROVE  Tocni(u) = Tocni(t)
BY DEF Tocni, Tocan, Ocekivano, Stanje
-----------------------------------------------------------------------------
(* What is applied shows as the ledger says, and nothing else stops to *)

LEMMA NaPovrsinuPokazuje ==
    ASSUME NEW t \in Transakcije, NEW z \in Zapis, NEW red \in Redovi
    PROVE  LET u == NaPovrsinu(t, z, red)
           IN  /\ \A y \in Zapis \ {z} : u.p[y] = t.p[y]
               /\ u.p[z] = red \/ (z \in Duznost /\ t.p[Vlasnik[z]] = Nema /\ u.p = t.p)
               /\ u.palo # t.palo => z \in Duznost /\ t.p[Vlasnik[z]] = Nema
<1> DEFINE u == NaPovrsinu(t, z, red)
           p == [t.p EXCEPT ![z] = red]
<1>1. CASE z \in Duznost /\ t.p[Vlasnik[z]] = Nema
  <2>1. u = [t EXCEPT !.palo = @ \cup {z}]  BY <1>1 DEF NaPovrsinu
  <2>2. u.p = t.p  BY <2>1 DEF Transakcije
  <2> QED  BY <1>1, <2>2
<1>2. CASE ~(z \in Duznost /\ t.p[Vlasnik[z]] = Nema)
  <2>1. u = [t EXCEPT !.p[z] = red, !.proslo = @ \cup {z}]  BY <1>2 DEF NaPovrsinu
  <2>2. u.p = p /\ u.palo = t.palo  BY <2>1 DEF Transakcije
  <2>3. t.p \in [Zapis -> Redovi \cup {Nema}]  BY DEF Transakcije, Povrsine
  <2> HIDE DEF u
  <2>4. u.p[z] = red /\ \A y \in Zapis \ {z} : u.p[y] = t.p[y]  BY <2>2, <2>3
  <2> QED  BY <2>2, <2>4 DEF u
<1> QED  BY <1>1, <1>2

LEMMA MakniPokazuje ==
    ASSUME NEW t \in Transakcije, NEW z \in Zapis
    PROVE  LET u == Makni(t, z)
           IN  /\ \A y \in Zapis : Sakriva(t, u, y) \/ y = z
               /\ u.p[z] = Nema /\ u.palo = t.palo
<1> DEFINE u == Makni(t, z)
           p == [y \in Zapis |-> IF y = z \/ (y \in Duznost /\ Vlasnik[y] = z) THEN Nema ELSE t.p[y]]
<1>1. u = [t EXCEPT !.p = p, !.proslo = @ \cup {z}]  BY DEF Makni
<1>2. u.p = p /\ u.palo = t.palo
  <2> HIDE DEF p
  <2> QED  BY <1>1 DEF Transakcije
<1> HIDE DEF u
<1>3. u.p[z] = Nema /\ \A y \in Zapis : Sakriva(t, u, y) \/ y = z  BY <1>2 DEF Sakriva
<1> QED  BY <1>2, <1>3 DEF u

\* A row is shown only with its account.
LEMMA BezRacunaNema ==
    ASSUME NEW n, NEW t \in Uredne(n), NEW z \in Duznost, t.p[Vlasnik[z]] = Nema
    PROVE  t.p[z] = Nema
<1>1. RedStoji(n, t, z)  BY DEF Uredne, Zapis
<1> QED  BY <1>1 DEF RedStoji

LEMMA PoStanjuPokazuje ==
    ASSUME NEW n, NEW t \in Uredne(n), NEW z \in Zapis,
           NEW s \in DobraStanja(DobraPrava(n, t, z), VerzijeZapisa(t.K, z))
    PROVE  LET u == PoStanju(t, z, s)
           IN  /\ \A y \in Zapis \ {z} : Sakriva(t, u, y)
               /\ \/ u.p[z] = IF s.prava = Nema \/ s.zadnja = 0 THEN Nema ELSE Red(s.zadnja, s.prava)
                  \/ z \in Duznost /\ u.p[z] = Nema
               /\ u.palo # t.palo => z \in Duznost /\ t.p[z] = Nema
<1> DEFINE u == PoStanju(t, z, s)
           red == Red(s.zadnja, s.prava)
<1>1. t \in Transakcije  BY DEF Uredne
<1>2. CASE s.prava = Nema \/ s.zadnja = 0
  <2>1. u = IF t.p[z] # Nema THEN Makni(t, z) ELSE t  BY <1>2 DEF PoStanju
  <2> HIDE DEF u
  <2>2. u.p[z] = Nema /\ u.palo = t.palo /\ \A y \in Zapis \ {z} : Sakriva(t, u, y)
    BY <1>1, <2>1, MakniPokazuje DEF Sakriva
  <2> QED  BY <1>2, <2>2 DEF u
<1>3. CASE ~(s.prava = Nema \/ s.zadnja = 0) /\ CekaRacun(t, z)
  <2>1. u = t  BY <1>3 DEF PoStanju
  <2>2. z \in Duznost /\ t.p[z] = Nema  BY <1>3, BezRacunaNema DEF CekaRacun
  <2> QED  BY <2>1, <2>2 DEF Sakriva
<1>4. CASE ~(s.prava = Nema \/ s.zadnja = 0) /\ ~CekaRacun(t, z)
  <2>1. u = NaPovrsinu(t, z, red)  BY <1>4 DEF PoStanju
  <2>2. red \in Redovi
    <3>1. s.prava \in PravaRacuna \cup PravaDuznosti /\ s.zadnja \in OznakeU(VerzijeZapisa(t.K, z))
      BY <1>4 DEF DobraStanja, Stanja
    <3>2. s.zadnja \in Oznake  BY <1>1, <3>1, VerzijaPolja DEF Transakcije, OznakeU, VerzijeZapisa
    <3> QED  BY <3>1, <3>2 DEF Red, Redovi
  <2> HIDE DEF red, u
  <2>3. /\ \A y \in Zapis \ {z} : u.p[y] = t.p[y]
        /\ u.p[z] = red \/ (z \in Duznost /\ t.p[Vlasnik[z]] = Nema /\ u.p = t.p)
        /\ u.palo # t.palo => z \in Duznost /\ t.p[Vlasnik[z]] = Nema
    BY <1>1, <2>1, <2>2, NaPovrsinuPokazuje
  <2>4. z \in Duznost /\ t.p[Vlasnik[z]] = Nema => t.p[z] = Nema  BY BezRacunaNema
  <2> QED  BY <1>4, <2>3, <2>4 DEF Sakriva, red, u
<1> QED  BY <1>2, <1>3, <1>4

LEMMA PoOdlukamaTocno ==
    ASSUME NEW n, NEW t \in Uredne(n), NEW z \in Zapis
    PROVE  LET u == PoOdlukama(t, z)
           IN  /\ Tocni(t) \cup {z} \subseteq Tocni(u)
               /\ u.palo # t.palo => z \in Duznost /\ t.p[z] = Nema
<1> DEFINE s == Stanje(t, z)
           c == ZapisiIshode(t, z, s)
           u == PoOdlukama(t, z)
           red == IF s.prava = Nema \/ s.zadnja = 0 THEN Nema ELSE Red(s.zadnja, s.prava)
<1>1. s \in DobraStanja(DobraPrava(n, t, z), VerzijeZapisa(t.K, z))  BY StanjeUredno
<1>2. u = PoStanju(c, z, s) /\ u \in Nastavak(n, t)  BY PoOdlukamaUredno DEF PoOdlukama
<1>3. c \in Nastavak(n, t)  BY <1>1, IshodiUredni DEF DobraStanja
<1>4. c.p = t.p /\ c.palo = t.palo
  <2>1. t \in Transakcije  BY DEF Uredne
  <2> HIDE DEF s
  <2> QED  BY <2>1 DEF ZapisiIshode, Transakcije
<1>5. Ocekivano(t, z) = red  BY DEF Ocekivano
<1> HIDE DEF s, c, u
<1>6. c \in Uredne(n) /\ c.K = t.K  BY <1>3 DEF Nastavak
<1>7. s \in DobraStanja(DobraPrava(n, c, z), VerzijeZapisa(c.K, z))
  <2>1. DobraPrava(n, t, z) \subseteq DobraPrava(n, c, z)  BY <1>3, DobraPravaIsta
  <2> QED  BY <1>1, <1>6, <2>1 DEF DobraStanja
<1>8. /\ \A y \in Zapis \ {z} : Sakriva(c, u, y)
      /\ u.p[z] = red \/ (z \in Duznost /\ u.p[z] = Nema)
      /\ u.palo # c.palo => z \in Duznost /\ c.p[z] = Nema
  BY <1>2, <1>6, <1>7, PoStanjuPokazuje
<1> HIDE DEF red
<1>9. ASSUME NEW y \in Tocni(t), y # z  PROVE y \in Tocni(u)
  <2>1. y \in Zapis  BY DEF Tocni
  <2>2. Sakriva(t, u, y)  BY <1>4, <1>8, <1>9, <2>1 DEF Sakriva
  <2> QED  BY <1>2, <2>2, TocniUNastavku
<1>10. z \in Tocni(u)
  <2>1. CASE OdlukeZapisa(u.O, z) # {} /\ BezDuznostiU(u.K, z)
    <3>1. u \in Uredne(n) /\ u.K = t.K /\ u.vl = t.vl /\ u.O = t.O  BY <1>2 DEF Nastavak
    <3>2. IstaPovijest(t, u, z)  BY <3>1 DEF IstaPovijest
    <3>3. Ocekivano(u, z) = Ocekivano(t, z)  BY <2>1, <3>1, <3>2, StanjeIsto DEF Ocekivano
    <3> QED  BY <1>5, <1>8, <3>3 DEF Tocni, Tocan
  <2>2. CASE ~(OdlukeZapisa(u.O, z) # {} /\ BezDuznostiU(u.K, z))  BY <2>2 DEF Tocni, Tocan
  <2> QED  BY <2>1, <2>2
<1> QED  BY <1>4, <1>8, <1>9, <1>10 DEF u

\* Rights compared with the surface, of a record without decisions.
LEMMA PremaPovrsiniTocno ==
    ASSUME NEW n, NEW t \in Uredne(n), NEW v \in t.K, OdlukeZapisa(t.O, v.zapis) = {}
    PROVE  Tocni(t) \cup {v.zapis} \subseteq Tocni(PremaPovrsini(t, v))
<1> DEFINE z == v.zapis
           c == ZapisiPromjenu(t, v)
           u == PremaPovrsini(t, v)
<1>1. t \in Transakcije /\ v \in Verzija /\ z \in Zapis /\ v.prava \in PravaZapisa(z)
  BY VerzijaPolja DEF Uredne, Transakcije
<1>2. u \in Nastavak(n, t)  BY PremaPovrsiniUredno
<1>3. c \in Nastavak(n, t) /\ c.p = t.p
  <2>1. c \in Nastavak(n, t)  BY PromjenaUredna
  <2>2. c.p = t.p  BY <1>1 DEF ZapisiPromjenu, Transakcije
  <2> QED  BY <2>1, <2>2
<1>4. c \in Transakcije  BY <1>3 DEF Nastavak, Uredne
<1>5. ASSUME NEW y \in Zapis, y # z  PROVE u.p[y] = t.p[y]
  <2> DEFINE red1 == Red(v.oznaka, v.prava)
             red2 == Red(v.oznaka, BezPrava(t.p, v))
  <2>1. u \in {t, c, NaPovrsinu(t, z, red1)} \/ (t.p[z] # Nema /\ u = NaPovrsinu(c, z, red2))
    BY DEF PremaPovrsini
  <2>2. red1 \in Redovi
    BY <1>1, VerzijaPolja DEF Red, Redovi
  <2>3. ASSUME t.p[z] # Nema  PROVE red2 \in Redovi
    <3> DEFINE prava == BezPrava(t.p, v)
               bilo == t.p[z].prava
    <3>1. RedStoji(n, t, z)  BY <1>1 DEF Uredne
    <3>2. bilo \in PravaZapisa(z)  BY <2>3, <3>1 DEF RedStoji, DobraPrava
    <3>3. prava \in PravaRacuna \cup PravaDuznosti
      <4>1. CASE z \in Duznost  BY <3>2, <4>1 DEF BezPrava, PravaZapisa
      <4>2. CASE z \notin Duznost
        <5>1. bilo \in PravaRacuna /\ v.prava \in PravaRacuna  BY <1>1, <3>2, <4>2 DEF PravaZapisa, Zapis
        <5>2. prava = [zastavica |-> bilo.zastavica,
                       lozinka |-> IF Globalni(t.p, z, bilo) THEN bilo.lozinka ELSE v.prava.lozinka]
          BY <4>2 DEF BezPrava
        <5> HIDE DEF bilo, prava
        <5> QED  BY <5>1, <5>2 DEF PravaRacuna
      <4> QED  BY <4>1, <4>2
    <3> HIDE DEF prava
    <3>4. Red(v.oznaka, prava) \in Redovi  BY <1>1, <3>3, VerzijaPolja DEF Red, Redovi
    <3> QED  BY <3>4 DEF prava
  <2> HIDE DEF u, c, red1, red2
  <2>4. y \in Zapis \ {z}  BY <1>5
  <2>5. CASE u \in {t, c}  BY <1>3, <2>5
  <2>6. CASE u = NaPovrsinu(t, z, red1)
    BY <1>1, <2>2, <2>4, <2>6, NaPovrsinuPokazuje
  <2>7. CASE t.p[z] # Nema /\ u = NaPovrsinu(c, z, red2)
    <3>1. u.p[y] = c.p[y]  BY <1>1, <1>4, <2>3, <2>4, <2>7, NaPovrsinuPokazuje
    <3> QED  BY <1>3, <3>1
  <2> QED  BY <2>1, <2>5, <2>6, <2>7
<1> HIDE DEF u
<1>6. ASSUME NEW y \in Tocni(t), y # z  PROVE y \in Tocni(u)
  <2>1. y \in Zapis  BY DEF Tocni
  <2>2. Sakriva(t, u, y)  BY <1>5, <1>6, <2>1 DEF Sakriva
  <2> QED  BY <1>2, <2>2, TocniUNastavku
<1>7. z \in Tocni(u)
  <2>1. u.O = t.O  BY <1>2 DEF Nastavak
  <2> QED  BY <1>1, <2>1 DEF Tocni, Tocan
<1> QED  BY <1>6, <1>7 DEF u

LEMMA PrimijeniTocno ==
    ASSUME NEW n, NEW t \in Uredne(n), NEW v \in t.K
    PROVE  Tocni(t) \cup {v.zapis} \subseteq Tocni(Primijeni(t, v))
<1>1. v.zapis \in Zapis  BY VerzijaPolja DEF Uredne, Transakcije
<1>2. CASE Mjerodavno(t.O, v.zapis)
  <2>1. Primijeni(t, v) = PoOdlukama(t, v.zapis)  BY <1>2 DEF Primijeni
  <2> QED  BY <1>1, <2>1, PoOdlukamaTocno
<1>3. CASE ~Mjerodavno(t.O, v.zapis)
  <2>1. OdlukeZapisa(t.O, v.zapis) = {}  BY <1>3 DEF Mjerodavno
  <2>2. Primijeni(t, v) \in {PremaPovrsini(t, v), t}  BY <1>3 DEF Primijeni
  <2>3. v.zapis \in Tocni(t)  BY <1>1, <2>1 DEF Tocni, Tocan
  <2> QED  BY <2>1, <2>2, <2>3, PremaPovrsiniTocno
<1> QED  BY <1>2, <1>3

-----------------------------------------------------------------------------
(* Passes, decisions and records tried again keep what is shown *)

Jedina(V, v) == \A w \in V : w.oznaka = v.oznaka => w = v

LEMMA PoOznakamaTocno ==
    ASSUME NEW n, NEW t \in Uredne(n), NEW V \in SUBSET t.K
    PROVE  Tocni(t) \cup {v.zapis : v \in {w \in V : Jedina(V, w)}} \subseteq Tocni(PoOznakama(t, V))
<1> DEFINE N == ZadnjaOznaka
           Do(i) == Tocni(t) \cup {v.zapis : v \in {w \in V : Jedina(V, w) /\ w.oznaka <= i}}
<1>1. PICK g : Ide(n, t, V, g)  BY PoOznakamaIde
<1>2. V \subseteq Verzija /\ N \in Nat  BY PravaPretpostavka DEF Uredne, Transakcije
<1> DEFINE T == {i \in 0 .. N : Do(i) \subseteq Tocni(g[i])}
<1>3. 0 \in T
  <2>1. g[0] = t  BY <1>1 DEF Ide
  <2>2. \A w \in V : ~(w.oznaka <= 0)  BY <1>2, VerzijaPolja DEF Oznake
  <2>3. Do(0) = Tocni(t)  BY <2>2
  <2> QED  BY <1>2, <2>1, <2>3
<1>4. ASSUME NEW i \in 1 .. N, i - 1 \in T  PROVE i \in T
  <2>1. i - 1 \in 0 .. N /\ i \in 0 .. N  BY <1>2, <1>4
  <2>2. g[i] = Oznaka(V, g[i - 1], i) /\ g[i - 1] \in Nastavak(n, t)  BY <1>1, <2>1 DEF Ide
  <2>3. Do(i - 1) \subseteq Tocni(g[i - 1])  BY <1>4
  <2>4. ASSUME NEW v \in V, Jedina(V, v), v.oznaka <= i  PROVE v.zapis \in Do(i - 1) \/ v.oznaka = i
    <3>1. v.oznaka \in Nat  BY <1>2, VerzijaPolja
    <3>2. v.oznaka <= i - 1 \/ v.oznaka = i  BY <2>4, <3>1
    <3> QED  BY <2>4, <3>2
  <2>5. CASE i \in OznakeU(V)
    <3> DEFINE v == CHOOSE v \in V : v.oznaka = i
    <3>1. v \in V /\ v.oznaka = i  BY <2>5 DEF OznakeU
    <3>2. g[i] = Primijeni(g[i - 1], v)  BY <2>2, <2>5 DEF Oznaka
    <3> HIDE DEF v
    <3>3. g[i - 1] \in Uredne(n) /\ v \in g[i - 1].K  BY <2>2, <3>1 DEF Nastavak
    <3>4. Tocni(g[i - 1]) \cup {v.zapis} \subseteq Tocni(g[i])  BY <3>2, <3>3, PrimijeniTocno
    <3>5. ASSUME NEW w \in V, Jedina(V, w), w.oznaka <= i  PROVE w.zapis \in Tocni(g[i])
      <4>1. w.oznaka = i => w = v  BY <3>1, <3>5 DEF Jedina
      <4> HIDE DEF Do
      <4> QED  BY <2>3, <2>4, <3>4, <3>5, <4>1
    <3>6. Tocni(t) \subseteq Tocni(g[i])  BY <2>3, <3>4
    <3> QED  BY <2>1, <3>5, <3>6
  <2>6. CASE i \notin OznakeU(V)
    <3>1. g[i] = g[i - 1]  BY <2>2, <2>6 DEF Oznaka
    <3>2. \A w \in V : w.oznaka # i  BY <2>6 DEF OznakeU
    <3>3. ASSUME NEW w \in V, Jedina(V, w), w.oznaka <= i  PROVE w.zapis \in Tocni(g[i])
      <4> HIDE DEF Do
      <4> QED  BY <2>3, <2>4, <3>1, <3>2, <3>3
    <3>4. Tocni(t) \subseteq Tocni(g[i])  BY <2>3, <3>1
    <3> QED  BY <2>1, <3>3, <3>4
  <2> QED  BY <2>5, <2>6
<1>5. N \in T
  <2> HIDE DEF T, N
  <2>1. 0 .. N \subseteq T  BY <1>2, <1>3, <1>4, Korakom
  <2> QED  BY <1>2, <2>1
<1>6. PoOznakama(t, V) = g[N]  BY <1>1 DEF Ide
<1>7. \A w \in V : w.oznaka <= N  BY <1>2, VerzijaPolja
<1> QED  BY <1>5, <1>6, <1>7

LEMMA VratiDjecuTocno ==
    ASSUME NEW n, NEW t \in Uredne(n), NEW r
    PROVE  Tocni(t) \subseteq Tocni(VratiDjecu(t, r))
<1> DEFINE djeca == {d \in Duznost : Vlasnik[d] = r /\ t.p[d] = Nema /\ VerzijeZapisa(t.K, d) # {}}
           V == {Zadnja(t.K, d) : d \in djeca}
<1>1. t.K \in SUBSET Verzija  BY DEF Uredne, Transakcije
<1>2. \A d \in djeca : d \in ZapisiU(t.K)  BY DEF VerzijeZapisa, ZapisiU
<1> HIDE DEF djeca
<1>3. V \in SUBSET t.K  BY <1>1, <1>2, ZadnjaIzKnjige
<1>4. VratiDjecu(t, r) = PoOznakama(t, V)  BY DEF VratiDjecu, djeca
<1> HIDE DEF V
<1>5. Tocni(t) \subseteq Tocni(PoOznakama(t, V))  BY <1>3, PoOznakamaTocno
<1> QED  BY <1>4, <1>5

LEMMA BiljeskeTocne ==
    ASSUME NEW t \in Transakcije, NEW palo, NEW proslo
    PROVE  Tocni([t EXCEPT !.palo = palo, !.proslo = proslo]) = Tocni(t)
<1> DEFINE u == [t EXCEPT !.palo = palo, !.proslo = proslo]
<1>1. u.K = t.K /\ u.O = t.O /\ u.vl = t.vl /\ u.p = t.p  BY DEF Transakcije
<1> HIDE DEF u
<1>2. Tocni(u) = Tocni(t)  BY <1>1, TocniPoPoljima
<1> QED  BY <1>2 DEF u

LEMMA PaloTocno ==
    ASSUME NEW t \in Transakcije, NEW palo
    PROVE  Tocni([t EXCEPT !.palo = palo]) = Tocni(t)
<1> DEFINE u == [t EXCEPT !.palo = palo]
<1>1. u.K = t.K /\ u.O = t.O /\ u.vl = t.vl /\ u.p = t.p  BY DEF Transakcije
<1> HIDE DEF u
<1>2. Tocni(u) = Tocni(t)  BY <1>1, TocniPoPoljima
<1> QED  BY <1>2 DEF u

LEMMA CekaTocno ==
    ASSUME NEW t \in Transakcije, NEW ceka
    PROVE  Tocni([t EXCEPT !.ceka = ceka]) = Tocni(t)
<1> DEFINE u == [t EXCEPT !.ceka = ceka]
<1>1. u.K = t.K /\ u.O = t.O /\ u.vl = t.vl /\ u.p = t.p  BY DEF Transakcije
<1> HIDE DEF u
<1>2. Tocni(u) = Tocni(t)  BY <1>1, TocniPoPoljima
<1> QED  BY <1>2 DEF u

LEMMA ObnoviTocno ==
    ASSUME NEW n, NEW t \in Uredne(n), NEW z \in Zapis
    PROVE  Tocni(t) \cup {z} \subseteq Tocni(ObnoviZapis(t, z))
<1> DEFINE t0 == [t EXCEPT !.palo = {}, !.proslo = {}]
           u == PoOdlukama(t0, z)
           s == [u EXCEPT !.palo = t.palo, !.proslo = t.proslo]
           w == VratiDjecu(s, z)
           r == UTocki(t, z, u)
<1>1. t \in Transakcije /\ t.palo \in SUBSET ZapisiU(t.K) /\ t.proslo \in SUBSET Zapis
  BY DEF Uredne, Transakcije
<1>2. t0 \in Nastavak(n, t) /\ Tocni(t0) = Tocni(t) /\ t0.p = t.p /\ t0.palo = {}
  BY <1>1, BiljeskeIz, BiljeskeTocne DEF Transakcije
<1>3. CASE ~Mjerodavno(t.O, z)
  <2>1. ObnoviZapis(t, z) = t /\ OdlukeZapisa(t.O, z) = {}  BY <1>3 DEF ObnoviZapis, Mjerodavno
  <2> QED  BY <2>1 DEF Tocni, Tocan
<1>4. CASE Mjerodavno(t.O, z)
  <2>1. ObnoviZapis(t, z) = r  BY <1>4 DEF ObnoviZapis
  <2> HIDE DEF t0
  <2>2. t0 \in Uredne(n) /\ t0.K = t.K  BY <1>2 DEF Nastavak
  <2>3. /\ Tocni(t) \cup {z} \subseteq Tocni(u) /\ u \in Nastavak(n, t0)
        /\ u.palo # {} => z \in Duznost /\ t.p[z] = Nema
    BY <1>2, <2>2, PoOdlukamaTocno, PoOdlukamaUredno
  <2> HIDE DEF u
  <2>4. u \in Uredne(n) /\ u.K = t.K  BY <2>2, <2>3 DEF Nastavak
  <2>5. CASE u.palo # {}
    <3>1. r = [t EXCEPT !.ceka = @ \cup {z}]  BY <2>5 DEF UTocki
    <3>2. Tocni(r) = Tocni(t)  BY <1>1, <3>1, CekaTocno
    <3>3. z \in Tocni(t)  BY <2>3, <2>5 DEF Tocni, Tocan
    <3> QED  BY <2>1, <3>2, <3>3
  <2>6. CASE u.palo = {}
    <3>1. u \in Transakcije  BY <2>4 DEF Uredne
    <3>2. s \in Nastavak(n, u) /\ Tocni(s) = Tocni(u)  BY <1>1, <2>4, <3>1, BiljeskeIz, BiljeskeTocne
    <3>3. r = s \/ r = [w EXCEPT !.palo = t.palo, !.proslo = t.proslo]  BY <2>6 DEF UTocki
    <3> HIDE DEF s
    <3>4. s \in Uredne(n)  BY <3>2 DEF Nastavak
    <3>5. Tocni(s) \subseteq Tocni(w) /\ w \in Nastavak(n, s)
      BY <3>4, VratiDjecuTocno, VratiDjecuUredno
    <3> HIDE DEF w, r
    <3>6. w \in Transakcije  BY <3>5 DEF Nastavak, Uredne
    <3>7. Tocni([w EXCEPT !.palo = t.palo, !.proslo = t.proslo]) = Tocni(w)  BY <3>6, BiljeskeTocne
    <3> QED  BY <2>1, <2>3, <3>2, <3>3, <3>5, <3>7
  <2> QED  BY <2>5, <2>6
<1> QED  BY <1>3, <1>4

LEMMA ProlazTocan ==
    ASSUME NEW n, NEW t \in Uredne(n), NEW V \in SUBSET t.K, \A v \in V : Jedina(V, v)
    PROVE  Tocni(t) \cup ZapisiU(V) \subseteq Tocni(Prolaz(t, V))
<1> DEFINE u == [t EXCEPT !.palo = {}]
<1>1. t \in Transakcije  BY DEF Uredne
<1>2. u \in Nastavak(n, t) /\ Tocni(u) = Tocni(t)  BY <1>1, PaloZamijenjeno, PaloTocno
<1>3. Prolaz(t, V) = PoOznakama(u, V)  BY DEF Prolaz
<1> HIDE DEF u
<1>4. u \in Uredne(n) /\ V \in SUBSET u.K  BY <1>2 DEF Nastavak
<1>5. Tocni(u) \cup {v.zapis : v \in {w \in V : Jedina(V, w)}} \subseteq Tocni(PoOznakama(u, V))
  BY <1>4, PoOznakamaTocno
<1>6. ZapisiU(V) = {v.zapis : v \in {w \in V : Jedina(V, w)}}  BY DEF ZapisiU
<1> QED  BY <1>2, <1>3, <1>5, <1>6

LEMMA ProlaziTocni ==
    ASSUME NEW n, NEW t \in Uredne(n), NEW V \in SUBSET t.K, \A v \in V : Jedina(V, v)
    PROVE  Tocni(t) \cup ZapisiU(V) \subseteq Tocni(Prolazi(t, V))
<1> DEFINE N == Cardinality(V)
<1>1. PICK g : ProlaziIde(n, t, V, g)  BY ProlaziIdu
<1>2. N \in Nat /\ IsFiniteSet(V)
  <2>1. IsFiniteSet(t.K)  BY DEF Uredne
  <2>2. IsFiniteSet(V)  BY <2>1, FS_Subset
  <2> QED  BY <2>2, FS_CardinalityType
<1>3. g[0].palo = ZapisiU(V) /\ Tocni(g[0]) = Tocni(t)
  <2>1. t \in Transakcije  BY DEF Uredne
  <2>2. g[0] = [t EXCEPT !.palo = ZapisiU(V)]  BY <1>1 DEF ProlaziIde
  <2> QED  BY <2>1, <2>2, PaloTocno DEF Transakcije
<1> DEFINE Do(i) == IF i = 0 THEN {} ELSE ZapisiU(V)
           T == {i \in 0 .. N : Tocni(t) \cup Do(i) \subseteq Tocni(g[i])}
<1>4. 0 \in T
  <2>1. 0 \in 0 .. N  BY <1>2
  <2> QED  BY <1>3, <2>1
<1>5. ASSUME NEW i \in 1 .. N, i - 1 \in T  PROVE i \in T
  <2> DEFINE W == {v \in V : v.zapis \in g[i - 1].palo}
             u == g[i - 1]
  <2>1. i - 1 \in 0 .. N /\ i \in 0 .. N /\ i # 0  BY <1>2, <1>5
  <2>2. g[i] = ProlazDalje(V, u) /\ u \in Nastavak(n, t)
    <3> HIDE DEF N
    <3> QED  BY <1>1, <2>1 DEF ProlaziIde, N
  <2>3. g[i] = Prolaz(u, W)  BY <2>2 DEF ProlazDalje
  <2>4. u \in Uredne(n) /\ W \in SUBSET u.K  BY <2>2 DEF Nastavak
  <2>5. \A v \in W : Jedina(W, v)  BY DEF Jedina
  <2>6. i = 1 => W = V  BY <1>3 DEF ZapisiU
  <2>7. Tocni(t) \cup Do(i - 1) \subseteq Tocni(u)  BY <1>5
  <2> HIDE DEF W, u, N
  <2>8. Tocni(u) \cup ZapisiU(W) \subseteq Tocni(g[i])  BY <2>3, <2>4, <2>5, ProlazTocan
  <2>9. i = 1 \/ i - 1 # 0  BY <2>1
  <2> QED  BY <2>1, <2>6, <2>7, <2>8, <2>9
<1>6. N \in T
  <2> HIDE DEF T, N
  <2>1. 0 .. N \subseteq T  BY <1>2, <1>4, <1>5, Korakom
  <2> QED  BY <1>2, <2>1
<1>7. Prolazi(t, V) = g[N]  BY <1>1 DEF ProlaziIde
<1>8. N = 0 => ZapisiU(V) = {}
  <2>1. N = 0 <=> V = {}  BY <1>2, FS_EmptySet
  <2> QED  BY <2>1 DEF ZapisiU
<1> HIDE DEF N
<1> QED  BY <1>6, <1>7, <1>8

LEMMA PotpisaneTocne ==
    ASSUME NEW n, NEW t \in Uredne(n), NEW D \in SUBSET Odluke
    PROVE  Tocni(t) \cup {x.zapis : x \in {y \in D : /\ Jedina(D, y) /\ y.zapis # Mreza
                                                   /\ y.oznaka \in 1 .. ZadnjaOznaka}}
             \subseteq Tocni(PrimijeniPotpisane(t, D))
<1> DEFINE N == ZadnjaOznaka
           Moja(y, i) == Jedina(D, y) /\ y.zapis # Mreza /\ y.oznaka \in 1 .. i
           Do(i) == Tocni(t) \cup {x.zapis : x \in {y \in D : Moja(y, i)}}
<1>1. PICK g : PotpisaneIde(n, t, D, g)  BY PotpisaneIdu
<1>2. N \in Nat  BY PravaPretpostavka
<1> DEFINE T == {i \in 0 .. N : Do(i) \subseteq Tocni(g[i])}
<1>3. 0 \in T
  <2>1. g[0] = t /\ 0 \in 0 .. N  BY <1>1, <1>2 DEF PotpisaneIde
  <2>2. Do(0) = Tocni(t)  OBVIOUS
  <2> HIDE DEF Do
  <2> QED  BY <2>1, <2>2
<1>4. ASSUME NEW i \in 1 .. N, i - 1 \in T  PROVE i \in T
  <2> DEFINE x == {y \in D : y.oznaka = i /\ y.zapis # Mreza}
  <2>1. i - 1 \in 0 .. N /\ i \in 0 .. N  BY <1>2, <1>4
  <2>2. g[i] = Potpisana(D, g[i - 1], i) /\ g[i - 1] \in Nastavak(n, t)  BY <1>1, <2>1 DEF PotpisaneIde
  <2>3. Do(i - 1) \subseteq Tocni(g[i - 1])  BY <1>4
  <2>4. ASSUME NEW y \in D, Moja(y, i)  PROVE Moja(y, i - 1) \/ y.oznaka = i
    BY <2>1, <2>4
  <2>5. g[i - 1] \in Uredne(n)  BY <2>2 DEF Nastavak
  <2>6. CASE x # {}
    <3> DEFINE y == CHOOSE y \in x : TRUE
    <3>1. y \in x  BY <2>6
    <3>2. g[i] = ObnoviZapis(g[i - 1], y.zapis)  BY <2>2, <2>6 DEF Potpisana
    <3> HIDE DEF y
    <3>3. y.zapis \in Zapis /\ y \in D /\ y.oznaka = i  BY <3>1 DEF Odluke
    <3> HIDE DEF x
    <3>4. Tocni(g[i - 1]) \cup {y.zapis} \subseteq Tocni(g[i])  BY <2>5, <3>2, <3>3, ObnoviTocno
    <3>5. ASSUME NEW w \in D, Moja(w, i)  PROVE w.zapis \in Tocni(g[i])
      <4>1. CASE Moja(w, i - 1)
        <5>1. w.zapis \in Do(i - 1)  BY <4>1
        <5> HIDE DEF Do
        <5> QED  BY <2>3, <3>4, <5>1
      <4>2. CASE w.oznaka = i
        <5>1. w = y  BY <3>3, <3>5, <4>2 DEF Jedina
        <5> QED  BY <3>4, <5>1
      <4> QED  BY <2>4, <3>5, <4>1, <4>2
    <3>6. Tocni(t) \subseteq Tocni(g[i])
      <4>1. Tocni(t) \subseteq Do(i - 1)  OBVIOUS
      <4> HIDE DEF Do
      <4> QED  BY <2>3, <3>4, <4>1
    <3> HIDE DEF Moja
    <3> QED  BY <2>1, <3>5, <3>6
  <2>7. CASE x = {}
    <3>1. g[i] = g[i - 1]  BY <2>2, <2>7 DEF Potpisana
    <3>2. ASSUME NEW w \in D, Moja(w, i)  PROVE w.zapis \in Do(i - 1)
      <4>1. w.oznaka # i  BY <2>7, <3>2
      <4> QED  BY <2>4, <3>2, <4>1
    <3>3. Tocni(t) \subseteq Do(i - 1)  OBVIOUS
    <3>4. Do(i) \subseteq Do(i - 1)
      <4> HIDE DEF Moja
      <4>1. \A w \in D : Moja(w, i) => w.zapis \in Do(i - 1)
        <5> HIDE DEF Do
        <5> QED  BY <3>2
      <4> QED  BY <3>3, <4>1
    <3> HIDE DEF Do
    <3> QED  BY <2>1, <2>3, <3>1, <3>4
  <2> QED  BY <2>6, <2>7
<1>5. N \in T
  <2> HIDE DEF T, N
  <2>1. 0 .. N \subseteq T  BY <1>2, <1>3, <1>4, Korakom
  <2> QED  BY <1>2, <2>1
<1>6. PrimijeniPotpisane(t, D) = g[N]  BY <1>1 DEF PotpisaneIde
<1> QED  BY <1>5, <1>6

\* Every record of which something came is among those taken up.
LEMMA PrimjenjujeSve ==
    ASSUME NEW t, t.K \in SUBSET Verzija, NEW V \in SUBSET t.K, NEW ned \in SUBSET ZapisiU(t.K)
    PROVE  ZapisiU(V) \subseteq ZapisiU(Primjenjuje(t, V, ned))
<1> SUFFICES ASSUME NEW v \in V
             PROVE  \E w \in Primjenjuje(t, V, ned) : w.zapis = v.zapis
  BY DEF ZapisiU
<1>1. CASE v.zapis \in ned
  <2>1. Zadnja(t.K, v.zapis).zapis = v.zapis  BY <1>1, ZadnjaIzKnjige
  <2> QED  BY <1>1, <2>1 DEF Primjenjuje
<1>2. CASE v.zapis \notin ned
  <2> DEFINE S == VerzijeZapisa(V, v.zapis)
             L == {w.oznaka : w \in S}
  <2>1. \A w \in S : w \in V /\ w.zapis = v.zapis /\ w.oznaka \in 0 .. ZadnjaOznaka
    <3>1. ASSUME NEW w \in S  PROVE w \in Verzija /\ w \in V /\ w.zapis = v.zapis  BY DEF VerzijeZapisa
    <3> QED  BY <3>1, VerzijaPolja, PravaPretpostavka DEF Oznake
  <2>2. v \in S  BY DEF VerzijeZapisa
  <2>3. L \in SUBSET (0 .. ZadnjaOznaka) /\ L # {} /\ ZadnjaOznaka \in Nat
    <3> HIDE DEF S
    <3> QED  BY <2>1, <2>2, PravaPretpostavka
  <2>4. PICK k \in L : \A j \in L : j <= k
    <3> HIDE DEF L
    <3> QED  BY <2>3, Najveci
  <2>5. PICK w \in S : w.oznaka = k  BY <2>4
  <2>6. \A y \in V : y.zapis = w.zapis => y.oznaka <= w.oznaka
    <3>1. \A y \in V : y.zapis = v.zapis => y \in S  BY DEF VerzijeZapisa
    <3> HIDE DEF S
    <3> QED  BY <2>1, <2>4, <2>5, <3>1
  <2>7. w \in Primjenjuje(t, V, ned)  BY <1>2, <2>1, <2>5, <2>6 DEF Primjenjuje
  <2> QED  BY <2>1, <2>5, <2>7
<1> QED  BY <1>1, <1>2

\* What came is applied: versions, and decisions with labels of their own.
LEMMA ApplyVersionsTocno ==
    ASSUME NEW n, NEW t \in Uredne(n), NEW V \in SUBSET t.K, NEW D \in SUBSET Odluke,
           NEW ned \in SUBSET ZapisiU(t.K), \A v \in t.K : Jedina(t.K, v),
           \A x \in D : Jedina(D, x) /\ x.oznaka \in 1 .. ZadnjaOznaka
    PROVE  /\ Tocni(t) \subseteq Tocni(ApplyVersions(t, V, D, ned))
           /\ \A v \in V : v.zapis \in Tocni(ApplyVersions(t, V, D, ned))
           /\ \A x \in D : x.zapis # Mreza => x.zapis \in Tocni(ApplyVersions(t, V, D, ned))
<1> DEFINE P == Primjenjuje(t, V, ned)
           u == Prolazi(t, P)
           w == PrimijeniPotpisane(u, D)
           ceka == ((ned \cup w.ceka) \ w.proslo) \cup u.palo
           a == ApplyVersions(t, V, D, ned)
<1>1. t.K \in SUBSET Verzija  BY DEF Uredne, Transakcije
<1>2. P \in SUBSET t.K /\ ZapisiU(V) \subseteq ZapisiU(P)  BY <1>1, PrimjenjujeIzKnjige, PrimjenjujeSve
<1>3. \A v \in P : Jedina(P, v)  BY <1>2 DEF Jedina
<1>4. a = [w EXCEPT !.ceka = ceka]  BY DEF ApplyVersions, Primjenjuje
<1> HIDE DEF P
<1>5. u \in Nastavak(n, t) /\ Tocni(t) \cup ZapisiU(P) \subseteq Tocni(u)
  BY <1>2, <1>3, ProlaziUredno, ProlaziTocni
<1> HIDE DEF u, a
<1>6. u \in Uredne(n)  BY <1>5 DEF Nastavak
<1>7. /\ w \in Nastavak(n, u)
      /\ Tocni(u) \cup {x.zapis : x \in {y \in D : /\ Jedina(D, y) /\ y.zapis # Mreza
                                                /\ y.oznaka \in 1 .. ZadnjaOznaka}} \subseteq Tocni(w)
  BY <1>6, PrimijeniPotpisaneUredno, PotpisaneTocne
<1> HIDE DEF w, ceka
<1>8. w \in Transakcije  BY <1>7 DEF Nastavak, Uredne
<1>9. Tocni(a) = Tocni(w)  BY <1>4, <1>8, CekaTocno
<1>10. \A v \in V : v.zapis \in ZapisiU(V)  BY DEF ZapisiU
<1> QED  BY <1>2, <1>5, <1>7, <1>9, <1>10 DEF a

-----------------------------------------------------------------------------
(* Labels are the order of writing *)

Sve(t) == Napisano \cup t.K \cup t.O

OznakeRedom(S) ==
    /\ \A x, y \in S : x.oznaka = y.oznaka => x = y
    /\ \A x \in S : x.oznaka \in 1 .. Cardinality(S)

\* Decisions are about versions that were written.
OdlukeRedom(O, N) == \A x \in O : x.zapis \in Zapis => x.verzija <= N

Redom(t) == OznakeRedom(Sve(t)) /\ OdlukeRedom(t.O, Cardinality(Sve(t)))

LEMMA SveKonacno ==
    ASSUME IsFiniteSet(Napisano), NEW n, NEW t \in Uredne(n)
    PROVE  IsFiniteSet(Sve(t)) /\ Cardinality(Sve(t)) \in Nat
<1>1. IsFiniteSet(t.K) /\ IsFiniteSet(t.O)  BY DEF Uredne
<1>2. IsFiniteSet(Napisano \cup t.K)  BY <1>1, FS_Union
<1>3. IsFiniteSet(Sve(t))  BY <1>1, <1>2, FS_Union DEF Sve
<1> QED  BY <1>3, FS_CardinalityType

\* A thing with the next label keeps the order.
LEMMA DodajeRedom ==
    ASSUME NEW S, IsFiniteSet(S), OznakeRedom(S), NEW x, x.oznaka = Cardinality(S) + 1
    PROVE  /\ OznakeRedom(S \cup {x}) /\ x \notin S
           /\ Cardinality(S \cup {x}) = Cardinality(S) + 1
<1>1. Cardinality(S) \in Nat  BY FS_CardinalityType
<1>2. \A y \in S : y.oznaka \in 1 .. Cardinality(S)  BY DEF OznakeRedom
<1>3. \A y \in S : y.oznaka # x.oznaka  BY <1>1, <1>2
<1>4. x \notin S  BY <1>3
<1>5. Cardinality(S \cup {x}) = Cardinality(S) + 1  BY <1>4, FS_AddElement
<1>6. \A y \in S \cup {x} : y.oznaka \in 1 .. Cardinality(S \cup {x})  BY <1>1, <1>2, <1>5
<1>7. \A y, w \in S \cup {x} : y.oznaka = w.oznaka => y = w
  BY <1>3 DEF OznakeRedom
<1> QED  BY <1>4, <1>5, <1>6, <1>7 DEF OznakeRedom

\* A decision about record z concerns no other record.
LEMMA PotpisiTocno ==
    ASSUME IsFiniteSet(Napisano), NEW n \in Cvor, NEW t \in Uredne(n), NEW z \in Zapis \cup {Mreza},
           NEW o \in Nat, NEW odluka \in {"potvrdeno", "odbijeno"},
           NEW prava \in PravaRacuna \cup PravaDuznosti \cup {Nema}, z \in Zapis => prava \in PravaZapisa(z),
           Redom(t), z \in Zapis => o <= Cardinality(Sve(t))
    PROVE  LET u == Potpisi(t, n, z, o, odluka, prava)
           IN  Redom(u) /\ Tocni(t) \ {z} \subseteq Tocni(u)
<1> DEFINE x == [oznaka |-> Sljedeca(t), autor |-> n, zapis |-> z, verzija |-> o,
                 odluka |-> odluka, prava |-> prava]
           u == Potpisi(t, n, z, o, odluka, prava)
<1>1. u \in Potpisano(n, t)  BY PotpisiUredno
<1>2. u = [t EXCEPT !.O = @ \cup {x}]  BY DEF Potpisi
<1>3. x.oznaka = Cardinality(Sve(t)) + 1 /\ x.zapis = z /\ x.verzija = o  BY DEF Sljedeca, Sve
<1>4. t \in Transakcije  BY DEF Uredne
<1> HIDE DEF x, u
<1>5. u.K = t.K /\ u.O = t.O \cup {x} /\ u.vl = t.vl /\ u.p = t.p
  BY <1>2, <1>4 DEF Transakcije
<1>6. Sve(u) = Sve(t) \cup {x}  BY <1>5 DEF Sve
<1>7. IsFiniteSet(Sve(t)) /\ Cardinality(Sve(t)) \in Nat  BY SveKonacno
<1>8. OznakeRedom(Sve(u)) /\ Cardinality(Sve(u)) = Cardinality(Sve(t)) + 1
  BY <1>3, <1>6, <1>7, DodajeRedom DEF Redom
<1>9. OdlukeRedom(u.O, Cardinality(Sve(u)))
  <2> SUFFICES ASSUME NEW y \in u.O, y.zapis \in Zapis  PROVE y.verzija <= Cardinality(Sve(t)) + 1
    BY <1>8 DEF OdlukeRedom
  <2>1. CASE y = x  BY <1>3, <1>7, <2>1
  <2>2. CASE y \in t.O
    <3>1. y.verzija \in Nat  BY <1>4, <2>2 DEF Transakcije, Odluke
    <3>2. y.verzija <= Cardinality(Sve(t))  BY <2>2 DEF Redom, OdlukeRedom
    <3> QED  BY <1>7, <3>1, <3>2
  <2> QED  BY <1>5, <2>1, <2>2
<1>10. ASSUME NEW y \in Tocni(t), y # z  PROVE y \in Tocni(u)
  <2>1. IstaPovijest(t, u, y)  BY <1>3, <1>5, <1>10 DEF IstaPovijest, OdlukeZapisa
  <2>2. u \in Uredne(n)  BY <1>1 DEF Potpisano
  <2>3. Sakriva(t, u, y)  BY <1>5 DEF Sakriva
  <2> QED  BY <1>5, <2>1, <2>2, <2>3, TocanOstaje
<1> QED  BY <1>8, <1>9, <1>10 DEF Redom, u

LEMMA VerzijaRedom ==
    ASSUME NEW t, Redom(t), NEW v \in t.K
    PROVE  v.oznaka <= Cardinality(Sve(t))
BY DEF Redom, OznakeRedom, Sve

LEMMA PolazisteTocno ==
    ASSUME IsFiniteSet(Napisano), NEW n \in Cvor, NEW t \in Uredne(n), NEW z \in Zapis, Redom(t)
    PROVE  LET u == PotpisiPolaziste(t, n, z)
           IN  Redom(u) /\ Tocni(t) \ {z} \subseteq Tocni(u)
<1> DEFINE v == Kasnija(Polaziste(t, z))
           o == v.oznaka
           u == Potpisi(t, n, z, o, "potvrdeno", t.p[z].prava)
           nista == \/ Mjerodavno(t.O, z) \/ t.p[z] = Nema
                    \/ IzracunajStanje(t.p, VerzijeZapisa(t.K, z), {}, {}).prava = t.p[z].prava
                    \/ Polaziste(t, z) = {}
           r == PotpisiPolaziste(t, n, z)
<1>1. r = IF nista THEN t ELSE u  BY DEF PotpisiPolaziste
<1>2. CASE nista  BY <1>1, <1>2
<1>3. CASE ~nista
  <2>1. t.p[z] # Nema /\ Polaziste(t, z) # {}  BY <1>3
  <2>2. Polaziste(t, z) \in SUBSET Verzija /\ Polaziste(t, z) \subseteq t.K
    BY DEF Uredne, Transakcije, Polaziste, VerzijeZapisa
  <2>3. v \in Verzija /\ v \in t.K  BY <2>1, <2>2, ZadnjaUnutra
  <2>4. t.p[z].prava \in PravaZapisa(z)  BY <2>1 DEF Uredne, RedStoji, DobraPrava
  <2>5. t.p[z].prava \in PravaRacuna \cup PravaDuznosti \cup {Nema}  BY <2>4 DEF PravaZapisa
  <2> HIDE DEF v
  <2>6. o \in Nat /\ o <= Cardinality(Sve(t))  BY <2>3, VerzijaPolja, VerzijaRedom
  <2> HIDE DEF o
  <2>7. Redom(u) /\ Tocni(t) \ {z} \subseteq Tocni(u)  BY <2>4, <2>5, <2>6, PotpisiTocno
  <2> HIDE DEF u, nista, r
  <2>8. Redom(r) /\ Tocni(t) \ {z} \subseteq Tocni(r)  BY <1>1, <1>3, <2>7
  <2> QED  BY <2>8 DEF r
<1> QED  BY <1>2, <1>3

LEMMA VlastitaTocno ==
    ASSUME IsFiniteSet(Napisano), NEW n \in Cvor, NEW t \in Uredne(n), NEW z \in Zapis, Redom(t)
    PROVE  LET u == PotpisiVlastitu(t, n, z)
           IN  Redom(u) /\ Tocni(t) \ {z} \subseteq Tocni(u)
<1> DEFINE s == StanjeDrugdje(t, z)
           svoje == {v \in VerzijeZapisa(t.K, z) : v.oznaka \in t.vl /\ v.oznaka > s.tocka}
           v == Kasnija(svoje)
           u == Potpisi(t, n, z, v.oznaka, "potvrdeno", v.prava)
           potpisuje == svoje # {} /\ s.ishod[v.oznaka] \in {"ceka", "zamijenjeno"}
           r == PotpisiVlastitu(t, n, z)
<1>1. r = IF potpisuje THEN u ELSE t  BY DEF PotpisiVlastitu
<1>2. CASE ~potpisuje  BY <1>1, <1>2
<1>3. CASE potpisuje
  <2>1. svoje \in SUBSET Verzija /\ svoje \subseteq t.K  BY DEF Uredne, Transakcije, VerzijeZapisa
  <2>2. \A w \in svoje : w.zapis = z  BY DEF VerzijeZapisa
  <2>3. svoje # {}  BY <1>3
  <2> HIDE DEF svoje
  <2>4. v \in Verzija /\ v.zapis = z /\ v \in t.K  BY <2>1, <2>2, <2>3, ZadnjaUnutra
  <2> HIDE DEF v
  <2>5. Redom(u) /\ Tocni(t) \ {z} \subseteq Tocni(u)
    BY <2>4, VerzijaPolja, VerzijaRedom, PotpisiTocno
  <2> HIDE DEF potpisuje, u, r
  <2>6. Redom(r) /\ Tocni(t) \ {z} \subseteq Tocni(r)  BY <1>1, <1>3, <2>5
  <2> QED  BY <2>6 DEF r
<1> QED  BY <1>2, <1>3

LEMMA NastavakRedom ==
    ASSUME NEW n, NEW t, Redom(t), NEW u \in Nastavak(n, t)
    PROVE  Redom(u)
BY DEF Redom, Sve, Nastavak

LEMMA PotpisiZapisTocno ==
    ASSUME IsFiniteSet(Napisano), NEW n \in Cvor, NEW t \in Uredne(n), NEW z \in Zapis, Redom(t)
    PROVE  Redom(PotpisiZapis(t, n, z)) /\ Tocni(t) \subseteq Tocni(PotpisiZapis(t, n, z))
<1> DEFINE w == PotpisiPolaziste(t, n, z)
           u == PotpisiVlastitu(w, n, z)
           r == PotpisiZapis(t, n, z)
<1>1. w \in Potpisano(n, t) /\ Redom(w) /\ Tocni(t) \ {z} \subseteq Tocni(w)
  BY PolazisteUredno, PolazisteTocno
<1>2. r \in {t, ObnoviZapis(u, z)}  BY DEF PotpisiZapis
<1> HIDE DEF w, r
<1>3. w \in Uredne(n)  BY <1>1 DEF Potpisano
<1>4. u \in Potpisano(n, w) /\ Redom(u) /\ Tocni(w) \ {z} \subseteq Tocni(u)
  BY <1>1, <1>3, VlastitaUredno, VlastitaTocno
<1> HIDE DEF u
<1>5. u \in Uredne(n)  BY <1>4 DEF Potpisano
<1>6. ObnoviZapis(u, z) \in Nastavak(n, u) /\ Tocni(u) \cup {z} \subseteq Tocni(ObnoviZapis(u, z))
  BY <1>5, ObnoviUredno, ObnoviTocno
<1>7. Redom(ObnoviZapis(u, z))  BY <1>4, <1>6, NastavakRedom
<1>8. Tocni(t) \subseteq Tocni(ObnoviZapis(u, z))  BY <1>1, <1>4, <1>6
<1> QED  BY <1>2, <1>7, <1>8 DEF r

LEMMA PotpisiSveTocno ==
    ASSUME IsFiniteSet(Napisano), NEW n \in Cvor, NEW t \in Uredne(n), Redom(t)
    PROVE  Redom(PotpisiSve(t, n)) /\ Tocni(t) \subseteq Tocni(PotpisiSve(t, n))
<1> DEFINE Z == ZapisiU(t.K)
           u == PotpisiZapise(t, n, Z)
           w == Potpisi(u, n, Mreza, 0, "potvrdeno", Nema)
           x == ObnoviZapise(w, Z)
           r == PotpisiSve(t, n)
<1>1. Z \in SUBSET Zapis /\ IsFiniteSet(Z)
  <2>1. IsFiniteSet(t.K) /\ t.K \subseteq Verzija  BY DEF Uredne, Transakcije
  <2>2. Z = {v.zapis : v \in t.K}  BY DEF ZapisiU
  <2>3. IsFiniteSet(Z)
    <3> DEFINE f == [v \in t.K |-> v.zapis]
    <3>1. f \in Surjection(t.K, Z)  BY <2>2 DEF Surjection
    <3> QED  BY <2>1, <3>1, FS_Surjection
  <2> QED  BY <2>1, <2>2, <2>3, VerzijaPolja
<1>2. r = IF PrijelazGotov(u.O) THEN u ELSE x
  BY DEF PotpisiSve, DovrsiPrijelaz, PotpisiZapise, ObnoviZapise, ZapisiU
<1> HIDE DEF Z, r
<1> DEFINE c == Birac(Z)
<1>3. c \in Biraci(Z) /\ \A s \in SUBSET Z : s # {} => c[s] = Zadnji(s) /\ Zadnji(s) \in s
  BY BiracBira
<1> HIDE DEF c
<1>4. u \in Potpisano(n, t) /\ Redom(u) /\ Tocni(t) \subseteq Tocni(u)
  <2>1. PICK g : PotpisujeIde(n, t, Z, g)  BY <1>1, PotpisujeSe
  <2> DEFINE T == {s \in SUBSET Z : Redom(g[s]) /\ Tocni(t) \subseteq Tocni(g[s])}
  <2>2. {} \in T  BY <2>1 DEF PotpisujeIde
  <2>3. ASSUME NEW s \in SUBSET Z, s # {}, s \ {c[s]} \in T  PROVE s \in T
    <3> DEFINE a == g[s \ {Zadnji(s)}]
    <3>1. c[s] = Zadnji(s) /\ Zadnji(s) \in Zapis /\ s \ {Zadnji(s)} \in SUBSET Z  BY <1>1, <1>3, <2>3
    <3>2. Redom(a) /\ Tocni(t) \subseteq Tocni(a)  BY <2>3, <3>1
    <3>3. a \in Uredne(n) /\ g[s] = PotpisiZapis(a, n, Zadnji(s))
      BY <2>1, <2>3, <3>1 DEF PotpisujeIde, Potpisano
    <3> HIDE DEF a
    <3>4. Redom(g[s]) /\ Tocni(a) \subseteq Tocni(g[s])  BY <3>1, <3>2, <3>3, PotpisiZapisTocno
    <3> QED  BY <3>2, <3>4
  <2>4. Z \in T
    <3> HIDE DEF T
    <3>1. SUBSET Z \subseteq T  BY <1>1, <1>3, <2>2, <2>3, PoSkupovima
    <3> QED  BY <3>1
  <2>5. u = g[Z] /\ g[Z] \in Potpisano(n, t)  BY <2>1 DEF PotpisujeIde
  <2> QED  BY <2>4, <2>5
<1> HIDE DEF u
<1>5. u \in Uredne(n)  BY <1>4 DEF Potpisano
<1>6. w \in Potpisano(n, u) /\ Redom(w) /\ Tocni(u) \subseteq Tocni(w)
  <2>1. Mreza \notin Zapis  BY PravaPretpostavka
  <2>2. Tocni(u) \ {Mreza} = Tocni(u)  BY <2>1 DEF Tocni
  <2>3. w \in Potpisano(n, u)  BY <1>5, <2>1, PotpisiUredno
  <2>4. Redom(w) /\ Tocni(u) \ {Mreza} \subseteq Tocni(w)  BY <1>4, <1>5, <2>1, PotpisiTocno
  <2> QED  BY <2>2, <2>3, <2>4
<1> HIDE DEF w
<1>7. w \in Uredne(n)  BY <1>6 DEF Potpisano
<1>8. Redom(x) /\ Tocni(w) \subseteq Tocni(x)
  <2>1. PICK g : ObnavljaIde(n, w, Z, g)  BY <1>1, <1>7, ObnavljaSe
  <2> DEFINE T == {s \in SUBSET Z : Redom(g[s]) /\ Tocni(w) \subseteq Tocni(g[s])}
  <2>2. {} \in T  BY <1>6, <2>1 DEF ObnavljaIde
  <2>3. ASSUME NEW s \in SUBSET Z, s # {}, s \ {c[s]} \in T  PROVE s \in T
    <3> DEFINE a == g[s \ {Zadnji(s)}]
    <3>1. c[s] = Zadnji(s) /\ Zadnji(s) \in Zapis /\ s \ {Zadnji(s)} \in SUBSET Z  BY <1>1, <1>3, <2>3
    <3>2. Redom(a) /\ Tocni(w) \subseteq Tocni(a)  BY <2>3, <3>1
    <3>3. a \in Uredne(n) /\ g[s] = ObnoviZapis(a, Zadnji(s))
      BY <2>1, <2>3, <3>1 DEF ObnavljaIde, Potpisano
    <3> HIDE DEF a
    <3>4. g[s] \in Nastavak(n, a) /\ Tocni(a) \subseteq Tocni(g[s])
      BY <3>1, <3>3, ObnoviUredno, ObnoviTocno
    <3>5. Redom(g[s])  BY <3>2, <3>4, NastavakRedom
    <3> QED  BY <3>2, <3>4, <3>5
  <2>4. Z \in T
    <3> HIDE DEF T
    <3>1. SUBSET Z \subseteq T  BY <1>1, <1>3, <2>2, <2>3, PoSkupovima
    <3> QED  BY <3>1
  <2>5. x = g[Z]  BY <2>1 DEF ObnavljaIde
  <2> QED  BY <2>4, <2>5
<1> HIDE DEF x
<1>9. Redom(r) /\ Tocni(t) \subseteq Tocni(r)  BY <1>2, <1>4, <1>6, <1>8
<1> QED  BY <1>9 DEF r

-----------------------------------------------------------------------------
(* What one version does to the rights, the last point, the last version *)

\* The rights after version v, when they were `prava`.
NovaPrava(p, K, D, vl, prava, v) ==
    LET o == v.oznaka
        x == Tocna(D, o)
        preneseno == \E y \in Odbijanja(D) :
           y.prava = v.prava /\ Razdoblje(Tocke(K, D, vl), y.verzija) = Razdoblje(Tocke(K, D, vl), o)
    IN  IF x # Nema THEN IF x.odluka = "potvrdeno" THEN x.prava ELSE prava
        ELSE IF o \in vl THEN v.prava
        ELSE IF preneseno \/ MijenjaPrava(p, prava, v) THEN prava ELSE v.prava

\* A label of a version that sets rights.
Postavlja(D, vl, o) == LET x == Tocna(D, o) IN IF x # Nema THEN x.odluka = "potvrdeno" ELSE o \in vl

LEMMA PostaviDaje ==
    ASSUME NEW s \in [prava : SvaPrava \cup {Nema}, tocka : Nat, zadnja : Nat, ishod : Popisi],
           NEW o, NEW prava
    PROVE  /\ Postavi(s, o, prava).prava = prava /\ Postavi(s, o, prava).tocka = o
           /\ Postavi(s, o, prava).zadnja = s.zadnja
           /\ \A i, j : [Postavi(s, o, prava) EXCEPT !.ishod[i] = j].prava = prava
           /\ \A i, j : [Postavi(s, o, prava) EXCEPT !.ishod[i] = j].tocka = o
           /\ \A i, j : [Postavi(s, o, prava) EXCEPT !.ishod[i] = j].zadnja = s.zadnja
<1> DEFINE ishod == [i \in Oznake |-> IF s.ishod[i] = "ceka" THEN "zamijenjeno" ELSE s.ishod[i]]
           u == [prava |-> prava, tocka |-> o, zadnja |-> s.zadnja, ishod |-> ishod]
<1>1. Postavi(s, o, prava) = [s EXCEPT !.prava = prava, !.tocka = o, !.ishod = ishod]  BY DEF Postavi
<1> HIDE DEF ishod
<1>2. Postavi(s, o, prava) = u  BY <1>1
<1> QED  BY <1>2

LEMMA KorakDaje ==
    ASSUME NEW p, NEW vl, NEW K \in SUBSET Verzija, NEW D, NEW s0 \in Stanja, NEW v \in K
    PROVE  LET u == Korak(p, K, D, vl, s0, v)
           IN  /\ u.prava = NovaPrava(p, K, D, vl, s0.prava, v)
               /\ u.tocka = IF Postavlja(D, vl, v.oznaka) THEN v.oznaka ELSE s0.tocka
               /\ u.zadnja = v.oznaka
<1> DEFINE o == v.oznaka
           s == [s0 EXCEPT !.zadnja = o]
           x == Tocna(D, o)
           t == IF x.odluka = "potvrdeno" THEN Postavi(s, o, x.prava) ELSE s
           preneseno == \E y \in Odbijanja(D) :
              y.prava = v.prava /\ Razdoblje(Tocke(K, D, vl), y.verzija) = Razdoblje(Tocke(K, D, vl), o)
           u == Korak(p, K, D, vl, s0, v)
<1>1. u = IF x # Nema THEN [t EXCEPT !.ishod[o] = x.odluka]
          ELSE IF o \in vl THEN Postavi(s, o, v.prava)
          ELSE IF v.prava = s.prava THEN s
          ELSE IF preneseno THEN [s EXCEPT !.ishod[o] = "odbijeno"]
          ELSE IF MijenjaPrava(p, s.prava, v) THEN [s EXCEPT !.ishod[o] = "ceka"]
          ELSE [s EXCEPT !.prava = v.prava]
  BY DEF Korak
<1>2. NovaPrava(p, K, D, vl, s0.prava, v) =
        IF x # Nema THEN IF x.odluka = "potvrdeno" THEN x.prava ELSE s0.prava
        ELSE IF o \in vl THEN v.prava
        ELSE IF preneseno \/ MijenjaPrava(p, s0.prava, v) THEN s0.prava ELSE v.prava
  BY DEF NovaPrava
<1>3. Postavlja(D, vl, o) <=> IF x # Nema THEN x.odluka = "potvrdeno" ELSE o \in vl  BY DEF Postavlja
<1>4. o \in Nat  BY VerzijaPolja
<1> HIDE DEF x, preneseno, u, o
<1>5. s = [prava |-> s0.prava, tocka |-> s0.tocka, zadnja |-> o, ishod |-> s0.ishod]
  BY DEF Stanja
<1>6. s \in [prava : SvaPrava \cup {Nema}, tocka : Nat, zadnja : Nat, ishod : Popisi]
  <2>1. /\ s0.prava \in SvaPrava \cup {Nema} /\ s0.tocka \in Nat /\ s0.ishod \in Popisi
    BY PravaPretpostavka DEF Stanja, SvaPrava
  <2> QED  BY <1>4, <1>5, <2>1
<1>7. /\ s.prava = s0.prava /\ s.tocka = s0.tocka /\ s.zadnja = o
      /\ \A i, j : [s EXCEPT !.ishod[i] = j].prava = s0.prava
      /\ \A i, j : [s EXCEPT !.ishod[i] = j].tocka = s0.tocka
      /\ \A i, j : [s EXCEPT !.ishod[i] = j].zadnja = o
      /\ [s EXCEPT !.prava = v.prava].prava = v.prava
      /\ [s EXCEPT !.prava = v.prava].tocka = s0.tocka
      /\ [s EXCEPT !.prava = v.prava].zadnja = o
  BY <1>5
<1>8. \A prava : /\ Postavi(s, o, prava).prava = prava /\ Postavi(s, o, prava).tocka = o
                 /\ Postavi(s, o, prava).zadnja = o
                 /\ \A i, j : [Postavi(s, o, prava) EXCEPT !.ishod[i] = j].prava = prava
                 /\ \A i, j : [Postavi(s, o, prava) EXCEPT !.ishod[i] = j].tocka = o
                 /\ \A i, j : [Postavi(s, o, prava) EXCEPT !.ishod[i] = j].zadnja = o
  <2> HIDE DEF s
  <2> QED  BY <1>6, <1>7, PostaviDaje
<1> HIDE DEF s
<1>9. CASE x # Nema
  <2>1. CASE x.odluka = "potvrdeno"
    <3>1. u = [Postavi(s, o, x.prava) EXCEPT !.ishod[o] = x.odluka]  BY <1>1, <1>9, <2>1
    <3>2. u.prava = x.prava /\ u.tocka = o /\ u.zadnja = o  BY <1>8, <3>1
    <3> QED  BY <1>2, <1>3, <1>9, <2>1, <3>2 DEF u, o
  <2>2. CASE x.odluka # "potvrdeno"
    <3>1. u = [s EXCEPT !.ishod[o] = x.odluka]  BY <1>1, <1>9, <2>2
    <3>2. u.prava = s0.prava /\ u.tocka = s0.tocka /\ u.zadnja = o  BY <1>7, <3>1
    <3> QED  BY <1>2, <1>3, <1>9, <2>2, <3>2 DEF u, o
  <2> QED  BY <2>1, <2>2
<1>10. CASE x = Nema /\ o \in vl
  <2>1. u = Postavi(s, o, v.prava)  BY <1>1, <1>10
  <2>2. u.prava = v.prava /\ u.tocka = o /\ u.zadnja = o  BY <1>8, <2>1
  <2> QED  BY <1>2, <1>3, <1>10, <2>2 DEF u, o
<1>11. CASE x = Nema /\ o \notin vl
  <2>1. u = IF v.prava = s.prava THEN s
            ELSE IF preneseno THEN [s EXCEPT !.ishod[o] = "odbijeno"]
            ELSE IF MijenjaPrava(p, s.prava, v) THEN [s EXCEPT !.ishod[o] = "ceka"]
            ELSE [s EXCEPT !.prava = v.prava]
    BY <1>1, <1>11
  <2>2. /\ u.prava = IF preneseno \/ MijenjaPrava(p, s0.prava, v) THEN s0.prava ELSE v.prava
        /\ u.tocka = s0.tocka /\ u.zadnja = o
    BY <1>7, <2>1
  <2> QED  BY <1>2, <1>3, <1>11, <2>2 DEF u, o
<1> QED  BY <1>9, <1>10, <1>11

-----------------------------------------------------------------------------
(* An own write *)

\* What a version does that holds at once.
LEMMA KorakVrijedi ==
    ASSUME NEW p, NEW vl, NEW K \in SUBSET Verzija, NEW D, NEW s \in Stanja, NEW v \in K,
           LET x == Tocna(D, v.oznaka)
           IN  IF x # Nema THEN x.odluka = "potvrdeno" /\ x.prava = v.prava ELSE v.oznaka \in vl
    PROVE  Korak(p, K, D, vl, s, v).prava = v.prava /\ Korak(p, K, D, vl, s, v).zadnja = v.oznaka
<1>1. NovaPrava(p, K, D, vl, s.prava, v) = v.prava  BY DEF NovaPrava
<1> QED  BY <1>1, KorakDaje

\* The last version of a history, when it holds at once, gives the rights.
LEMMA ZadnjaVrijedi ==
    ASSUME NEW p, NEW vl, NEW K \in SUBSET Verzija, NEW D \in SUBSET Odluke, IsFiniteSet(D),
           \A x \in Potvrde(D) : x.prava \in SvaPrava,
           NEW v \in K, Jedina(K, v), \A w \in K : w.oznaka <= v.oznaka, \A x \in D : x.verzija <= v.oznaka,
           LET x == Tocna(D, v.oznaka)
           IN  IF x # Nema THEN x.odluka = "potvrdeno" /\ x.prava = v.prava ELSE v.oznaka \in vl
    PROVE  IzracunajStanje(p, K, D, vl).prava = v.prava /\ IzracunajStanje(p, K, D, vl).zadnja = v.oznaka
<1> DEFINE N == ZadnjaOznaka
           o == v.oznaka
           Vrijedi(s) == s.prava = v.prava /\ s.zadnja = o
<1>1. PICK g : Racuna(SvaPrava, p, K, D, vl, g)  BY SvePrave, RacunaSe
<1>2. N \in Nat /\ o \in Nat /\ o \in 1 .. N  BY VerzijaPolja, PravaPretpostavka DEF Oznake
<1> DEFINE T == {i \in 0 .. N : i >= o => Vrijedi(g[i])}
<1>3. 0 \in T  BY <1>2
<1>4. ASSUME NEW i \in 1 .. N, i - 1 \in T  PROVE i \in T
  <2>1. i - 1 \in 0 .. N /\ i \in 0 .. N  BY <1>2
  <2>2. g[i - 1] \in Stanja /\ g[i] = Dalje(p, K, D, vl, g[i - 1], i)
    BY <1>1, <2>1 DEF Racuna, DobraStanja
  <2>3. CASE i = o
    <3>1. (CHOOSE w \in K : w.oznaka = i) = v  BY <2>3 DEF Jedina
    <3>2. i \in OznakeU(K)  BY <2>3 DEF OznakeU
    <3>3. g[i] = Korak(p, K, D, vl, g[i - 1], v)  BY <2>2, <3>1, <3>2 DEF Dalje
    <3>4. Vrijedi(g[i])  BY <2>2, <3>3, KorakVrijedi
    <3> QED  BY <2>1, <3>4
  <2>4. CASE i > o
    <3>1. i \notin OznakeU(K)
      <4>1. \A w \in K : w.oznaka \in Nat  BY VerzijaPolja
      <4> QED  BY <1>2, <2>4, <4>1 DEF OznakeU
    <3>2. OOznaci(PotvrdeBezVerzije(K, D), i) = {}
      <4>1. \A x \in D : x.verzija \in Nat  BY DEF Odluke
      <4>2. PotvrdeBezVerzije(K, D) \subseteq D  BY BezVerzijePotvrde DEF Potvrde
      <4> QED  BY <1>2, <2>4, <4>1, <4>2 DEF OOznaci
    <3>3. g[i] = g[i - 1]  BY <2>2, <3>1, <3>2 DEF Dalje
    <3>4. i - 1 >= o  BY <1>2, <2>4
    <3>5. Vrijedi(g[i - 1])
      <4> HIDE DEF Vrijedi
      <4> QED  BY <1>4, <3>4
    <3> QED  BY <2>1, <3>3, <3>5
  <2>5. CASE i < o  BY <1>2, <2>1, <2>5
  <2> QED  BY <1>2, <2>3, <2>4, <2>5
<1>5. Vrijedi(g[N])
  <2>1. N \in T
    <3> HIDE DEF T, N
    <3>1. 0 .. N \subseteq T  BY <1>2, <1>3, <1>4, Korakom
    <3> QED  BY <1>2, <3>1
  <2> HIDE DEF Vrijedi
  <2> QED  BY <1>2, <2>1
<1>6. IzracunajStanje(p, K, D, vl) = g[N]  BY <1>1 DEF Racuna
<1> QED  BY <1>5, <1>6

\* Whatever was decided on version o gives it these rights.
SamoPotvrde(D, o, prava) == \A x \in D : x.verzija = o => x.odluka = "potvrdeno" /\ x.prava = prava

LEMMA TocnaVrijedi ==
    ASSUME NEW D \in SUBSET Odluke, IsFiniteSet(D), NEW o, NEW prava, SamoPotvrde(D, o, prava)
    PROVE  Tocna(D, o) # Nema => Tocna(D, o).odluka = "potvrdeno" /\ Tocna(D, o).prava = prava
<1> DEFINE S == OOznaci(D, o)
<1>1. Odbijanja(S) = {}  BY DEF Odbijanja, OOznaci, SamoPotvrde
<1>2. Tocna(D, o) = IF S # {} THEN Kasnija(S) ELSE Nema  BY <1>1 DEF Tocna
<1>3. S \subseteq D /\ IsFiniteSet(S)
  <2>1. S \subseteq D  BY DEF OOznaci
  <2> QED  BY <2>1, FS_Subset
<1>4. \A x \in S : x.odluka = "potvrdeno" /\ x.prava = prava  BY DEF OOznaci, SamoPotvrde
<1> HIDE DEF S
<1>5. S # {} => Kasnija(S) \in S  BY <1>3, OdlukaUnutra
<1> QED  BY <1>2, <1>4, <1>5

\* The newest version, written here, shows as the ledger says.
LEMMA UpisVrijedi ==
    ASSUME NEW n, NEW t \in Uredne(n), NEW v \in t.K, Jedina(t.K, v),
           \A w \in t.K : w.oznaka <= v.oznaka, v.oznaka \in t.vl,
           t.p[v.zapis] = Red(v.oznaka, v.prava),
           \A x \in OdlukeZapisa(t.O, v.zapis) : x.verzija <= v.oznaka,
           SamoPotvrde(OdlukeZapisa(t.O, v.zapis), v.oznaka, v.prava)
    PROVE  v.zapis \in Tocni(t)
<1> DEFINE z == v.zapis
           o == v.oznaka
           K == VerzijeZapisa(t.K, z)
           D == OdlukeZapisa(t.O, z)
           s == Stanje(t, z)
<1>1. v \in Verzija  BY DEF Uredne, Transakcije
<1>2. z \in Zapis /\ v.prava \in PravaRacuna \cup PravaDuznosti /\ o \in Oznake  BY <1>1, VerzijaPolja
<1>3. K \in SUBSET Verzija /\ D \in SUBSET Odluke /\ IsFiniteSet(D) /\ \A x \in Potvrde(D) : x.prava \in SvaPrava
  <2> HIDE DEF z
  <2> QED  BY <1>2, OdlukeSuPrave
<1>4. v \in K /\ Jedina(K, v) /\ \A w \in K : w.oznaka <= o  BY DEF VerzijeZapisa, Jedina
<1>5. (\A x \in D : x.verzija <= o) /\ SamoPotvrde(D, o, v.prava)
  OBVIOUS
<1>6. s = IzracunajStanje(t.p, K, D, t.vl)  BY DEF Stanje
<1> HIDE DEF K, D, s
<1>7. Tocna(D, o) # Nema => Tocna(D, o).odluka = "potvrdeno" /\ Tocna(D, o).prava = v.prava
  BY <1>3, <1>5, TocnaVrijedi
<1>8. s.prava = v.prava /\ s.zadnja = o
  <2>1. LET x == Tocna(D, v.oznaka)
        IN  IF x # Nema THEN x.odluka = "potvrdeno" /\ x.prava = v.prava ELSE v.oznaka \in t.vl
    BY <1>7
  <2>2. \A x \in D : x.verzija <= v.oznaka  BY <1>5
  <2>3. \A w \in K : w.oznaka <= v.oznaka  BY <1>4
  <2> HIDE DEF o
  <2>4. IzracunajStanje(t.p, K, D, t.vl).prava = v.prava /\ IzracunajStanje(t.p, K, D, t.vl).zadnja = v.oznaka
    BY <1>3, <1>4, <2>1, <2>2, <2>3, ZadnjaVrijedi
  <2> QED  BY <1>6, <2>4 DEF o
<1>9. s.prava # Nema /\ s.zadnja # 0
  <2>1. o # 0  BY <1>2 DEF Oznake
  <2> QED  BY <1>2, <1>8, <2>1, PravaPretpostavka
<1>10. Ocekivano(t, z) = t.p[z]  BY <1>8, <1>9 DEF Ocekivano, s
<1> QED  BY <1>2, <1>10 DEF Tocni, Tocan

\* The ledgers are in the order of writing, and node n shows what they say.
Suglasan(n) ==
    /\ OdlukeRedom(odluke[n], Cardinality(Napisano))
    /\ Tocni(Transakcija(n)) = Zapis

LEMMA TransakcijaRedom ==
    ASSUME NEW n \in Cvor, OznakeRedom(Napisano), Suglasan(n)
    PROVE  Sve(Transakcija(n)) = Napisano /\ Redom(Transakcija(n))
<1>1. Transakcija(n).K = knjiga[n] /\ Transakcija(n).O = odluke[n]  BY DEF Transakcija
<1>2. Sve(Transakcija(n)) = Napisano  BY <1>1 DEF Sve, Napisano
<1> QED  BY <1>1, <1>2 DEF Redom, Suglasan

LEMMA UKnjiguPovrsina ==
    ASSUME Uredeno, NEW n \in Cvor, NEW z \in Zapis, NEW prava
    PROVE  UKnjigu(n, z, prava).p = [povrsina[n] EXCEPT ![z] = Red(Sljedeca(Transakcija(n)), prava)]
<1> DEFINE t0 == Transakcija(n)
           o == Sljedeca(Transakcija(n))
           v == Napisana(n, z, prava)
           t == UKnjigu(n, z, prava)
<1>1. t0 \in Transakcije /\ t0.p = povrsina[n]  BY TransakcijaUredna DEF Uredne
<1>2. t = [t0 EXCEPT !.K = @ \cup {v}, !.vl = @ \cup {o}, !.p[z] = Red(o, prava)]
  BY DEF UKnjigu, Napisana
<1> HIDE DEF t0, o, v, t
<1>3. t.p = [t0.p EXCEPT ![z] = Red(o, prava)]  BY <1>1, <1>2 DEF Transakcije
<1> QED  BY <1>1, <1>3 DEF t, o, t0

LEMMA UKnjiguTocno ==
    ASSUME Uredeno, NEW n \in Cvor, OznakeRedom(Napisano), Suglasan(n),
           NEW z \in Zapis, NEW prava \in PravaZapisa(z),
           Cardinality(Napisano) < ZadnjaOznaka,
           z \in Duznost => povrsina[n][Vlasnik[z]] # Nema
    PROVE  /\ Redom(UKnjigu(n, z, prava)) /\ Zapis \ {z} \subseteq Tocni(UKnjigu(n, z, prava))
           /\ Sve(UKnjigu(n, z, prava)) = Napisano \cup {Napisana(n, z, prava)}
           /\ Cardinality(Sve(UKnjigu(n, z, prava))) = Cardinality(Napisano) + 1
<1> DEFINE t0 == Transakcija(n)
           v == Napisana(n, z, prava)
           o == Cardinality(Napisano) + 1
           t == UKnjigu(n, z, prava)
<1>1. /\ t0 \in Uredne(n) /\ t0.K = knjiga[n] /\ t0.O = odluke[n] /\ t0.vl = vlastite[n]
      /\ t0.p = povrsina[n]
  BY TransakcijaUredna
<1>2. v \in Verzija /\ v.oznaka = o /\ v.zapis = z /\ t \in Uredne(n)
  BY UKnjiguUredno
<1>3. t.K = knjiga[n] \cup {v} /\ t.O = odluke[n] /\ t.vl = vlastite[n] \cup {o}
  BY UKnjiguUredno
<1>4. t.p = [povrsina[n] EXCEPT ![z] = Red(Sljedeca(Transakcija(n)), prava)]  BY UKnjiguPovrsina
<1> HIDE DEF t0, t, v
<1>5. Sve(t) = Napisano \cup {v}  BY <1>3 DEF Sve, Napisano
<1>6. IsFiniteSet(Napisano) /\ Cardinality(Napisano) \in Nat  BY FS_CardinalityType DEF Uredeno
<1>7. OznakeRedom(Sve(t)) /\ Cardinality(Sve(t)) = o  BY <1>2, <1>5, <1>6, DodajeRedom
<1>8. OdlukeRedom(t.O, Cardinality(Sve(t)))
  <2>1. \A x \in t.O : x.verzija \in Nat  BY <1>2 DEF Uredne, Transakcije, Odluke
  <2>2. \A x \in t.O : x.zapis \in Zapis => x.verzija <= Cardinality(Napisano)
    BY <1>3 DEF Suglasan, OdlukeRedom
  <2> QED  BY <1>6, <1>7, <2>1, <2>2 DEF OdlukeRedom
<1>9. ASSUME NEW y \in Zapis \ {z}  PROVE y \in Tocni(t)
  <2>1. y \in Tocni(t0)  BY DEF Suglasan, t0
  <2>2. VerzijeZapisa(t.K, y) = VerzijeZapisa(t0.K, y) /\ OdlukeZapisa(t.O, y) = OdlukeZapisa(t0.O, y)
    BY <1>1, <1>2, <1>3 DEF VerzijeZapisa
  <2>3. o \notin OznakeU(VerzijeZapisa(t0.K, y))
    <3>1. \A w \in t0.K : w.oznaka <= Cardinality(Napisano)
      BY <1>1 DEF OznakeRedom, Napisano
    <3> QED  BY <1>6, <3>1 DEF OznakeU, VerzijeZapisa
  <2>4. IstaPovijest(t0, t, y)
    BY <1>1, <1>3, <2>2, <2>3 DEF IstaPovijest
  <2>5. Sakriva(t0, t, y)
    <3>1. povrsina[n] \in Povrsine  BY DEF Uredeno, Osnova
    <3> QED  BY <1>1, <1>4, <1>9, <3>1 DEF Sakriva, Povrsine
  <2>6. t0.K \subseteq t.K  BY <1>1, <1>3
  <2> QED  BY <1>1, <1>2, <2>1, <2>4, <2>5, <2>6, TocanOstaje
<1> QED  BY <1>5, <1>7, <1>8, <1>9 DEF Redom, t, v

LEMMA NajnovijaJeZadnja ==
    ASSUME NEW K \in SUBSET Verzija, NEW v \in K, Jedina(K, v), \A w \in K : w.oznaka <= v.oznaka
    PROVE  Zadnja(K, v.zapis) = v
<1> DEFINE S == VerzijeZapisa(K, v.zapis)
           k == Zadnja(K, v.zapis)
<1>1. v \in S /\ S \subseteq K  BY DEF VerzijeZapisa
<1>2. k \in S /\ \A w \in S : w.oznaka <= k.oznaka
  <2> HIDE DEF S
  <2>1. \E x \in S : \A w \in S : w.oznaka <= x.oznaka  BY <1>1
  <2> QED  BY <2>1 DEF Zadnja, Kasnija, S
<1> HIDE DEF S, k
<1>3. k.oznaka \in Nat /\ v.oznaka \in Nat /\ k.oznaka <= v.oznaka /\ v.oznaka <= k.oznaka
  BY <1>1, <1>2, VerzijaPolja
<1>4. k.oznaka = v.oznaka  BY <1>3
<1> QED  BY <1>1, <1>2, <1>4 DEF Jedina, k

LEMMA PotvrdiTocno ==
    ASSUME Uredeno, NEW n \in Cvor, OznakeRedom(Napisano), Suglasan(n),
           NEW z \in Zapis, NEW prava \in PravaZapisa(z),
           Cardinality(Napisano) < ZadnjaOznaka,
           z \in Duznost => povrsina[n][Vlasnik[z]] # Nema
    PROVE  LET t == UKnjigu(n, z, prava)
               u == PotvrdiIzmjenu(t, n, Zadnja(t.K, z))
           IN  Redom(u) /\ Zapis \subseteq Tocni(u)
<1> DEFINE t == UKnjigu(n, z, prava)
           v == Napisana(n, z, prava)
           o == Cardinality(Napisano) + 1
           w == Potpisi(t, n, z, o, "potvrdeno", prava)
           x == [oznaka |-> Sljedeca(t), autor |-> n, zapis |-> z, verzija |-> o,
                 odluka |-> "potvrdeno", prava |-> prava]
           u == PotvrdiIzmjenu(t, n, Zadnja(t.K, z))
<1>1. /\ v \in Verzija /\ v.oznaka = o /\ v.zapis = z /\ t \in Uredne(n)
      /\ t.K = knjiga[n] \cup {v} /\ t.O = odluke[n] /\ t.vl = vlastite[n] \cup {o}
  BY UKnjiguUredno
<1>2. v.prava = prava /\ Sljedeca(Transakcija(n)) = o  BY <1>1 DEF Napisana
<1>3. /\ Redom(t) /\ Zapis \ {z} \subseteq Tocni(t) /\ Sve(t) = Napisano \cup {v}
      /\ Cardinality(Sve(t)) = o
  BY UKnjiguTocno
<1>4. t.p = [povrsina[n] EXCEPT ![z] = Red(o, prava)]  BY <1>2, UKnjiguPovrsina
<1>5. t.p[z] = Red(o, prava)
  <2>1. povrsina[n] \in Povrsine  BY DEF Uredeno, Osnova
  <2> QED  BY <1>4, <2>1 DEF Povrsine
<1>6. IsFiniteSet(Napisano) /\ Cardinality(Napisano) \in Nat  BY FS_CardinalityType DEF Uredeno
<1> HIDE DEF t, v
<1>7. /\ Jedina(t.K, v) /\ \A y \in t.K : y.oznaka <= o
      /\ \A y \in OdlukeZapisa(t.O, z) : y.verzija <= Cardinality(Napisano) /\ y.verzija \in Nat
  <2>1. t.K \subseteq Sve(t) /\ v \in t.K  BY <1>1 DEF Sve
  <2>2. \A y \in Sve(t) : y.oznaka <= o /\ (y.oznaka = o => y = v)
    BY <1>1, <1>3 DEF Redom, OznakeRedom
  <2>3. \A y \in OdlukeZapisa(t.O, z) : y.verzija <= Cardinality(Napisano)
    BY <1>1 DEF Suglasan, OdlukeRedom, OdlukeZapisa
  <2>4. \A y \in t.O : y.verzija \in Nat  BY <1>1 DEF Uredne, Transakcije, Odluke
  <2> QED  BY <1>1, <2>1, <2>2, <2>3, <2>4 DEF Jedina, OdlukeZapisa
<1>8. Zadnja(t.K, z) = v
  <2>1. t.K \in SUBSET Verzija  BY <1>1 DEF Uredne, Transakcije
  <2> QED  BY <1>1, <1>7, <2>1, NajnovijaJeZadnja
<1>9. u = t \/ u = w  BY <1>1, <1>2, <1>8 DEF PotvrdiIzmjenu
<1>10. z \in Tocni(t)
  <2>1. \A y \in OdlukeZapisa(t.O, v.zapis) : y.verzija <= v.oznaka  BY <1>1, <1>6, <1>7
  <2>2. SamoPotvrde(OdlukeZapisa(t.O, v.zapis), v.oznaka, v.prava)
    BY <1>1, <1>6, <1>7 DEF SamoPotvrde
  <2> QED  BY <1>1, <1>2, <1>5, <1>7, <2>1, <2>2, UpisVrijedi
<1>11. Zapis \subseteq Tocni(t)  BY <1>3, <1>10
<1>12. w = [t EXCEPT !.O = @ \cup {x}]  BY DEF Potpisi
<1>13. prava \in PravaRacuna \cup PravaDuznosti  BY DEF PravaZapisa
<1>14. w \in Potpisano(n, t) /\ Redom(w) /\ Tocni(t) \ {z} \subseteq Tocni(w)
  <2>1. o \in Nat /\ o <= Cardinality(Sve(t))  BY <1>3, <1>6
  <2>2. w \in Potpisano(n, t)  BY <1>1, <1>6, <1>13, <2>1, PotpisiUredno
  <2>3. Redom(w) /\ Tocni(t) \ {z} \subseteq Tocni(w)
    BY <1>1, <1>3, <1>6, <1>13, <2>1, PotpisiTocno
  <2> QED  BY <2>2, <2>3
<1>15. x.verzija = o /\ x.odluka = "potvrdeno" /\ x.prava = prava  OBVIOUS
<1> HIDE DEF w, u, x, o
<1>16. w.O = t.O \cup {x} /\ w.K = t.K /\ w.vl = t.vl /\ w.p = t.p
  <2>1. t \in Transakcije  BY <1>1 DEF Uredne
  <2> QED  BY <1>12, <2>1 DEF Transakcije
<1>17. z \in Tocni(w)
  <2>0. o \in Nat /\ Cardinality(Napisano) < o  BY <1>6 DEF o
  <2>1. \A y \in OdlukeZapisa(w.O, v.zapis) : y = x \/ y \in OdlukeZapisa(t.O, z)
    BY <1>1, <1>16 DEF OdlukeZapisa
  <2>2. \A y \in OdlukeZapisa(w.O, v.zapis) : y.verzija <= v.oznaka
    BY <1>1, <1>6, <1>7, <1>15, <2>0, <2>1
  <2>3. SamoPotvrde(OdlukeZapisa(w.O, v.zapis), v.oznaka, v.prava)
    <3>1. \A y \in OdlukeZapisa(t.O, z) : y.verzija # o  BY <1>6, <1>7, <2>0
    <3> QED  BY <1>1, <1>2, <1>15, <2>1, <3>1 DEF SamoPotvrde
  <2>4. w \in Uredne(n)  BY <1>14 DEF Potpisano
  <2>5. v \in w.K /\ Jedina(w.K, v) /\ \A y \in w.K : y.oznaka <= v.oznaka  BY <1>1, <1>7, <1>16
  <2>6. v.oznaka \in w.vl  BY <1>1, <1>16
  <2>7. w.p[v.zapis] = Red(v.oznaka, v.prava)  BY <1>1, <1>2, <1>5, <1>16
  <2>8. v.zapis \in Tocni(w)  BY <2>2, <2>3, <2>4, <2>5, <2>6, <2>7, UpisVrijedi
  <2> QED  BY <1>1, <2>8
<1>18. Redom(u) /\ Zapis \subseteq Tocni(u)  BY <1>3, <1>9, <1>11, <1>14, <1>17
<1> QED  BY <1>18 DEF u, t

-----------------------------------------------------------------------------
(* Every node shows what its ledger says *)

Suglasno ==
    /\ OznakeRedom(Napisano)
    /\ \A x \in Napisano : x.oznaka <= ZadnjaOznaka
    /\ \A n \in Cvor : Suglasan(n)

LEMMA PocetakSuglasan ==
    ASSUME Init
    PROVE  Suglasno
<1> DEFINE S == UNION {PocetnaKnjiga[n] : n \in Cvor}
<1>1. Napisano = S  BY DEF Init, Napisano
<1>2. \A x \in S : x \in Verzija  BY PravaPretpostavka
<1>3. IsFiniteSet(S) /\ Cardinality(S) \in Nat  BY PravaPretpostavka, FS_CardinalityType
<1>4. (\A x, y \in S : x.oznaka = y.oznaka => x = y) /\ \A x \in S : x.oznaka <= Cardinality(S)
  BY PravaPretpostavka
<1> HIDE DEF S
<1>5. OznakeRedom(Napisano)
  <2>1. \A x \in S : x.oznaka \in 1 .. Cardinality(S)
    <3> SUFFICES ASSUME NEW x \in S  PROVE x.oznaka \in 1 .. Cardinality(S)
      OBVIOUS
    <3>1. x.oznaka \in 1 .. ZadnjaOznaka /\ x.oznaka <= Cardinality(S)  BY <1>2, <1>4, VerzijaPolja DEF Oznake
    <3>2. ZadnjaOznaka \in Nat  BY PravaPretpostavka
    <3> QED  BY <1>3, <3>1, <3>2
  <2> QED  BY <1>1, <1>4, <2>1 DEF OznakeRedom
<1>6. \A x \in Napisano : x.oznaka <= ZadnjaOznaka  BY <1>1, <1>2, VerzijaPolja
<1>7. ASSUME NEW n \in Cvor  PROVE Suglasan(n)
  <2>1. odluke[n] = {} /\ Transakcija(n).O = {}  BY DEF Init, Transakcija
  <2>2. OdlukeRedom(odluke[n], Cardinality(Napisano))  BY <2>1 DEF OdlukeRedom
  <2>3. \A z \in Zapis : Tocan(Transakcija(n), z)  BY <2>1 DEF Tocan, OdlukeZapisa
  <2> QED  BY <2>2, <2>3 DEF Suglasan, Tocni
<1> QED  BY <1>5, <1>6, <1>7 DEF Suglasno

LEMMA IshodSuglasan ==
    ASSUME Uredeno, Suglasno, NEW n \in Cvor, NEW t \in Uredne(n), NEW ned, Ishod(n, t, ned),
           knjiga[n] \subseteq t.K, odluke[n] \subseteq t.O, Redom(t), Zapis \subseteq Tocni(t)
    PROVE  Suglasno'
<1>1. \A m \in Cvor :
         IF m = n
         THEN /\ knjiga'[m] = t.K /\ odluke'[m] = t.O /\ vlastite'[m] = t.vl
              /\ povrsina'[m] = t.p
         ELSE /\ knjiga'[m] = knjiga[m] /\ odluke'[m] = odluke[m] /\ vlastite'[m] = vlastite[m]
              /\ povrsina'[m] = povrsina[m] /\ popis'[m] = popis[m]
  BY DEF Uredeno, Osnova, Ishod
<1>2. Napisano' = Sve(t)
  <2>1. Napisano' = UNION {knjiga'[m] \cup odluke'[m] : m \in Cvor}  BY DEF Napisano
  <2>2. ASSUME NEW x \in Napisano'  PROVE x \in Sve(t)
    <3>1. PICK m \in Cvor : x \in knjiga'[m] \cup odluke'[m]  BY <2>1, <2>2
    <3> QED  BY <1>1, <3>1 DEF Sve, Napisano
  <2>3. ASSUME NEW x \in Sve(t)  PROVE x \in Napisano'
    <3>1. CASE x \in t.K \cup t.O  BY <1>1, <2>1, <3>1
    <3>2. CASE x \in Napisano
      <4>1. PICK m \in Cvor : x \in knjiga[m] \cup odluke[m]  BY <3>2 DEF Napisano
      <4>2. x \in knjiga'[m] \cup odluke'[m]  BY <1>1, <4>1
      <4> QED  BY <2>1, <4>2
    <3> QED  BY <2>3, <3>1, <3>2 DEF Sve
  <2> QED  BY <2>2, <2>3
<1>3. IsFiniteSet(Sve(t)) /\ Cardinality(Sve(t)) \in Nat /\ Cardinality(Sve(t)) <= ZadnjaOznaka
  BY SveKonacno DEF Uredeno, Ishod, Sve
<1>4. OznakeRedom(Sve(t)) /\ \A x \in Sve(t) : x.oznaka <= ZadnjaOznaka
  <2>1. \A x \in Sve(t) : x.oznaka \in 1 .. Cardinality(Sve(t))  BY DEF Redom, OznakeRedom
  <2>2. ZadnjaOznaka \in Nat  BY PravaPretpostavka
  <2> QED  BY <1>3, <2>1, <2>2 DEF Redom
<1>5. Cardinality(Napisano) \in Nat /\ Cardinality(Napisano) <= Cardinality(Sve(t))
  <2>1. Napisano \subseteq Sve(t)  BY DEF Sve
  <2> QED  BY <1>3, <2>1, FS_Subset, FS_CardinalityType
<1>6. ASSUME NEW m \in Cvor
      PROVE  OdlukeRedom(odluke'[m], Cardinality(Sve(t))) /\ Tocni(Transakcija(m)') = Zapis
  <2>1. CASE m = n
    <3> DEFINE u == Transakcija(n)'
    <3>1. u.K = t.K /\ u.O = t.O /\ u.vl = t.vl /\ u.p = t.p  BY <1>1 DEF Transakcija
    <3> HIDE DEF u
    <3>2. Tocni(u) = Tocni(t)  BY <3>1, TocniPoPoljima
    <3>3. Tocni(u) = Zapis  BY <3>2 DEF Tocni
    <3> QED  BY <1>1, <2>1, <3>3 DEF Redom, u
  <2>2. CASE m # n
    <3>1. Suglasan(m)  BY DEF Suglasno
    <3>2. \A x \in odluke[m] : x.verzija \in Nat  BY DEF Uredeno, Osnova, Odluke
    <3>3. OdlukeRedom(odluke[m], Cardinality(Sve(t)))  BY <1>3, <1>5, <3>1, <3>2 DEF Suglasan, OdlukeRedom
    <3>4. Transakcija(m)' = Transakcija(m)  BY <1>1, <2>2 DEF Transakcija
    <3> QED  BY <1>1, <2>2, <3>1, <3>3, <3>4 DEF Suglasan
  <2> QED  BY <2>1, <2>2
<1>7. \A m \in Cvor : Suglasan(m)'  BY <1>2, <1>6 DEF Suglasan
<1> QED  BY <1>2, <1>4, <1>7 DEF Suglasno

LEMMA SuglasanPocetak ==
    ASSUME Uredeno, Suglasno, NEW n \in Cvor
    PROVE  /\ Transakcija(n) \in Uredne(n) /\ Redom(Transakcija(n)) /\ Tocni(Transakcija(n)) = Zapis
           /\ Sve(Transakcija(n)) = Napisano /\ IsFiniteSet(Napisano)
           /\ Transakcija(n).K = knjiga[n] /\ Transakcija(n).O = odluke[n]
BY TransakcijaUredna, TransakcijaRedom DEF Suglasno, Suglasan, Uredeno

LEMMA UpisiSuglasno ==
    ASSUME Uredeno, Suglasno, NEW n \in Cvor, NEW z \in Zapis, NEW prava \in PravaZapisa(z),
           z \in Duznost => povrsina[n][Vlasnik[z]] # Nema, Upisi(n, z, prava)
    PROVE  Suglasno'
<1> DEFINE t == UKnjigu(n, z, prava)
           v == Napisana(n, z, prava)
           w == Zadnja(t.K, z)
           u == PotvrdiIzmjenu(t, n, w)
<1>1. Cardinality(Napisano) < ZadnjaOznaka /\ Ishod(n, u, nedovrseni[n])  BY DEF Upisi
<1>2. t \in Uredne(n) /\ t.K = knjiga[n] \cup {v} /\ v.zapis = z /\ t.O = odluke[n]
  BY <1>1, UKnjiguUredno
<1>3. Redom(u) /\ Zapis \subseteq Tocni(u)  BY <1>1, PotvrdiTocno DEF Suglasno
<1> HIDE DEF t, v
<1>4. w \in t.K
  <2>1. t.K \in SUBSET Verzija  BY <1>2 DEF Uredne, Transakcije
  <2>2. z \in ZapisiU(t.K)  BY <1>2 DEF ZapisiU
  <2> QED  BY <2>1, <2>2, ZadnjaIzKnjige
<1> HIDE DEF w
<1>5. u \in Potpisano(n, t)  BY <1>2, <1>4, PotvrdiUredno
<1> HIDE DEF u
<1>6. u \in Uredne(n) /\ knjiga[n] \subseteq u.K /\ odluke[n] \subseteq u.O  BY <1>2, <1>5 DEF Potpisano
<1> QED  BY <1>1, <1>3, <1>6, IshodSuglasan

LEMMA OdluciSuglasno ==
    ASSUME Uredeno, Suglasno, NEW n \in Cvor, NEW odluka \in {"potvrdeno", "odbijeno"}, NEW v \in knjiga[n],
           OdluciKljucem(n, v, odluka)
    PROVE  Suglasno'
<1> DEFINE t0 == Transakcija(n)
           z == v.zapis
           t == PotpisiPolaziste(t0, n, z)
           u == Potpisi(t, n, z, v.oznaka, odluka, v.prava)
           w == ObnoviZapis(u, z)
<1>1. Ishod(n, w, nedovrseni[n])  BY DEF OdluciKljucem
<1>2. /\ t0 \in Uredne(n) /\ Redom(t0) /\ Tocni(t0) = Zapis /\ Sve(t0) = Napisano
      /\ IsFiniteSet(Napisano) /\ t0.K = knjiga[n] /\ t0.O = odluke[n]
  BY SuglasanPocetak
<1>3. v \in Verzija /\ z \in Zapis  BY VerzijaPolja DEF Uredeno, Osnova
<1> HIDE DEF t0, z
<1>4. t \in Potpisano(n, t0) /\ Redom(t) /\ Tocni(t0) \ {z} \subseteq Tocni(t)
  BY <1>2, <1>3, PolazisteUredno, PolazisteTocno
<1> HIDE DEF t
<1>5. t \in Uredne(n) /\ t.K = knjiga[n] /\ odluke[n] \subseteq t.O  BY <1>2, <1>4 DEF Potpisano
<1>6. v.oznaka <= Cardinality(Sve(t))  BY <1>4, <1>5, VerzijaRedom
<1>7. u \in Potpisano(n, t) /\ Redom(u) /\ Tocni(t) \ {z} \subseteq Tocni(u)
  <2>1. v.oznaka \in Nat /\ v.prava \in PravaRacuna \cup PravaDuznosti /\ v.prava \in PravaZapisa(z)
    BY <1>3, VerzijaPolja DEF z
  <2>2. u \in Potpisano(n, t)  BY <1>2, <1>3, <1>5, <2>1, PotpisiUredno
  <2>3. Redom(u) /\ Tocni(t) \ {z} \subseteq Tocni(u)  BY <1>2, <1>3, <1>4, <1>5, <1>6, <2>1, PotpisiTocno
  <2> QED  BY <2>2, <2>3
<1> HIDE DEF u
<1>8. u \in Uredne(n)  BY <1>7 DEF Potpisano
<1>9. w \in Nastavak(n, u) /\ Tocni(u) \cup {z} \subseteq Tocni(w)  BY <1>3, <1>8, ObnoviUredno, ObnoviTocno
<1> HIDE DEF w
<1>10. w \in Uredne(n) /\ knjiga[n] \subseteq w.K /\ odluke[n] \subseteq w.O
  BY <1>5, <1>7, <1>9 DEF Potpisano, Nastavak
<1>11. Redom(w)  BY <1>7, <1>9, NastavakRedom
<1>12. Zapis \subseteq Tocni(w)  BY <1>2, <1>4, <1>7, <1>9
<1> QED  BY <1>1, <1>10, <1>11, <1>12, IshodSuglasan

LEMMA PotpisiStanjeSuglasno ==
    ASSUME Uredeno, Suglasno, NEW n \in Cvor, NEW ned,
           Ishod(n, PotpisiSve(Transakcija(n), n), ned)
    PROVE  Suglasno'
<1> DEFINE t0 == Transakcija(n)
           t == PotpisiSve(t0, n)
<1>1. /\ t0 \in Uredne(n) /\ Redom(t0) /\ Tocni(t0) = Zapis
      /\ IsFiniteSet(Napisano) /\ t0.K = knjiga[n] /\ t0.O = odluke[n]
  BY SuglasanPocetak
<1>2. Ishod(n, t, ned)  OBVIOUS
<1> HIDE DEF t0
<1>3. t \in Potpisano(n, t0) /\ Redom(t) /\ Tocni(t0) \subseteq Tocni(t)
  BY <1>1, PotpisiSveUredno, PotpisiSveTocno
<1> HIDE DEF t
<1>4. t \in Uredne(n) /\ knjiga[n] \subseteq t.K /\ odluke[n] \subseteq t.O  BY <1>1, <1>3 DEF Potpisano
<1>5. Zapis \subseteq Tocni(t)  BY <1>1, <1>3
<1> QED  BY <1>2, <1>3, <1>4, <1>5, IshodSuglasan

LEMMA UcitajSuglasno ==
    ASSUME Uredeno, Suglasno, NEW n \in Cvor, UcitajKopijuKljuca(n)
    PROVE  Suglasno'
<1> DEFINE t0 == Transakcija(n)
           t == PotpisiSve(t0, n)
<1>1. Ishod(n, IF t.ceka = {} THEN t ELSE t0, nedovrseni[n])  BY DEF UcitajKopijuKljuca
<1>2. CASE t.ceka = {}
  <2>1. Ishod(n, t, nedovrseni[n])  BY <1>1, <1>2
  <2> QED  BY <2>1, PotpisiStanjeSuglasno
<1>3. CASE t.ceka # {}
  <2>1. Ishod(n, t0, nedovrseni[n])  BY <1>1, <1>3
  <2>2. t0 \in Uredne(n) /\ Redom(t0) /\ Tocni(t0) = Zapis /\ t0.K = knjiga[n] /\ t0.O = odluke[n]
    BY SuglasanPocetak
  <2>3. Zapis \subseteq Tocni(t0) /\ knjiga[n] \subseteq t0.K /\ odluke[n] \subseteq t0.O  BY <2>2
  <2> HIDE DEF t0
  <2> QED  BY <2>1, <2>2, <2>3, IshodSuglasan
<1> QED  BY <1>2, <1>3

\* What came, with what waits, shows as the ledger says.
LEMMA PrimljenoTocno ==
    ASSUME Uredeno, Suglasno, NEW n \in Cvor, NEW m \in Cvor, NEW V \in SUBSET knjiga[m],
           NEW D \in SUBSET odluke[m], NEW t \in Uredne(n), NEW ned \in SUBSET ZapisiU(t.K),
           t.K = knjiga[n] \cup V, t.O = odluke[n] \cup D, t.vl = vlastite[n], t.p = povrsina[n]
    PROVE  LET w == ApplyVersions(t, V, D, ned)
           IN  w \in Nastavak(n, t) /\ Redom(w) /\ Zapis \subseteq Tocni(w)
<1> DEFINE t0 == Transakcija(n)
           w == ApplyVersions(t, V, D, ned)
<1>1. /\ t0 \in Uredne(n) /\ Tocni(t0) = Zapis /\ t0.K = knjiga[n] /\ t0.O = odluke[n]
      /\ t0.vl = vlastite[n] /\ t0.p = povrsina[n]
  BY SuglasanPocetak, TransakcijaUredna
<1> HIDE DEF t0
<1>2. Sve(t) = Napisano /\ V \subseteq Napisano /\ D \subseteq Napisano
  BY DEF Sve, Napisano
<1>3. Redom(t)
  <2>1. OdlukeRedom(odluke[n], Cardinality(Napisano)) /\ OdlukeRedom(odluke[m], Cardinality(Napisano))
    BY DEF Suglasno, Suglasan
  <2>2. OdlukeRedom(t.O, Cardinality(Napisano))  BY <2>1 DEF OdlukeRedom
  <2> QED  BY <1>2, <2>2 DEF Redom, Suglasno
<1>4. \A x \in Napisano : Jedina(Napisano, x) /\ x.oznaka \in 1 .. ZadnjaOznaka
  <2>1. \A x \in Napisano : x.oznaka \in 1 .. Cardinality(Napisano) /\ x.oznaka <= ZadnjaOznaka
    BY DEF Suglasno, OznakeRedom
  <2>2. Cardinality(Napisano) \in Nat /\ ZadnjaOznaka \in Nat
    BY PravaPretpostavka, FS_CardinalityType DEF Uredeno
  <2>3. \A x \in Napisano : x.oznaka \in 1 .. ZadnjaOznaka  BY <2>1, <2>2
  <2> QED  BY <2>3 DEF Suglasno, OznakeRedom, Jedina
<1>5. (\A v \in t.K : Jedina(t.K, v)) /\ \A x \in D : Jedina(D, x) /\ x.oznaka \in 1 .. ZadnjaOznaka
  <2>1. t.K \subseteq Napisano  BY <1>2 DEF Sve
  <2> QED  BY <1>2, <1>4, <2>1 DEF Jedina
<1>6. V \in SUBSET t.K /\ D \in SUBSET Odluke  BY DEF Uredeno, Osnova
<1>7. w \in Nastavak(n, t)  BY <1>6, ApplyVersionsUredno
<1>8. /\ Tocni(t) \subseteq Tocni(w) /\ \A v \in V : v.zapis \in Tocni(w)
      /\ \A x \in D : x.zapis # Mreza => x.zapis \in Tocni(w)
  <2> HIDE DEF w
  <2>1. /\ Tocni(t) \subseteq Tocni(ApplyVersions(t, V, D, ned))
        /\ \A v \in V : v.zapis \in Tocni(ApplyVersions(t, V, D, ned))
        /\ \A x \in D : x.zapis # Mreza => x.zapis \in Tocni(ApplyVersions(t, V, D, ned))
    BY <1>5, <1>6, ApplyVersionsTocno
  <2> QED  BY <2>1 DEF w
<1> HIDE DEF w
<1>9. ASSUME NEW z \in Zapis  PROVE z \in Tocni(w)
  <2>1. Mreza # z  BY PravaPretpostavka
  <2>2. CASE (\A v \in V : v.zapis # z) /\ (\A x \in D : x.zapis # z)
    <3>1. IstaPovijest(t0, t, z)  BY <1>1, <2>2 DEF IstaPovijest, VerzijeZapisa, OdlukeZapisa
    <3>2. Sakriva(t0, t, z) /\ t0.K \subseteq t.K /\ z \in Tocni(t0)  BY <1>1 DEF Sakriva
    <3>3. z \in Tocni(t)  BY <1>1, <3>1, <3>2, TocanOstaje
    <3> QED  BY <1>8, <3>3
  <2> QED  BY <1>8, <2>1, <2>2
<1>10. Redom(w)  BY <1>3, <1>7, NastavakRedom
<1> QED  BY <1>7, <1>9, <1>10 DEF w

LEMMA PrimijenjenoSuglasno ==
    ASSUME Uredeno, Suglasno, NEW n \in Cvor, NEW m \in Cvor, NEW V \in SUBSET knjiga[m],
           NEW D \in SUBSET odluke[m], NEW t \in Uredne(n), NEW ned \in SUBSET ZapisiU(t.K),
           t.K = knjiga[n] \cup V, t.O = odluke[n] \cup D, t.vl = vlastite[n], t.p = povrsina[n],
           Ishod(n, ApplyVersions(t, V, D, ned), ApplyVersions(t, V, D, ned).ceka)
    PROVE  Suglasno'
<1> DEFINE w == ApplyVersions(t, V, D, ned)
<1>1. w \in Nastavak(n, t) /\ Redom(w) /\ Zapis \subseteq Tocni(w)  BY PrimljenoTocno
<1>2. Ishod(n, w, w.ceka)  OBVIOUS
<1> HIDE DEF w
<1>3. w \in Uredne(n) /\ knjiga[n] \subseteq w.K /\ odluke[n] \subseteq w.O  BY <1>1 DEF Nastavak
<1> QED  BY <1>1, <1>2, <1>3, IshodSuglasan

LEMMA PrimiSuglasno ==
    ASSUME Uredeno, Suglasno, NEW n \in Cvor, NEW m \in Cvor, NEW X, Primi(n, m, X)
    PROVE  Suglasno'
<1> DEFINE V == X \cap knjiga[m]
           D == X \cap odluke[m]
           t == [Transakcija(n) EXCEPT !.K = @ \cup V, !.O = @ \cup D]
           w == ApplyVersions(t, V, D, nedovrseni[n])
<1>1. Ishod(n, w, w.ceka)  BY DEF Primi
<1>2. V \in SUBSET knjiga[m] /\ D \in SUBSET odluke[m]  OBVIOUS
<1>3. t \in Uredne(n) /\ nedovrseni[n] \in SUBSET ZapisiU(t.K)
  <2> HIDE DEF V, D
  <2> QED  BY <1>2, PrimljenoUredno
<1>4. t.K = knjiga[n] \cup V /\ t.O = odluke[n] \cup D /\ t.vl = vlastite[n] /\ t.p = povrsina[n]
  <2> HIDE DEF V, D
  <2> QED  BY DEF Transakcija
<1> HIDE DEF t, V, D
<1> QED  BY <1>1, <1>2, <1>3, <1>4, PrimijenjenoSuglasno

LEMMA PokreniSuglasno ==
    ASSUME Uredeno, Suglasno, NEW n \in Cvor, Pokreni(n)
    PROVE  Suglasno'
<1> DEFINE t == Transakcija(n)
           w == ApplyVersions(t, knjiga[n], odluke[n], {})
<1>1. Ishod(n, w, w.ceka)  BY DEF Pokreni
<1>2. t \in Uredne(n) /\ t.K = knjiga[n] /\ t.O = odluke[n] /\ t.vl = vlastite[n] /\ t.p = povrsina[n]
  BY TransakcijaUredna
<1> HIDE DEF t
<1>3. t.K = knjiga[n] \cup knjiga[n] /\ t.O = odluke[n] \cup odluke[n]  BY <1>2
<1>4. {} \in SUBSET ZapisiU(t.K)  OBVIOUS
<1> QED  BY <1>1, <1>2, <1>3, <1>4, PrimijenjenoSuglasno

LEMMA KorakSuglasan ==
    ASSUME Uredeno, Suglasno, [Next]_vars
    PROVE  Suglasno'
<1>1. \A n \in Cvor : Pise[n] \subseteq Zapis  BY PravaPretpostavka
<1>2. ASSUME NEW n \in Cvor, NEW z \in Pise[n], NEW prava \in PravaZapisa(z), Izmijeni(n, z, prava)
      PROVE Suglasno'
  <2>1. z \in Zapis /\ povrsina[n][z] # Nema /\ Upisi(n, z, prava)  BY <1>1, <1>2 DEF Izmijeni
  <2>2. z \in Duznost => povrsina[n][Vlasnik[z]] # Nema  BY <2>1, UredenoDaje DEF TypeOK
  <2> QED  BY <2>1, <2>2, UpisiSuglasno
<1>3. ASSUME NEW n \in Cvor, NEW z \in Pise[n], NEW prava \in PravaZapisa(z), Novi(n, z, prava)
      PROVE Suglasno'
  <2>1. z \in Zapis /\ Upisi(n, z, prava) /\ (z \in Duznost => povrsina[n][Vlasnik[z]] # Nema)
    BY <1>1, <1>3 DEF Novi
  <2> QED  BY <2>1, UpisiSuglasno
<1>4. ASSUME NEW n \in Cvor, NEW odluka \in {"potvrdeno", "odbijeno"}, NEW v \in knjiga[n],
             OdluciKljucem(n, v, odluka)
      PROVE Suglasno'
  BY <1>4, OdluciSuglasno
<1>5. ASSUME NEW n \in Cvor, PotpisiStanjePrava(n)  PROVE Suglasno'
  BY <1>5, PotpisiStanjeSuglasno DEF PotpisiStanjePrava
<1>6. ASSUME NEW n \in Cvor, UcitajKopijuKljuca(n)  PROVE Suglasno'
  BY <1>6, UcitajSuglasno
<1>7. ASSUME NEW n \in Cvor, NEW m \in Cvor, NEW X \in Paketi(n, m), Primi(n, m, X)  PROVE Suglasno'
  BY <1>7, PrimiSuglasno
<1>8. ASSUME NEW n \in Cvor, Pokreni(n)  PROVE Suglasno'
  BY <1>8, PokreniSuglasno
<1>9. ASSUME UNCHANGED vars  PROVE Suglasno'
  <2>1. /\ knjiga' = knjiga /\ odluke' = odluke /\ vlastite' = vlastite
        /\ povrsina' = povrsina /\ popis' = popis
    BY <1>9 DEF vars
  <2>2. Napisano' = Napisano  BY <2>1 DEF Napisano
  <2>3. \A n \in Cvor : Transakcija(n)' = Transakcija(n)  BY <2>1 DEF Transakcija
  <2> QED  BY <2>1, <2>2, <2>3 DEF Suglasno, Suglasan
<1> QED  BY <1>2, <1>3, <1>4, <1>5, <1>6, <1>7, <1>8, <1>9 DEF Next

-----------------------------------------------------------------------------
(* Own versions no decision covers, before the last point, change nothing *)

LEMMA IstoRazdoblje ==
    ASSUME NEW A \in SUBSET Nat, NEW a \in Nat, NEW b \in Nat
    PROVE  Razdoblje(A, a) = Razdoblje(A, b) <=> \A t \in A : t <= a <=> t <= b
<1> DEFINE S(c) == {t \in A : t <= c}
<1>1. ASSUME NEW c \in Nat  PROVE IsFiniteSet(S(c)) /\ Razdoblje(A, c) = Cardinality(S(c))
  <2>1. S(c) \subseteq 0 .. c
    <3> SUFFICES ASSUME NEW t \in S(c)  PROVE t \in 0 .. c
      OBVIOUS
    <3>1. t \in Nat /\ t <= c  OBVIOUS
    <3> QED  BY <3>1
  <2>2. IsFiniteSet(0 .. c)  BY FS_Interval
  <2> QED  BY <2>1, <2>2, FS_Subset DEF Razdoblje
<1>2. ASSUME NEW c \in Nat, NEW d \in Nat, c <= d, Cardinality(S(c)) = Cardinality(S(d))
      PROVE  S(c) = S(d)
  <2>1. S(c) \subseteq S(d)
    <3> SUFFICES ASSUME NEW t \in S(c)  PROVE t \in S(d)
      OBVIOUS
    <3>1. t \in Nat /\ t \in A /\ t <= c  OBVIOUS
    <3>2. t <= d  BY <1>2, <3>1
    <3> QED  BY <3>1, <3>2
  <2>2. IsFiniteSet(S(d))  BY <1>1
  <2> HIDE DEF S
  <2> QED  BY <1>2, <2>1, <2>2, FS_Subset
<1>3. a <= b \/ b <= a  OBVIOUS
<1>4. Cardinality(S(a)) = Cardinality(S(b)) <=> S(a) = S(b)
  <2> HIDE DEF S
  <2> QED  BY <1>2, <1>3
<1>5. S(a) = S(b) <=> \A t \in A : t <= a <=> t <= b  OBVIOUS
<1> HIDE DEF S
<1> QED  BY <1>1, <1>4, <1>5

LEMMA TockeSu ==
    ASSUME NEW K, NEW D \in SUBSET Odluke, IsFiniteSet(D), NEW vl, NEW o
    PROVE  /\ o \in OznakeU(K) => (o \in Tocke(K, D, vl) <=> Postavlja(D, vl, o))
           /\ o \notin OznakeU(K) => (o \in Tocke(K, D, vl) <=> OOznaci(PotvrdeBezVerzije(K, D), o) # {})
<1>1. ASSUME NEW y \in PotvrdeBezVerzije(K, D)  PROVE y.verzija \notin OznakeU(K)
  <2>1. PICK x \in Potvrde(D) : /\ x.verzija \notin OznakeU(K)
                                /\ y = Kasnija(OOznaci(Potvrde(D), x.verzija))
    BY DEF PotvrdeBezVerzije
  <2> DEFINE S == OOznaci(Potvrde(D), x.verzija)
  <2>2. x \in S /\ S \subseteq D /\ \A w \in S : w.verzija = x.verzija  BY DEF OOznaci, Potvrde
  <2>3. y = Kasnija(S)  BY <2>1
  <2> HIDE DEF S
  <2>4. IsFiniteSet(S)  BY <2>2, FS_Subset
  <2>5. y \in S  BY <2>2, <2>3, <2>4, OdlukaUnutra
  <2> QED  BY <2>1, <2>2, <2>5
<1>2. Tocke(K, D, vl) = {i \in OznakeU(K) : Postavlja(D, vl, i)} \cup {x.verzija : x \in PotvrdeBezVerzije(K, D)}
  BY DEF Tocke, Postavlja
<1>3. o \in {x.verzija : x \in PotvrdeBezVerzije(K, D)} <=> OOznaci(PotvrdeBezVerzije(K, D), o) # {}
  BY DEF OOznaci
<1> QED  BY <1>1, <1>2, <1>3

LEMMA TockeBrojevi ==
    ASSUME NEW K \in SUBSET Verzija, NEW D \in SUBSET Odluke, IsFiniteSet(D), NEW vl
    PROVE  Tocke(K, D, vl) \in SUBSET Nat
<1>1. \A v \in K : v.oznaka \in Nat  BY VerzijaPolja
<1>2. \A x \in PotvrdeBezVerzije(K, D) : x.verzija \in Nat
  <2>1. \A x \in D : x.verzija \in Nat  BY DEF Odluke
  <2> QED  BY <2>1, BezVerzijePotvrde DEF Potvrde
<1>3. Tocke(K, D, vl) \subseteq OznakeU(K) \cup {x.verzija : x \in PotvrdeBezVerzije(K, D)}  BY DEF Tocke
<1> QED  BY <1>1, <1>2, <1>3 DEF OznakeU

\* The version labelled i, and the rights of a confirmation of one that is not
\* in the history.
Oznacena(K, i) == CHOOSE v \in K : v.oznaka = i
PotvrdenaPrava(K, D, i) == (CHOOSE x \in OOznaci(PotvrdeBezVerzije(K, D), i) : TRUE).prava

LEMMA DaljeDaje ==
    ASSUME NEW p, NEW vl, NEW K \in SUBSET Verzija, NEW D \in SUBSET Odluke, IsFiniteSet(D),
           NEW s \in Stanja, NEW i \in 1 .. ZadnjaOznaka
    PROVE  /\ Dalje(p, K, D, vl, s, i).zadnja = IF i \in OznakeU(K) THEN i ELSE s.zadnja
           /\ Dalje(p, K, D, vl, s, i).tocka = IF i \in Tocke(K, D, vl) THEN i ELSE s.tocka
           /\ Dalje(p, K, D, vl, s, i).prava =
                 IF i \in OznakeU(K) THEN NovaPrava(p, K, D, vl, s.prava, Oznacena(K, i))
                 ELSE IF i \in Tocke(K, D, vl) THEN PotvrdenaPrava(K, D, i) ELSE s.prava
<1> DEFINE u == Dalje(p, K, D, vl, s, i)
           v == Oznacena(K, i)
           bez == OOznaci(PotvrdeBezVerzije(K, D), i)
           x == CHOOSE x \in bez : TRUE
<1>0. /\ i \in OznakeU(K) => (i \in Tocke(K, D, vl) <=> Postavlja(D, vl, i))
      /\ i \notin OznakeU(K) => (i \in Tocke(K, D, vl) <=> bez # {})
  BY TockeSu
<1>1. CASE i \in OznakeU(K)
  <2>1. v \in K /\ v.oznaka = i  BY <1>1 DEF OznakeU, Oznacena
  <2>2. u = Korak(p, K, D, vl, s, v)  BY <1>1 DEF Dalje, Oznacena
  <2> HIDE DEF u, v
  <2>3. /\ u.prava = NovaPrava(p, K, D, vl, s.prava, v)
        /\ u.tocka = IF Postavlja(D, vl, v.oznaka) THEN v.oznaka ELSE s.tocka
        /\ u.zadnja = v.oznaka
    BY <2>1, <2>2, KorakDaje
  <2> QED  BY <1>0, <1>1, <2>1, <2>3 DEF u, v
<1>2. CASE i \notin OznakeU(K)
  <2>0. PotvrdenaPrava(K, D, i) = x.prava  BY DEF PotvrdenaPrava
  <2>1. u = IF bez # {} THEN Postavi(s, i, x.prava) ELSE s  BY <1>2 DEF Dalje
  <2> HIDE DEF u, x, bez
  <2>2. s \in [prava : SvaPrava \cup {Nema}, tocka : Nat, zadnja : Nat, ishod : Popisi]
    BY PravaPretpostavka DEF Stanja, SvaPrava
  <2>3. /\ Postavi(s, i, x.prava).prava = x.prava /\ Postavi(s, i, x.prava).tocka = i
        /\ Postavi(s, i, x.prava).zadnja = s.zadnja
    BY <2>2, PostaviDaje
  <2>4. /\ u.zadnja = s.zadnja /\ u.tocka = (IF bez # {} THEN i ELSE s.tocka)
        /\ u.prava = (IF bez # {} THEN x.prava ELSE s.prava)
    BY <2>1, <2>3
  <2> QED  BY <1>0, <1>2, <2>0, <2>4 DEF u
<1> QED  BY <1>1, <1>2

\* Where the last point is.
LEMMA ZadnjaTocka ==
    ASSUME NEW p, NEW vl, NEW K \in SUBSET Verzija, NEW D \in SUBSET Odluke, IsFiniteSet(D),
           \A x \in Potvrde(D) : x.prava \in SvaPrava
    PROVE  LET T == IzracunajStanje(p, K, D, vl).tocka
           IN  /\ T \in 0 .. ZadnjaOznaka /\ (T = 0 \/ T \in Tocke(K, D, vl))
               /\ \A i \in 1 .. ZadnjaOznaka : i \in Tocke(K, D, vl) => i <= T
<1> DEFINE N == ZadnjaOznaka
           A == Tocke(K, D, vl)
           Dobra(T, i) == T \in 0 .. i /\ (T = 0 \/ T \in A) /\ \A j \in 1 .. i : j \in A => j <= T
<1>1. PICK g : Racuna(SvaPrava, p, K, D, vl, g)  BY SvePrave, RacunaSe
<1>2. N \in Nat  BY PravaPretpostavka
<1> HIDE DEF A
<1> DEFINE Q == {i \in 0 .. N : Dobra(g[i].tocka, i)}
<1>3. 0 \in Q
  <2>1. g[0].tocka = 0  BY <1>1 DEF Racuna
  <2>2. Dobra(0, 0)  OBVIOUS
  <2> QED  BY <1>2, <2>1, <2>2
<1>4. ASSUME NEW i \in 1 .. N, i - 1 \in Q  PROVE i \in Q
  <2>1. i - 1 \in 0 .. N /\ i \in 0 .. N /\ i \in Nat  BY <1>2
  <2>2. g[i - 1] \in Stanja /\ g[i] = Dalje(p, K, D, vl, g[i - 1], i)
    BY <1>1, <2>1 DEF Racuna, DobraStanja
  <2> DEFINE s == g[i - 1]
             T == s.tocka
             U == g[i].tocka
  <2>3. U = IF i \in A THEN i ELSE T
    <3>1. s \in Stanja /\ g[i] = Dalje(p, K, D, vl, s, i) /\ i \in 1 .. ZadnjaOznaka  BY <2>2
    <3> HIDE DEF s, N, Q, Dobra
    <3>2. Dalje(p, K, D, vl, s, i).tocka = IF i \in Tocke(K, D, vl) THEN i ELSE s.tocka
      BY <3>1, DaljeDaje
    <3> QED  BY <3>1, <3>2 DEF A
  <2>4. Dobra(T, i - 1)  BY <1>4
  <2> HIDE DEF T, U
  <2>5. Dobra(U, i)  BY <2>1, <2>3, <2>4
  <2> QED  BY <2>1, <2>5 DEF U
<1>5. N \in Q
  <2> HIDE DEF Q, N
  <2>1. 0 .. N \subseteq Q  BY <1>2, <1>3, <1>4, Korakom
  <2> QED  BY <1>2, <2>1
<1>6. IzracunajStanje(p, K, D, vl) = g[N]  BY <1>1 DEF Racuna
<1>7. Dobra(IzracunajStanje(p, K, D, vl).tocka, N)  BY <1>5, <1>6
<1> QED  BY <1>7 DEF A

\* With no own version of its own after the last point T, a history has the same
\* points after it on every node, and carries the same rejections.
LEMMA RazdobljaPoslije ==
    ASSUME NEW A \in SUBSET Nat, NEW B \in SUBSET Nat, B \subseteq A, NEW T \in Nat,
           T = 0 \/ T \in B, \A t \in A \ B : t <= T,
           NEW a \in Nat, NEW b \in Nat, T <= b
    PROVE  Razdoblje(A, a) = Razdoblje(A, b) <=> Razdoblje(B, a) = Razdoblje(B, b)
<1>1. /\ Razdoblje(A, a) = Razdoblje(A, b) <=> \A t \in A : t <= a <=> t <= b
      /\ Razdoblje(B, a) = Razdoblje(B, b) <=> \A t \in B : t <= a <=> t <= b
  BY IstoRazdoblje
<1>2. ASSUME \A t \in B : t <= a <=> t <= b, NEW t \in A  PROVE t <= a <=> t <= b
  <2>1. CASE t \in B  BY <1>2, <2>1
  <2>2. CASE t \notin B
    <3>1. t <= T /\ t \in Nat  BY <2>2
    <3>2. T <= a
      <4>1. CASE T = 0  BY <4>1
      <4>2. CASE T \in B  BY <1>2, <4>2
      <4> QED  BY <4>1, <4>2
    <3> QED  BY <3>1, <3>2
  <2> QED  BY <2>1, <2>2
<1> QED  BY <1>1, <1>2

LEMMA VlastiteBezUtjecaja ==
    ASSUME NEW p, NEW vl, NEW K \in SUBSET Verzija, NEW D \in SUBSET Odluke, IsFiniteSet(D),
           \A x \in Potvrde(D) : x.prava \in SvaPrava,
           \A v \in K : v.oznaka \in vl /\ v.oznaka > IzracunajStanje(p, K, D, {}).tocka
                        => Tocna(D, v.oznaka) # Nema
    PROVE  /\ IzracunajStanje(p, K, D, vl).prava = IzracunajStanje(p, K, D, {}).prava
           /\ IzracunajStanje(p, K, D, vl).zadnja = IzracunajStanje(p, K, D, {}).zadnja
<1> DEFINE N == ZadnjaOznaka
           T == IzracunajStanje(p, K, D, {}).tocka
           A == Tocke(K, D, vl)
           B == Tocke(K, D, {})
<1>1. PICK g : Racuna(SvaPrava, p, K, D, vl, g)  BY SvePrave, RacunaSe
<1>2. PICK h : Racuna(SvaPrava, p, K, D, {}, h)  BY SvePrave, RacunaSe
<1>3. T \in 0 .. N /\ (T = 0 \/ T \in B) /\ \A i \in 1 .. N : i \in B => i <= T
  BY ZadnjaTocka
<1>4. A \in SUBSET Nat /\ B \in SUBSET Nat  BY TockeBrojevi
<1>5. B \subseteq A  BY DEF Tocke
<1>6. \A t \in A \ B : t <= T
  <2> SUFFICES ASSUME NEW t \in A, t \notin B  PROVE t <= T
    OBVIOUS
  <2>1. t \in OznakeU(K) /\ t \in vl /\ Tocna(D, t) = Nema  BY DEF Tocke
  <2>2. PICK v \in K : v.oznaka = t  BY <2>1 DEF OznakeU
  <2>3. ~(v.oznaka > T)  BY <2>1, <2>2
  <2> QED  BY <1>3, <1>4, <2>2, <2>3
<1>7. N \in Nat /\ T \in Nat  BY <1>3, PravaPretpostavka
<1>8. \A y \in D : y.verzija \in Nat  BY DEF Odluke
<1> HIDE DEF T, A, B
\* After T nothing holds at once on either node.
<1>9. ASSUME NEW i \in 1 .. N, i > T, i \in OznakeU(K), NEW prava
      PROVE  NovaPrava(p, K, D, vl, prava, Oznacena(K, i)) = NovaPrava(p, K, D, {}, prava, Oznacena(K, i))
  <2> DEFINE v == Oznacena(K, i)
             Preneseno(S) == \E y \in Odbijanja(D) :
                y.prava = v.prava /\ Razdoblje(S, y.verzija) = Razdoblje(S, i)
  <2>1. v \in K /\ v.oznaka = i  BY <1>9 DEF OznakeU, Oznacena
  <2> HIDE DEF v
  <2>2. Tocna(D, i) = Nema => i \notin vl  BY <1>9, <2>1 DEF T
  <2>3. Preneseno(A) <=> Preneseno(B)
    <3>1. ASSUME NEW y \in Odbijanja(D)
          PROVE  Razdoblje(A, y.verzija) = Razdoblje(A, i) <=> Razdoblje(B, y.verzija) = Razdoblje(B, i)
      <4>1. y.verzija \in Nat /\ i \in Nat /\ T <= i  BY <1>7, <1>8, <1>9 DEF Odbijanja
      <4> QED  BY <1>3, <1>4, <1>5, <1>6, <1>7, <4>1, RazdobljaPoslije
    <3> QED  BY <3>1
  <2>4. NovaPrava(p, K, D, vl, prava, v) =
          IF Tocna(D, i) # Nema THEN IF Tocna(D, i).odluka = "potvrdeno" THEN Tocna(D, i).prava ELSE prava
          ELSE IF i \in vl THEN v.prava
          ELSE IF Preneseno(A) \/ MijenjaPrava(p, prava, v) THEN prava ELSE v.prava
    BY <2>1 DEF NovaPrava, A
  <2>5. NovaPrava(p, K, D, {}, prava, v) =
          IF Tocna(D, i) # Nema THEN IF Tocna(D, i).odluka = "potvrdeno" THEN Tocna(D, i).prava ELSE prava
          ELSE IF Preneseno(B) \/ MijenjaPrava(p, prava, v) THEN prava ELSE v.prava
    BY <2>1 DEF NovaPrava, B
  <2> HIDE DEF Preneseno
  <2>6. NovaPrava(p, K, D, vl, prava, v) = NovaPrava(p, K, D, {}, prava, v)
    BY <2>2, <2>3, <2>4, <2>5
  <2> QED  BY <2>6 DEF v
\* At a point both set the same rights.
<1>10. ASSUME NEW i \in B, i \in OznakeU(K), NEW prava, NEW prije
       PROVE  NovaPrava(p, K, D, vl, prava, Oznacena(K, i)) = NovaPrava(p, K, D, {}, prije, Oznacena(K, i))
  <2> DEFINE v == Oznacena(K, i)
  <2>1. v \in K /\ v.oznaka = i  BY <1>10 DEF OznakeU, Oznacena
  <2>2. Postavlja(D, {}, i)  BY <1>10, TockeSu DEF B
  <2>3. Tocna(D, i) # Nema /\ Tocna(D, i).odluka = "potvrdeno"  BY <2>2 DEF Postavlja
  <2> HIDE DEF v
  <2>4. NovaPrava(p, K, D, vl, prava, v) = NovaPrava(p, K, D, {}, prije, v)
    BY <2>1, <2>3 DEF NovaPrava
  <2> QED  BY <2>4 DEF v
<1> DEFINE Slazu(s, u, i) == s.zadnja = u.zadnja /\ (i >= T => s.prava = u.prava)
           Q == {i \in 0 .. N : Slazu(g[i], h[i], i)}
<1>11. 0 \in Q
  <2>1. g[0].zadnja = h[0].zadnja /\ g[0].prava = h[0].prava  BY <1>1, <1>2 DEF Racuna
  <2> QED  BY <1>7, <2>1
<1>12. ASSUME NEW i \in 1 .. N, i - 1 \in Q  PROVE i \in Q
  <2>1. i - 1 \in 0 .. N /\ i \in 0 .. N /\ i \in 1 .. ZadnjaOznaka /\ i \in Nat  BY <1>7
  <2> DEFINE a == g[i - 1]
             b == h[i - 1]
             s == g[i]
             u == h[i]
  <2>2. a \in Stanja /\ b \in Stanja /\ s = Dalje(p, K, D, vl, a, i) /\ u = Dalje(p, K, D, {}, b, i)
    BY <1>1, <1>2, <2>1 DEF Racuna, DobraStanja
  <2>3. Slazu(a, b, i - 1)  BY <1>12
  <2> HIDE DEF a, b, s, u, Q
  <2>4. /\ s.zadnja = IF i \in OznakeU(K) THEN i ELSE a.zadnja
        /\ s.prava = IF i \in OznakeU(K) THEN NovaPrava(p, K, D, vl, a.prava, Oznacena(K, i))
                     ELSE IF i \in A THEN PotvrdenaPrava(K, D, i) ELSE a.prava
    BY <2>1, <2>2, DaljeDaje DEF A
  <2>5. /\ u.zadnja = IF i \in OznakeU(K) THEN i ELSE b.zadnja
        /\ u.prava = IF i \in OznakeU(K) THEN NovaPrava(p, K, D, {}, b.prava, Oznacena(K, i))
                     ELSE IF i \in B THEN PotvrdenaPrava(K, D, i) ELSE b.prava
    BY <2>1, <2>2, DaljeDaje DEF B
  <2>6. i \notin OznakeU(K) => (i \in A <=> i \in B)  BY TockeSu DEF A, B
  <2>7. s.zadnja = u.zadnja  BY <2>3, <2>4, <2>5
  <2>8. CASE i > T
    <3>1. a.prava = b.prava  BY <1>7, <2>1, <2>3, <2>8
    <3>2. i \in OznakeU(K) =>
            NovaPrava(p, K, D, vl, a.prava, Oznacena(K, i)) = NovaPrava(p, K, D, {}, b.prava, Oznacena(K, i))
      BY <1>9, <2>8, <3>1
    <3>3. s.prava = u.prava  BY <2>4, <2>5, <2>6, <3>1, <3>2
    <3> QED  BY <2>1, <2>7, <3>3 DEF Q, s, u
  <2>9. CASE i = T
    <3>1. i \in B  BY <1>3, <2>1, <2>9
    <3>2. i \in OznakeU(K) =>
            NovaPrava(p, K, D, vl, a.prava, Oznacena(K, i)) = NovaPrava(p, K, D, {}, b.prava, Oznacena(K, i))
      BY <1>10, <3>1
    <3>3. s.prava = u.prava  BY <2>4, <2>5, <2>6, <3>1, <3>2
    <3> QED  BY <2>1, <2>7, <3>3 DEF Q, s, u
  <2>10. CASE i < T  BY <1>7, <2>1, <2>7, <2>10 DEF Q, s, u
  <2> QED  BY <1>7, <2>1, <2>8, <2>9, <2>10
<1>13. Slazu(g[N], h[N], N)
  <2>1. N \in Q
    <3> HIDE DEF Q, N
    <3>1. 0 .. N \subseteq Q  BY <1>7, <1>11, <1>12, Korakom
    <3> QED  BY <1>7, <3>1
  <2> HIDE DEF Slazu
  <2> QED  BY <2>1
<1>14. IzracunajStanje(p, K, D, vl) = g[N] /\ IzracunajStanje(p, K, D, {}) = h[N]  BY <1>1, <1>2 DEF Racuna
<1>15. N >= T  BY <1>3, <1>7
<1> QED  BY <1>13, <1>14, <1>15

\* Without own versions after the last point, what the ledger says is the same as
\* without own versions at all.
LEMMA OcekivanoBezVlastitih ==
    ASSUME Uredeno, NEW n \in Cvor, NEW z \in Zapis, BezSvojih(n, z)
    PROVE  LET s == IzracunajStanje(povrsina[n], VerzijeZapisa(knjiga[n], z), OdlukeZapisa(odluke[n], z), {})
           IN  Ocekivano(Transakcija(n), z) = IF s.prava = Nema \/ s.zadnja = 0 THEN Nema
                                              ELSE Red(s.zadnja, s.prava)
<1> DEFINE t == Transakcija(n)
           K == VerzijeZapisa(knjiga[n], z)
           D == OdlukeZapisa(odluke[n], z)
           s == IzracunajStanje(povrsina[n], K, D, {})
           u == IzracunajStanje(povrsina[n], K, D, vlastite[n])
<1>1. t \in Uredne(n) /\ t.K = knjiga[n] /\ t.O = odluke[n] /\ t.vl = vlastite[n] /\ t.p = povrsina[n]
  BY TransakcijaUredna
<1>2. Stanje(t, z) = u  BY <1>1 DEF Stanje
<1> HIDE DEF t
<1>3. K \in SUBSET Verzija /\ D \in SUBSET Odluke /\ IsFiniteSet(D) /\ \A x \in Potvrde(D) : x.prava \in SvaPrava
  BY <1>1, OdlukeSuPrave
<1>4. \A v \in K : v.oznaka \in vlastite[n] /\ v.oznaka > s.tocka => Tocna(D, v.oznaka) # Nema
  BY DEF BezSvojih
<1> HIDE DEF K, D
<1>5. u.prava = s.prava /\ u.zadnja = s.zadnja  BY <1>3, <1>4, VlastiteBezUtjecaja
<1> HIDE DEF s, u
<1>6. Ocekivano(t, z) = IF s.prava = Nema \/ s.zadnja = 0 THEN Nema ELSE Red(s.zadnja, s.prava)
  BY <1>2, <1>5 DEF Ocekivano
<1> QED  BY <1>6 DEF s, K, D, t

LEMMA SuglasnoDaje ==
    ASSUME Uredeno, Suglasno
    PROVE  IstaPravaPoOdlukama
<1> SUFFICES ASSUME NEW n \in Cvor, NEW m \in Cvor, NEW z \in Zapis,
                    knjiga[n] = knjiga[m], odluke[n] = odluke[m],
                    OdlukeZapisa(odluke[n], z) # {}, BezDuznostiRacuna(n, z),
                    z \in Duznost => povrsina[n][z] # Nema /\ povrsina[m][z] # Nema,
                    BezSvojih(n, z), BezSvojih(m, z)
             PROVE  povrsina[n][z] = povrsina[m][z]
  BY DEF IstaPravaPoOdlukama
<1> DEFINE K == VerzijeZapisa(knjiga[n], z)
           D == OdlukeZapisa(odluke[n], z)
           s == IzracunajStanje(povrsina[n], K, D, {})
           u == IzracunajStanje(povrsina[m], K, D, {})
           t0 == Transakcija(n)
           t1 == Transakcija(m)
<1>1. /\ t0 \in Uredne(n) /\ t0.K = knjiga[n] /\ t0.O = odluke[n] /\ t0.p = povrsina[n]
      /\ t1 \in Uredne(m) /\ t1.K = knjiga[n] /\ t1.O = odluke[n] /\ t1.p = povrsina[m]
      /\ Tocan(t0, z) /\ Tocan(t1, z)
  BY TransakcijaUredna, SuglasanPocetak DEF Tocni
<1> HIDE DEF t0, t1
<1>2. BezDuznostiU(t0.K, z) /\ BezDuznostiU(t1.K, z)
  BY <1>1 DEF BezDuznostiU, BezDuznostiRacuna
<1>3. povrsina[n][z] = Ocekivano(t0, z) /\ povrsina[m][z] = Ocekivano(t1, z)
  BY <1>1, <1>2 DEF Tocan
<1>4. Ocekivano(t0, z) = IF s.prava = Nema \/ s.zadnja = 0 THEN Nema ELSE Red(s.zadnja, s.prava)
  BY OcekivanoBezVlastitih DEF t0
<1>5. Ocekivano(t1, z) = IF u.prava = Nema \/ u.zadnja = 0 THEN Nema ELSE Red(u.zadnja, u.prava)
  BY OcekivanoBezVlastitih DEF t1
<1>6. s = u
  <2>1. K \in SUBSET Verzija /\ D \in SUBSET Odluke /\ IsFiniteSet(D) /\ \A x \in Potvrde(D) : x.prava \in SvaPrava
    BY <1>1, OdlukeSuPrave
  <2>2. ~ImaUpravu(povrsina[n], z) /\ ~ImaUpravu(povrsina[m], z)  BY <1>1, <1>2, BezUprave
  <2>3. \A v \in K : v.zapis = z  BY DEF VerzijeZapisa
  <2> HIDE DEF K, D
  <2>4. IstoMijenja(povrsina[n], povrsina[m], K)  BY <2>2, <2>3, MijenjaIsto
  <2> QED  BY <2>1, <2>4, IzracunatoIsto
<1> QED  BY <1>3, <1>4, <1>5, <1>6

\* Two nodes with the same ledger give a record with a signed decision the same
\* row, in whatever order versions and decisions came (izracunajStanje,
\* apply_potvrda_stanje.go).
THEOREM IstaPravaOcuvana == Spec => []IstaPravaPoOdlukama
<1> DEFINE Inv == Uredeno /\ Suglasno
<1>1. Init => Inv  BY PocetakUreden, PocetakSuglasan
<1>2. Inv /\ [Next]_vars => Inv'  BY KorakCuva, KorakSuglasan
<1>3. Inv => IstaPravaPoOdlukama  BY SuglasnoDaje
<1> QED  BY <1>1, <1>2, <1>3, PTL DEF Spec

=============================================================================
