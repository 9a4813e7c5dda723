--------------------------- MODULE PovrsinaDokazi ---------------------------
(***************************************************************************)
(* What holds of the surface for any nodes, records, contents and bounds.  *)
(***************************************************************************)
EXTENDS Povrsina, FiniteSetTheorems, WellFoundedInduction, TLAPS

-----------------------------------------------------------------------------
(* Recursion and induction, as facts about sets and functions *)

\* A set of natural numbers has a smallest one.
LEMMA Najmanji ==
    ASSUME NEW T \in SUBSET Nat, T # {}
    PROVE  \E m \in T : \A k \in T : m <= k
<1> DEFINE R == OpToRel(<, Nat)
<1>1. IsWellFoundedOn(R, Nat)  BY NatLessThanWellFounded, Zenon
<1>2. ASSUME NEW x \in Nat, NEW y \in Nat, x < y  PROVE <<x, y>> \in R
  BY <1>2, Zenon DEF OpToRel
<1> HIDE DEF R
<1>3. PICK m \in T : \A k \in T : ~(<<k, m>> \in R)
  <2>1. IsWellFoundedOn(R, Nat) /\ T \subseteq Nat /\ T # {}  BY <1>1
  <2> QED  BY ONLY <2>1, WFMin, Zenon
<1>4. ASSUME NEW k \in T  PROVE m <= k
  <2>1. ~(k < m)  BY <1>2, <1>3
  <2> QED  BY <2>1
<1> QED  BY <1>4

\* A bounded one that is not empty has a largest one.
LEMMA Najveci ==
    ASSUME NEW N \in Nat, NEW T \in SUBSET (0 .. N), T # {}
    PROVE  \E m \in T : \A k \in T : k <= m
<1> DEFINE D == {N - k : k \in T}
<1>1. D \in SUBSET Nat /\ D # {}
  <2>1. \A k \in T : N - k \in Nat  OBVIOUS
  <2> QED  BY <2>1
<1> HIDE DEF D
<1>2. PICK d \in D : \A k \in D : d <= k  BY <1>1, Najmanji
<1>3. PICK m \in T : d = N - m  BY DEF D
<1>4. ASSUME NEW k \in T  PROVE k <= m
  <2>1. N - k \in D  BY DEF D
  <2> QED  BY <1>2, <1>3, <2>1
<1> QED  BY <1>4

\* Induction up to N.
LEMMA Korakom ==
    ASSUME NEW N \in Nat, NEW T, 0 \in T, \A i \in 1 .. N : i - 1 \in T => i \in T
    PROVE  0 .. N \subseteq T
<1> DEFINE D == (0 .. N) \ T
<1> SUFFICES ASSUME D # {}  PROVE FALSE
  OBVIOUS
<1>1. D \in SUBSET Nat  OBVIOUS
<1>2. PICK m \in D : \A k \in D : m <= k
  <2> HIDE DEF D
  <2> QED  BY <1>1, Najmanji
<1>3. m \in 1 .. N /\ m \notin T  BY <1>2
<1>4. m - 1 \in T  BY <1>2, <1>3
<1> QED  BY <1>3, <1>4

\* A function defined by its value at 0 and a step exists.
PoKoracima(N, X, b, F, g) ==
    g \in [0 .. N -> X] /\ g[0] = b /\ \A i \in 1 .. N : g[i] = F[<<g[i - 1], i>>]
ImaKorake(N, X, b, F) == \E g : PoKoracima(N, X, b, F, g)

LEMMA Rekurzija ==
    ASSUME NEW N \in Nat, NEW X, NEW b \in X, NEW F \in [X \X (1 .. N) -> X]
    PROVE  ImaKorake(N, X, b, F)
<1> DEFINE Do(n) == {g \in [0 .. n -> X] :
                        g = [i \in 0 .. n |-> IF i = 0 THEN b ELSE F[<<g[i - 1], i>>]]}
           T == {n \in 0 .. N : Do(n) # {}}
<1>1. 0 \in T
  <2> DEFINE g == [i \in 0 .. 0 |-> b]
  <2>1. g \in [0 .. 0 -> X]  OBVIOUS
  <2>2. g = [i \in 0 .. 0 |-> IF i = 0 THEN b ELSE F[<<g[i - 1], i>>]]  OBVIOUS
  <2>3. g \in Do(0)  BY <2>1, <2>2
  <2> QED  BY <2>3
<1>2. ASSUME NEW n \in 1 .. N, n - 1 \in T  PROVE n \in T
  <2>1. PICK g \in [0 .. n - 1 -> X] :
           g = [i \in 0 .. n - 1 |-> IF i = 0 THEN b ELSE F[<<g[i - 1], i>>]]
    BY <1>2
  <2> DEFINE h == [i \in 0 .. n |-> IF i = n THEN F[<<g[n - 1], n>>] ELSE g[i]]
             hh == [i \in 0 .. n |-> IF i = 0 THEN b ELSE F[<<h[i - 1], i>>]]
  <2>2. h \in [0 .. n -> X]
    <3>1. g[n - 1] \in X  OBVIOUS
    <3>2. F[<<g[n - 1], n>>] \in X  BY <3>1
    <3> QED  BY <3>2
  <2>3. ASSUME NEW i \in 0 .. n  PROVE h[i] = hh[i]
    <3>1. CASE i = 0
      <4>1. h[0] = g[0] /\ 0 \in 0 .. n - 1  OBVIOUS
      <4>2. g[0] = b  BY <2>1, <4>1
      <4> QED  BY <3>1, <4>1, <4>2
    <3>2. CASE i = n
      <4>1. h[n] = F[<<g[n - 1], n>>] /\ n # 0 /\ n - 1 \in 0 .. n /\ n - 1 # n  OBVIOUS
      <4>2. h[n - 1] = g[n - 1]  BY <4>1
      <4>3. hh[n] = F[<<h[n - 1], n>>]  BY <4>1
      <4> QED  BY <3>2, <4>1, <4>2, <4>3
    <3>3. CASE i # 0 /\ i # n
      <4>1. i \in 0 .. n - 1 /\ i - 1 \in 0 .. n - 1  BY <3>3
      <4>2. g[i] = F[<<g[i - 1], i>>]  BY <2>1, <3>3, <4>1
      <4>3. h[i] = g[i] /\ h[i - 1] = g[i - 1]  BY <3>3, <4>1
      <4>4. hh[i] = F[<<h[i - 1], i>>]  BY <3>3
      <4> QED  BY <4>2, <4>3, <4>4
    <3> QED  BY <3>1, <3>2, <3>3
  <2>4. h = hh
    <3> HIDE DEF hh
    <3>1. DOMAIN hh = 0 .. n /\ hh = [i \in 0 .. n |-> hh[i]]  BY DEF hh
    <3>2. h = [i \in 0 .. n |-> h[i]]  OBVIOUS
    <3> HIDE DEF h
    <3> QED  BY <2>3, <3>1, <3>2
  <2> HIDE DEF h
  <2>5. h \in Do(n)  BY <2>2, <2>4
  <2> QED  BY <2>5
<1> HIDE DEF T
<1>3. N \in T
  <2>1. 0 .. N \subseteq T  BY <1>1, <1>2, Korakom
  <2> QED  BY <2>1
<1>4. PICK g \in [0 .. N -> X] : g = [i \in 0 .. N |-> IF i = 0 THEN b ELSE F[<<g[i - 1], i>>]]
  BY <1>3 DEF T
<1>5. g[0] = b  BY <1>4
<1>6. \A i \in 1 .. N : g[i] = F[<<g[i - 1], i>>]  BY <1>4
<1> QED  BY <1>5, <1>6 DEF ImaKorake, PoKoracima

\* A monotone function on subsets has a fixed point (the least one).
LEMMA NepomicnaTocka ==
    ASSUME NEW S, NEW F \in [SUBSET S -> SUBSET S],
           \A A, B \in SUBSET S : A \subseteq B => F[A] \subseteq F[B]
    PROVE  \E X \in SUBSET S : F[X] = X
<1> DEFINE X == {y \in S : \A A \in SUBSET S : F[A] \subseteq A => y \in A}
<1>1. ASSUME NEW A \in SUBSET S, F[A] \subseteq A  PROVE F[X] \subseteq A
  <2>1. X \subseteq A  BY <1>1
  <2> QED  BY <1>1, <2>1
<1>2. F[X] \subseteq X  BY <1>1
<1>3. F[F[X]] \subseteq F[X]  BY <1>2
<1>4. X \subseteq F[X]  BY <1>3
<1> QED
  <2>1. X \in SUBSET S /\ F[X] = X  BY <1>2, <1>4
  <2> HIDE DEF X
  <2> QED  BY <2>1

-----------------------------------------------------------------------------
(* The ledger and the surface as they are read *)

Redovi == [Zapis -> Verzija \cup {Nema}]

\* The last version of a record, when there is any (rec.Latest).
LEMMA ZadnjaCita ==
    ASSUME NEW K \in SUBSET Verzija, NEW z \in Zapis
    PROVE  /\ Zadnja(K, z) \in K \cup {Nema} /\ Zadnja(K, z) \in Verzija \cup {Nema}
           /\ \A v \in K : v.zapis = z =>
                 /\ Zadnja(K, z) \in K /\ Zadnja(K, z) # Nema
                 /\ v.oznaka <= Zadnja(K, z).oznaka
           /\ Zadnja(K, z) # Nema => Zadnja(K, z) \in K /\ Zadnja(K, z).zapis = z
<1> USE PovrsinaPretpostavka
<1>1. CASE \E v \in K : v.zapis = z
  <2> DEFINE O == {v.oznaka : v \in {w \in K : w.zapis = z}}
             Prva(v) == v.zapis = z /\ \A w \in K : w.zapis = z => w.oznaka <= v.oznaka
  <2>1. ZadnjaVerzija \in Nat /\ O \in SUBSET (0 .. ZadnjaVerzija) /\ O # {}
    BY <1>1 DEF Verzija, Oznake
  <2>2. PICK m \in O : \A k \in O : k <= m
    <3> HIDE DEF O
    <3> QED  BY <2>1, Najveci
  <2>3. PICK v \in K : Prva(v)
    <3>1. PICK v \in K : v.zapis = z /\ v.oznaka = m  BY <2>2
    <3>2. ASSUME NEW w \in K, w.zapis = z  PROVE w.oznaka <= m
      <4>1. w.oznaka \in O  BY <3>2
      <4> QED  BY <2>2, <4>1
    <3> QED  BY <3>1, <3>2
  <2>4. Zadnja(K, z) = CHOOSE u \in K : Prva(u)  BY <1>1 DEF Zadnja
  <2>5. Zadnja(K, z) \in K /\ Prva(Zadnja(K, z))
    <3> HIDE DEF Prva
    <3> QED  BY <2>3, <2>4
  <2> QED  BY <2>5
<1>2. CASE ~\E v \in K : v.zapis = z
  BY <1>2 DEF Zadnja
<1> QED  BY <1>1, <1>2

\* Versions are told apart by their labels.
Knjige == {K \in SUBSET Verzija : \A v, w \in K : v.oznaka = w.oznaka => v = w}

LEMMA ZadnjaJe ==
    ASSUME NEW K \in Knjige, NEW v \in K,
           \A w \in K : w.zapis = v.zapis => w.oznaka <= v.oznaka
    PROVE  Zadnja(K, v.zapis) = v
<1>1. K \in SUBSET Verzija /\ v.zapis \in Zapis  BY DEF Knjige, Verzija
<1> DEFINE u == Zadnja(K, v.zapis)
<1>2. u \in K /\ u # Nema /\ v.oznaka <= u.oznaka /\ u.zapis = v.zapis  BY <1>1, ZadnjaCita
<1>3. u.oznaka <= v.oznaka  BY <1>2
<1>4. u.oznaka = v.oznaka
  <2> HIDE DEF u
  <2>1. u.oznaka \in Nat /\ v.oznaka \in Nat
    BY <1>1, <1>2, PovrsinaPretpostavka DEF Verzija, Oznake
  <2> QED  BY <1>2, <1>3, <2>1
<1> QED  BY <1>2, <1>4 DEF Knjige

\* zapisObrisan: the recursion of the code, unfolded once.
LEMMA ObrisaniJednako ==
    ASSUME NEW K \in SUBSET Verzija, NEW p \in Redovi
    PROVE  /\ Obrisani(K, p) \subseteq Zapis
           /\ \A z \in Zapis : z \in Obrisani(K, p) <=>
                 /\ p[z] = Nema /\ Zadnja(K, z) # Nema
                 /\ Zadnja(K, z).ziva => Zadnja(K, z).oslonci \cap Obrisani(K, p) # {}
<1> DEFINE Tijelo(f, z) ==
             LET v == Zadnja(K, z)
             IN  /\ p[z] = Nema /\ v # Nema
                 /\ v.ziva => \E r \in v.oslonci : f[r]
           obrisan == CHOOSE f : f = [z \in Zapis |-> Tijelo(f, z)]
           F == [T \in SUBSET Zapis |->
                   {z \in Zapis : /\ p[z] = Nema /\ Zadnja(K, z) # Nema
                                  /\ Zadnja(K, z).ziva => Zadnja(K, z).oslonci \cap T # {}}]
<1>1. \A z \in Zapis : Zadnja(K, z) # Nema => Zadnja(K, z).oslonci \subseteq Zapis
  BY ZadnjaCita DEF Verzija
<1>2. PICK X \in SUBSET Zapis : F[X] = X
  <2>1. F \in [SUBSET Zapis -> SUBSET Zapis]  OBVIOUS
  <2>2. \A A, B \in SUBSET Zapis : A \subseteq B => F[A] \subseteq F[B]  OBVIOUS
  <2> HIDE DEF F
  <2> QED  BY <2>1, <2>2, NepomicnaTocka
<1> DEFINE g == [z \in Zapis |-> z \in X]
<1>3. g = [z \in Zapis |-> Tijelo(g, z)]
  <2> SUFFICES ASSUME NEW z \in Zapis  PROVE (z \in X) = Tijelo(g, z)
    OBVIOUS
  <2>1. z \in X <=> z \in F[X]  BY <1>2
  <2>2. z \in F[X] <=> /\ p[z] = Nema /\ Zadnja(K, z) # Nema
                       /\ Zadnja(K, z).ziva => Zadnja(K, z).oslonci \cap X # {}
    OBVIOUS
  <2>3. \A r \in Zapis : g[r] <=> r \in X  OBVIOUS
  <2>4. Zadnja(K, z) # Nema =>
          ((\E r \in Zadnja(K, z).oslonci : g[r]) <=> Zadnja(K, z).oslonci \cap X # {})
    <3> HIDE DEF g
    <3> QED  BY <1>1, <2>3
  <2>5. Tijelo(g, z) <=> z \in X
    <3> HIDE DEF g, F
    <3> QED  BY <2>1, <2>2, <2>4, Zenon
  <2>6. Tijelo(g, z) \in BOOLEAN  OBVIOUS
  <2> QED
    <3> HIDE DEF Tijelo, g, F
    <3> QED  BY <2>5, <2>6
<1>4. obrisan = [z \in Zapis |-> Tijelo(obrisan, z)]
  <2> HIDE DEF g, Tijelo
  <2> QED  BY <1>3
<1>5. Obrisani(K, p) = {z \in Zapis : obrisan[z]}  BY DEF Obrisani
<1>6. ASSUME NEW z \in Zapis  PROVE obrisan[z] = Tijelo(obrisan, z)
  <2> HIDE DEF obrisan, Tijelo
  <2> QED  BY <1>4
<1> HIDE DEF obrisan
<1> QED  BY <1>1, <1>5, <1>6

\* makniDjecu: what goes is closed under leaning by the rows, and only rows go.
LEMMA MakniJednako ==
    ASSUME NEW p \in Redovi, NEW z \in Zapis
    PROVE  \E I \in SUBSET Zapis :
              /\ \A y \in Zapis : y \in I <=> y = z \/ (p[y] # Nema /\ p[y].oslonci \cap I # {})
              /\ MakniSDjecom(p, z) = [y \in Zapis |-> IF y \in I THEN Nema ELSE p[y]]
<1> DEFINE Tijelo(f, y) == y = z \/ (p[y] # Nema /\ \E r \in p[y].oslonci : f[r])
           ispod == CHOOSE f : f = [y \in Zapis |-> Tijelo(f, y)]
           F == [T \in SUBSET Zapis |->
                   {y \in Zapis : y = z \/ (p[y] # Nema /\ p[y].oslonci \cap T # {})}]
<1>1. \A y \in Zapis : p[y] # Nema => p[y].oslonci \subseteq Zapis
  BY DEF Redovi, Verzija
<1>2. PICK X \in SUBSET Zapis : F[X] = X
  <2>1. F \in [SUBSET Zapis -> SUBSET Zapis]  OBVIOUS
  <2>2. \A A, B \in SUBSET Zapis : A \subseteq B => F[A] \subseteq F[B]  OBVIOUS
  <2> HIDE DEF F
  <2> QED  BY <2>1, <2>2, NepomicnaTocka
<1> DEFINE g == [y \in Zapis |-> y \in X]
<1>3. g = [y \in Zapis |-> Tijelo(g, y)]
  <2> SUFFICES ASSUME NEW y \in Zapis  PROVE (y \in X) = Tijelo(g, y)
    OBVIOUS
  <2>1. y \in X <=> y \in F[X]  BY <1>2
  <2>2. y \in F[X] <=> y = z \/ (p[y] # Nema /\ p[y].oslonci \cap X # {})  OBVIOUS
  <2>3. \A r \in Zapis : g[r] <=> r \in X  OBVIOUS
  <2>4. p[y] # Nema => ((\E r \in p[y].oslonci : g[r]) <=> p[y].oslonci \cap X # {})
    <3> HIDE DEF g
    <3> QED  BY <1>1, <2>3
  <2>5. Tijelo(g, y) <=> y \in X
    <3> HIDE DEF g, F
    <3> QED  BY <2>1, <2>2, <2>4, Zenon
  <2>6. Tijelo(g, y) \in BOOLEAN  OBVIOUS
  <2> QED
    <3> HIDE DEF Tijelo, g, F
    <3> QED  BY <2>5, <2>6
<1>4. ispod = [y \in Zapis |-> Tijelo(ispod, y)]
  <2> HIDE DEF g, Tijelo
  <2> QED  BY <1>3
<1>5. MakniSDjecom(p, z) = [y \in Zapis |-> IF ispod[y] THEN Nema ELSE p[y]]
  BY DEF MakniSDjecom
<1>6. ASSUME NEW y \in Zapis  PROVE ispod[y] = Tijelo(ispod, y)
  <2> HIDE DEF ispod, Tijelo
  <2> QED  BY <1>4
<1> HIDE DEF ispod
<1> DEFINE I == {y \in Zapis : ispod[y]}
<1>7. \A y \in Zapis : y \in I <=> y = z \/ (p[y] # Nema /\ p[y].oslonci \cap I # {})
  BY <1>1, <1>6
<1>8. MakniSDjecom(p, z) = [y \in Zapis |-> IF y \in I THEN Nema ELSE p[y]]
  BY <1>5
<1> QED
  <2> HIDE DEF I
  <2>1. I \in SUBSET Zapis  BY DEF I
  <2> QED  BY <1>7, <1>8, <2>1

\* One level of vratiDjecu.
Razina(K, p, z, s) ==
    LET dj == DjecaIzKnjige(K, s, {z} \cup (NaPovrsini(s) \ NaPovrsini(p)))
    IN  [y \in Zapis |-> IF y \in dj /\ Zadnja(K, y).oslonci \subseteq NaPovrsini(s)
                         THEN Zadnja(K, y) ELSE s[y]]

LEMMA RazinaTip ==
    ASSUME NEW K \in SUBSET Verzija, NEW p, NEW z, NEW s \in Redovi
    PROVE  /\ Razina(K, p, z, s) \in Redovi
           /\ \A y \in Zapis : Razina(K, p, z, s)[y] \in {s[y], Zadnja(K, y)}
<1> DEFINE Vraca(y) == /\ y \in DjecaIzKnjige(K, s, {z} \cup (NaPovrsini(s) \ NaPovrsini(p)))
                       /\ Zadnja(K, y).oslonci \subseteq NaPovrsini(s)
<1>1. Razina(K, p, z, s) = [y \in Zapis |-> IF Vraca(y) THEN Zadnja(K, y) ELSE s[y]]
  BY DEF Razina
<1>2. \A y \in Zapis : Zadnja(K, y) \in Verzija \cup {Nema}  BY ZadnjaCita
<1> HIDE DEF Vraca
<1> QED  BY <1>1, <1>2 DEF Redovi

\* vratiDjecu, level by level.
Zapisa == Cardinality(Zapis)
Razine(K, p, z, g) ==
    /\ g \in [0 .. Zapisa -> Redovi]
    /\ g[0] = p
    /\ \A i \in 1 .. Zapisa : g[i] = Razina(K, p, z, g[i - 1])
    /\ VratiDjecu(K, p, z) =
         [p |-> g[Zapisa],
          ceka |-> DjecaIzKnjige(K, g[Zapisa], {z} \cup (NaPovrsini(g[Zapisa]) \ NaPovrsini(p)))]

LEMMA VratiDjecuJednako ==
    ASSUME NEW K \in SUBSET Verzija, NEW p \in Redovi, NEW z \in Zapis
    PROVE  /\ Zapisa \in Nat
           /\ \E g : Razine(K, p, z, g)
<1> DEFINE N == Cardinality(Zapis)
           Tijelo(f, i) ==
             IF i = 0 THEN p
             ELSE LET s == f[i - 1]
                      dj == DjecaIzKnjige(K, s, {z} \cup (NaPovrsini(s) \ NaPovrsini(p)))
                  IN  [y \in Zapis |->
                         IF y \in dj /\ Zadnja(K, y).oslonci \subseteq NaPovrsini(s)
                         THEN Zadnja(K, y) ELSE s[y]]
           vraceno == CHOOSE f : f = [i \in 0 .. N |-> Tijelo(f, i)]
           F == [x \in Redovi \X (1 .. N) |-> Razina(K, p, z, x[1])]
<1>1. N \in Nat  BY PovrsinaPretpostavka, FS_CardinalityType
<1>2. PICK g \in [0 .. N -> Redovi] : g[0] = p /\ \A i \in 1 .. N : g[i] = F[<<g[i - 1], i>>]
  <2>1. F \in [Redovi \X (1 .. N) -> Redovi]  BY RazinaTip
  <2> HIDE DEF F, N
  <2>2. ImaKorake(N, Redovi, p, F)  BY <1>1, <2>1, Rekurzija
  <2> QED  BY <2>2 DEF ImaKorake, PoKoracima
<1>3. ASSUME NEW i \in 0 .. N  PROVE g[i] = Tijelo(g, i)
  <2>1. CASE i = 0  BY <1>2, <2>1
  <2>2. CASE i # 0
    <3>1. i \in 1 .. N /\ g[i - 1] \in Redovi  BY <1>1, <2>2
    <3>2. F[<<g[i - 1], i>>] = Razina(K, p, z, g[i - 1])
      <4> HIDE DEF N
      <4> QED  BY <3>1
    <3>3. g[i] = F[<<g[i - 1], i>>]
      <4> HIDE DEF N, F
      <4> QED  BY <1>2, <3>1
    <3> QED  BY <2>2, <3>2, <3>3 DEF Razina
  <2> QED  BY <2>1, <2>2
<1>4. g = [i \in 0 .. N |-> Tijelo(g, i)]
  <2> HIDE DEF Tijelo, F, N
  <2> QED  BY <1>3
<1>5. vraceno = [i \in 0 .. N |-> Tijelo(vraceno, i)]
  <2> HIDE DEF Tijelo
  <2> QED  BY <1>4
<1>6. VratiDjecu(K, p, z) =
         [p |-> vraceno[N],
          ceka |-> DjecaIzKnjige(K, vraceno[N], {z} \cup (NaPovrsini(vraceno[N]) \ NaPovrsini(p)))]
  BY DEF VratiDjecu
<1>7. \A i \in 1 .. N : g[i] = Razina(K, p, z, g[i - 1]) /\ i - 1 \in 0 .. N
  <2> SUFFICES ASSUME NEW i \in 1 .. N  PROVE g[i] = Razina(K, p, z, g[i - 1]) /\ i - 1 \in 0 .. N
    OBVIOUS
  <2>1. i \in 0 .. N /\ i # 0 /\ i - 1 \in 0 .. N  BY <1>1
  <2>2. g[i] = Tijelo(g, i)
    <3> HIDE DEF Tijelo, F, N
    <3> QED  BY <1>4, <2>1
  <2> QED  BY <2>1, <2>2 DEF Razina
<1>8. g[0] = p  BY <1>1, <1>2
<1>9. vraceno = g
  <2> DEFINE T == {i \in 0 .. N : vraceno[i] = g[i]}
  <2>1. 0 \in T
    <3>1. 0 \in 0 .. N  BY <1>1
    <3>2. vraceno[0] = Tijelo(vraceno, 0)
      <4> HIDE DEF Tijelo, vraceno, N
      <4> QED  BY <1>5, <3>1
    <3> HIDE DEF vraceno, N
    <3> QED  BY <1>8, <3>1, <3>2
  <2>2. ASSUME NEW i \in 1 .. N, i - 1 \in T  PROVE i \in T
    <3>1. i \in 0 .. N /\ i # 0 /\ vraceno[i - 1] = g[i - 1]  BY <1>1, <2>2
    <3>2. vraceno[i] = Tijelo(vraceno, i) /\ g[i] = Tijelo(g, i)
      <4> HIDE DEF Tijelo, vraceno, N, F
      <4> QED  BY <1>4, <1>5, <3>1
    <3> HIDE DEF vraceno, N
    <3>3. Tijelo(vraceno, i) = Tijelo(g, i)  BY <3>1
    <3> QED  BY <3>1, <3>2, <3>3
  <2>3. 0 .. N \subseteq T
    <3> HIDE DEF T, N
    <3> QED  BY <1>1, <2>1, <2>2, Korakom
  <2>4. \A i \in 0 .. N : vraceno[i] = g[i]  BY <2>3
  <2> HIDE DEF vraceno, Tijelo, N, F
  <2> QED  BY <1>4, <1>5, <2>4
<1>10. VratiDjecu(K, p, z) =
          [p |-> g[N],
           ceka |-> DjecaIzKnjige(K, g[N], {z} \cup (NaPovrsini(g[N]) \ NaPovrsini(p)))]
  <2> HIDE DEF vraceno
  <2> QED  BY <1>6, <1>9
<1> HIDE DEF F, vraceno
<1>11. Razine(K, p, z, g)
  <2> HIDE DEF Tijelo
  <2> QED  BY <1>7, <1>8, <1>10 DEF Razine, Zapisa
<1> QED  BY <1>1, <1>11 DEF Zapisa

\* What the ledger says, unfolded once.
LEMMA SlikaJednako ==
    ASSUME NEW K \in SUBSET Verzija
    PROVE  /\ Slika(K) \in Redovi
           /\ \A z \in Zapis :
                 Slika(K)[z] = IF /\ Ziva(Zadnja(K, z))
                                  /\ \A r \in Zadnja(K, z).oslonci : Slika(K)[r] # Nema
                               THEN Zadnja(K, z) ELSE Nema
<1> DEFINE Tijelo(f, z) ==
             LET v == Zadnja(K, z)
             IN  IF Ziva(v) /\ \A r \in v.oslonci : f[r] # Nema THEN v ELSE Nema
           slika == CHOOSE f : f = [z \in Zapis |-> Tijelo(f, z)]
           F == [T \in SUBSET Zapis |->
                   {z \in Zapis : Ziva(Zadnja(K, z)) /\ Zadnja(K, z).oslonci \subseteq T}]
<1>1. \A z \in Zapis : /\ Zadnja(K, z) \in Verzija \cup {Nema}
                       /\ Ziva(Zadnja(K, z)) =>
                             Zadnja(K, z) # Nema /\ Zadnja(K, z).oslonci \subseteq Zapis
  BY ZadnjaCita DEF Verzija, Ziva
<1>2. PICK X \in SUBSET Zapis : F[X] = X
  <2>1. F \in [SUBSET Zapis -> SUBSET Zapis]  OBVIOUS
  <2>2. \A A, B \in SUBSET Zapis : A \subseteq B => F[A] \subseteq F[B]  OBVIOUS
  <2> HIDE DEF F
  <2> QED  BY <2>1, <2>2, NepomicnaTocka
<1> DEFINE g == [z \in Zapis |-> IF z \in X THEN Zadnja(K, z) ELSE Nema]
<1>3. g = [z \in Zapis |-> Tijelo(g, z)]
  <2> SUFFICES ASSUME NEW z \in Zapis
               PROVE  (IF z \in X THEN Zadnja(K, z) ELSE Nema) = Tijelo(g, z)
    OBVIOUS
  <2>1. \A y \in Zapis : y \in X <=> Ziva(Zadnja(K, y)) /\ Zadnja(K, y).oslonci \subseteq X
    <3>1. \A y \in Zapis : y \in F[X] <=> Ziva(Zadnja(K, y)) /\ Zadnja(K, y).oslonci \subseteq X
      OBVIOUS
    <3> QED  BY <1>2, <3>1
  <2>2. \A r \in Zapis : g[r] # Nema <=> r \in X  BY <1>1, <2>1
  <2>3. Ziva(Zadnja(K, z)) =>
          ((\A r \in Zadnja(K, z).oslonci : g[r] # Nema) <=> Zadnja(K, z).oslonci \subseteq X)
    <3> HIDE DEF g
    <3> QED  BY <1>1, <2>2
  <2> HIDE DEF g, F
  <2> QED  BY <2>1, <2>3
<1>4. slika = [z \in Zapis |-> Tijelo(slika, z)]
  <2> HIDE DEF g, Tijelo
  <2> QED  BY <1>3
<1>5. Slika(K) = slika  BY DEF Slika
<1>6. slika \in Redovi
  <2>1. \A z \in Zapis : Tijelo(slika, z) \in Verzija \cup {Nema}  BY <1>1
  <2> HIDE DEF slika, Tijelo
  <2> QED  BY <1>4, <2>1 DEF Redovi
<1>7. ASSUME NEW z \in Zapis  PROVE slika[z] = Tijelo(slika, z)
  <2> HIDE DEF slika, Tijelo
  <2> QED  BY <1>4
<1> HIDE DEF slika
<1> QED  BY <1>5, <1>6, <1>7

\* What waits, with all that leans on it.
LEMMA CekaJednako ==
    ASSUME NEW n \in Cvor, knjiga[n] \in SUBSET Verzija
    PROVE  \A z \in Zapis :
              CekaSOsloncima(n, z) <=>
                 \/ z \in nedovrseni[n]
                 \/ /\ Ziva(Zadnja(knjiga[n], z))
                    /\ \E r \in Zadnja(knjiga[n], z).oslonci : CekaSOsloncima(n, r)
<1> DEFINE Tijelo(f, y) ==
             LET v == Zadnja(knjiga[n], y)
             IN  y \in nedovrseni[n] \/ (Ziva(v) /\ \E r \in v.oslonci : f[r])
           ceka == CHOOSE f : f = [y \in Zapis |-> Tijelo(f, y)]
           F == [T \in SUBSET Zapis |->
                   {y \in Zapis : \/ y \in nedovrseni[n]
                                  \/ /\ Ziva(Zadnja(knjiga[n], y))
                                     /\ Zadnja(knjiga[n], y).oslonci \cap T # {}}]
<1>1. \A z \in Zapis : Ziva(Zadnja(knjiga[n], z)) => Zadnja(knjiga[n], z).oslonci \subseteq Zapis
  BY ZadnjaCita DEF Verzija, Ziva
<1>2. PICK X \in SUBSET Zapis : F[X] = X
  <2>1. F \in [SUBSET Zapis -> SUBSET Zapis]  OBVIOUS
  <2>2. \A A, B \in SUBSET Zapis : A \subseteq B => F[A] \subseteq F[B]  OBVIOUS
  <2> HIDE DEF F
  <2> QED  BY <2>1, <2>2, NepomicnaTocka
<1> DEFINE g == [y \in Zapis |-> y \in X]
<1>3. g = [y \in Zapis |-> Tijelo(g, y)]
  <2> SUFFICES ASSUME NEW y \in Zapis  PROVE (y \in X) = Tijelo(g, y)
    OBVIOUS
  <2>1. y \in X <=> y \in F[X]  BY <1>2
  <2>2. y \in F[X] <=> \/ y \in nedovrseni[n]
                      \/ /\ Ziva(Zadnja(knjiga[n], y))
                         /\ Zadnja(knjiga[n], y).oslonci \cap X # {}
    OBVIOUS
  <2>3. \A r \in Zapis : g[r] <=> r \in X  OBVIOUS
  <2>4. Ziva(Zadnja(knjiga[n], y)) =>
          ((\E r \in Zadnja(knjiga[n], y).oslonci : g[r]) <=> Zadnja(knjiga[n], y).oslonci \cap X # {})
    <3> HIDE DEF g
    <3> QED  BY <1>1, <2>3
  <2>5. Tijelo(g, y) <=> y \in X
    <3> HIDE DEF g, F
    <3> QED  BY <2>1, <2>2, <2>4, Zenon
  <2>6. Tijelo(g, y) \in BOOLEAN  OBVIOUS
  <2> QED
    <3> HIDE DEF Tijelo, g, F
    <3> QED  BY <2>5, <2>6
<1>4. ceka = [y \in Zapis |-> Tijelo(ceka, y)]
  <2> HIDE DEF g, Tijelo
  <2> QED  BY <1>3
<1>5. \A z : CekaSOsloncima(n, z) = ceka[z]  BY DEF CekaSOsloncima
<1>6. ASSUME NEW y \in Zapis  PROVE ceka[y] = Tijelo(ceka, y)
  <2> HIDE DEF ceka, Tijelo
  <2> QED  BY <1>4
<1> HIDE DEF ceka
<1> QED  BY <1>1, <1>5, <1>6
-----------------------------------------------------------------------------
(* A packet's transaction *)

Stanja == [p : Redovi, ceka : SUBSET Zapis, proslo : SUBSET Zapis, palo : SUBSET Zapis]

LEMMA MakniTip ==
    ASSUME NEW p \in Redovi, NEW z \in Zapis
    PROVE  MakniSDjecom(p, z) \in Redovi
<1>1. PICK I \in SUBSET Zapis : MakniSDjecom(p, z) = [y \in Zapis |-> IF y \in I THEN Nema ELSE p[y]]
  BY MakniJednako
<1> QED  BY <1>1 DEF Redovi

\* What vratiDjecu gives back; whatever row is new is the last version.
LEMMA VratiDjecuTip ==
    ASSUME NEW K \in SUBSET Verzija, NEW p \in Redovi, NEW z \in Zapis
    PROVE  /\ VratiDjecu(K, p, z).p \in Redovi
           /\ VratiDjecu(K, p, z).ceka \in SUBSET {y \in Zapis : Ziva(Zadnja(K, y))}
           /\ \A y \in Zapis : VratiDjecu(K, p, z).p[y] \in {p[y], Zadnja(K, y)}
<1> DEFINE N == Zapisa
<1>1. PICK g : Razine(K, p, z, g)  BY VratiDjecuJednako
<1>2. N \in Nat  BY VratiDjecuJednako
<1>0. /\ g \in [0 .. N -> Redovi]
      /\ g[0] = p
      /\ \A i \in 1 .. N : g[i] = Razina(K, p, z, g[i - 1])
      /\ VratiDjecu(K, p, z) =
           [p |-> g[N],
            ceka |-> DjecaIzKnjige(K, g[N], {z} \cup (NaPovrsini(g[N]) \ NaPovrsini(p)))]
  BY <1>1 DEF Razine
<1> DEFINE T == {i \in 0 .. N : \A y \in Zapis : g[i][y] \in {p[y], Zadnja(K, y)}}
<1> HIDE DEF N
<1>3. 0 \in T  BY <1>0, <1>2
<1>4. ASSUME NEW i \in 1 .. N, i - 1 \in T  PROVE i \in T
  <2>1. g[i - 1] \in Redovi /\ i \in 0 .. N  BY <1>0, <1>2, <1>4
  <2>2. \A y \in Zapis : g[i][y] \in {g[i - 1][y], Zadnja(K, y)}
    BY <1>0, <2>1, RazinaTip
  <2> QED  BY <1>4, <2>1, <2>2
<1>5. N \in T
  <2> HIDE DEF T
  <2>1. 0 .. N \subseteq T  BY <1>2, <1>3, <1>4, Korakom
  <2> QED  BY <1>2, <2>1
<1>6. VratiDjecu(K, p, z).p = g[N] /\ VratiDjecu(K, p, z).ceka \in SUBSET {y \in Zapis : Ziva(Zadnja(K, y))}
  BY <1>0 DEF DjecaIzKnjige
<1> QED  BY <1>0, <1>2, <1>5, <1>6

LEMMA PrimijeniTip ==
    ASSUME NEW K \in SUBSET Verzija, NEW s \in Stanja, NEW v \in Verzija
    PROVE  PrimijeniVerziju(K, s, v) \in Stanja
<1> DEFINE z == v.zapis
           red == [s.p EXCEPT ![z] = v]
           d == VratiDjecu(K, red, z)
<1>1. z \in Zapis /\ s.p \in Redovi /\ s.ceka \in SUBSET Zapis /\ s.proslo \in SUBSET Zapis
      /\ s.palo \in SUBSET Zapis
  BY DEF Verzija, Stanja
<1>2. red \in Redovi  BY <1>1 DEF Redovi
<1>3. MakniSDjecom(s.p, z) \in Redovi  BY <1>1, MakniTip
<1>4. d.p \in Redovi /\ d.ceka \in SUBSET Zapis
  <2> HIDE DEF red, z
  <2> QED  BY <1>1, <1>2, VratiDjecuTip
<1> DEFINE a == [s EXCEPT !.proslo = @ \cup {z}]
<1>5. a \in Stanja /\ [a EXCEPT !.p = MakniSDjecom(s.p, z)] \in Stanja
      /\ [s EXCEPT !.palo = @ \cup {z}] \in Stanja
      /\ [a EXCEPT !.p = red] \in Stanja
      /\ [a EXCEPT !.p = d.p, !.ceka = @ \cup d.ceka] \in Stanja
  <2> HIDE DEF red, z, d
  <2> QED  BY <1>1, <1>2, <1>3, <1>4 DEF Stanja
<1>6. PrimijeniVerziju(K, s, v) \in
        {a, [a EXCEPT !.p = MakniSDjecom(s.p, z)], [s EXCEPT !.palo = @ \cup {z}],
         [a EXCEPT !.p = red], [a EXCEPT !.p = d.p, !.ceka = @ \cup d.ceka]}
  BY DEF PrimijeniVerziju
<1> HIDE DEF a, red, d, z
<1> QED  BY <1>5, <1>6

\* One label of a pass.
Oznaka(K, V, s, i) ==
    LET v == {w \in V : w.oznaka = i /\ w = Zadnja(K, w.zapis)}
    IN  IF v = {} THEN s ELSE PrimijeniVerziju(K, s, CHOOSE w \in v : TRUE)

NemaOznake(K, V, i) == \A w \in V : w.oznaka = i => w # Zadnja(K, w.zapis)
JeOznaka(K, V, i, w) == w \in V /\ w.oznaka = i /\ w = Zadnja(K, w.zapis)

LEMMA OznakaTip ==
    ASSUME NEW K \in SUBSET Verzija, NEW V \in SUBSET Verzija, NEW s \in Stanja, NEW i
    PROVE  /\ Oznaka(K, V, s, i) \in Stanja
           /\ \/ Oznaka(K, V, s, i) = s /\ NemaOznake(K, V, i)
              \/ \E w : JeOznaka(K, V, i, w) /\ Oznaka(K, V, s, i) = PrimijeniVerziju(K, s, w)
<1> DEFINE v == {w \in V : w.oznaka = i /\ w = Zadnja(K, w.zapis)}
<1>1. CASE v = {}  BY <1>1 DEF Oznaka, NemaOznake
<1>2. CASE v # {}
  <2> DEFINE w == CHOOSE w \in v : TRUE
  <2>1. w \in v  BY <1>2
  <2>2. Oznaka(K, V, s, i) = PrimijeniVerziju(K, s, w)  BY <1>2 DEF Oznaka
  <2>3. w \in V /\ w.oznaka = i /\ w = Zadnja(K, w.zapis)  BY <2>1
  <2> HIDE DEF w
  <2>4. PrimijeniVerziju(K, s, w) \in Stanja  BY <2>3, PrimijeniTip
  <2> QED  BY <2>2, <2>3, <2>4 DEF JeOznaka
<1> QED  BY <1>1, <1>2

\* One pass, label by label.
ProlazIde(K, s, V, g) ==
    /\ g \in [0 .. ZadnjaVerzija -> Stanja]
    /\ g[0] = [s EXCEPT !.palo = {}]
    /\ \A i \in 1 .. ZadnjaVerzija : g[i] = Oznaka(K, V, g[i - 1], i)
    /\ Prolaz(K, s, V) = g[ZadnjaVerzija]

LEMMA ProlazJednako ==
    ASSUME NEW K \in SUBSET Verzija, NEW V \in SUBSET Verzija, NEW s \in Stanja
    PROVE  \E g : ProlazIde(K, s, V, g)
<1> DEFINE N == ZadnjaVerzija
           b == [s EXCEPT !.palo = {}]
           Tijelo(f, i) ==
             IF i = 0 THEN [s EXCEPT !.palo = {}]
             ELSE LET v == {w \in V : w.oznaka = i /\ w = Zadnja(K, w.zapis)}
                  IN  IF v = {} THEN f[i - 1]
                      ELSE PrimijeniVerziju(K, f[i - 1], CHOOSE w \in v : TRUE)
           do == CHOOSE f : f = [i \in 0 .. N |-> Tijelo(f, i)]
           F == [x \in Stanja \X (1 .. N) |-> Oznaka(K, V, x[1], x[2])]
<1>1. N \in Nat /\ b \in Stanja  BY PovrsinaPretpostavka DEF Stanja
<1>2. PICK g \in [0 .. N -> Stanja] : g[0] = b /\ \A i \in 1 .. N : g[i] = F[<<g[i - 1], i>>]
  <2>1. F \in [Stanja \X (1 .. N) -> Stanja]  BY OznakaTip
  <2> HIDE DEF F, N, b
  <2>2. ImaKorake(N, Stanja, b, F)  BY <1>1, <2>1, Rekurzija
  <2> QED  BY <2>2 DEF ImaKorake, PoKoracima
<1>3. ASSUME NEW i \in 0 .. N  PROVE g[i] = Tijelo(g, i)
  <2>1. CASE i = 0  BY <1>2, <2>1
  <2>2. CASE i # 0
    <3>1. i \in 1 .. N /\ g[i - 1] \in Stanja  BY <1>1, <2>2
    <3>2. F[<<g[i - 1], i>>] = Oznaka(K, V, g[i - 1], i)
      <4> HIDE DEF N, Stanja
      <4> QED  BY <3>1
    <3>3. g[i] = F[<<g[i - 1], i>>]
      <4> HIDE DEF N, F, Stanja
      <4> QED  BY <1>2, <3>1
    <3> QED  BY <2>2, <3>2, <3>3 DEF Oznaka
  <2> QED  BY <2>1, <2>2
<1>4. g = [i \in 0 .. N |-> Tijelo(g, i)]
  <2> HIDE DEF Tijelo, F, N
  <2> QED  BY <1>3
<1>5. do = [i \in 0 .. N |-> Tijelo(do, i)]
  <2> HIDE DEF Tijelo
  <2> QED  BY <1>4
<1>6. Prolaz(K, s, V) = do[N]  BY DEF Prolaz
<1>7. \A i \in 1 .. N : g[i] = Oznaka(K, V, g[i - 1], i)
  <2> SUFFICES ASSUME NEW i \in 1 .. N  PROVE g[i] = Oznaka(K, V, g[i - 1], i)
    OBVIOUS
  <2>1. i \in 0 .. N /\ i # 0  BY <1>1
  <2>2. g[i] = Tijelo(g, i)
    <3> HIDE DEF Tijelo, F, N
    <3> QED  BY <1>4, <2>1
  <2> QED  BY <2>1, <2>2 DEF Oznaka
<1>9. do = g
  <2> DEFINE T == {i \in 0 .. N : do[i] = g[i]}
  <2>1. 0 \in T
    <3>1. 0 \in 0 .. N  BY <1>1
    <3>2. do[0] = Tijelo(do, 0)
      <4> HIDE DEF Tijelo, do, N
      <4> QED  BY <1>5, <3>1
    <3> HIDE DEF do, N
    <3> QED  BY <1>2, <3>1, <3>2
  <2>2. ASSUME NEW i \in 1 .. N, i - 1 \in T  PROVE i \in T
    <3>1. i \in 0 .. N /\ i # 0 /\ do[i - 1] = g[i - 1]  BY <1>1, <2>2
    <3>2. do[i] = Tijelo(do, i) /\ g[i] = Tijelo(g, i)
      <4> HIDE DEF Tijelo, do, N, F
      <4> QED  BY <1>4, <1>5, <3>1
    <3> HIDE DEF do, N
    <3>3. Tijelo(do, i) = Tijelo(g, i)  BY <3>1
    <3> QED  BY <3>1, <3>2, <3>3
  <2>3. 0 .. N \subseteq T
    <3> HIDE DEF T, N
    <3> QED  BY <1>1, <2>1, <2>2, Korakom
  <2>4. \A i \in 0 .. N : do[i] = g[i]  BY <2>3
  <2> HIDE DEF do, Tijelo, N, F
  <2> QED  BY <1>4, <1>5, <2>4
<1> HIDE DEF F, do
<1>10. ProlazIde(K, s, V, g)
  <2> HIDE DEF Tijelo
  <2> QED  BY <1>2, <1>6, <1>7, <1>9 DEF ProlazIde
<1> QED  BY <1>10

\* An invariant of the labels holds of the pass.
LEMMA ProlazOcuva ==
    ASSUME NEW K \in SUBSET Verzija, NEW V \in SUBSET Verzija, NEW s \in Stanja,
           NEW X \in [0 .. ZadnjaVerzija -> SUBSET Stanja],
           [s EXCEPT !.palo = {}] \in X[0],
           \A i \in 1 .. ZadnjaVerzija : \A t \in X[i - 1] :
              /\ NemaOznake(K, V, i) => t \in X[i]
              /\ \A w : JeOznaka(K, V, i, w) => PrimijeniVerziju(K, t, w) \in X[i]
    PROVE  Prolaz(K, s, V) \in X[ZadnjaVerzija]
<1> DEFINE N == ZadnjaVerzija
<1>1. N \in Nat  BY PovrsinaPretpostavka
<1>0. PICK g : ProlazIde(K, s, V, g)  BY ProlazJednako
<1>2. /\ g \in [0 .. N -> Stanja]
      /\ g[0] = [s EXCEPT !.palo = {}]
      /\ \A i \in 1 .. N : g[i] = Oznaka(K, V, g[i - 1], i)
      /\ Prolaz(K, s, V) = g[N]
  BY <1>0 DEF ProlazIde
<1> DEFINE T == {i \in 0 .. N : g[i] \in X[i]}
<1>3. 0 \in T
  <2>1. g[0] \in X[0]  BY <1>2, Zenon
  <2> QED  BY <1>1, <2>1
<1>4. ASSUME NEW i \in 1 .. N, i - 1 \in T  PROVE i \in T
  <2>1. g[i - 1] \in X[i - 1] /\ g[i - 1] \in Stanja /\ i \in 0 .. N  BY <1>1, <1>2, <1>4
  <2>2. g[i] = Oznaka(K, V, g[i - 1], i)  BY <1>2
  <2>3. g[i] \in X[i]
    <3>1. \/ Oznaka(K, V, g[i - 1], i) = g[i - 1] /\ NemaOznake(K, V, i)
          \/ \E w : /\ JeOznaka(K, V, i, w)
                    /\ Oznaka(K, V, g[i - 1], i) = PrimijeniVerziju(K, g[i - 1], w)
      BY <2>1, OznakaTip
    <3> QED  BY <2>1, <2>2, <3>1
  <2> QED  BY <2>1, <2>3
<1>5. 0 .. N \subseteq T
  <2> HIDE DEF T, N
  <2> QED  BY <1>1, <1>3, <1>4, Korakom
<1> QED  BY <1>1, <1>2, <1>5

\* There are finitely many versions.
LEMMA VerzijaKonacna == IsFiniteSet(Verzija)
<1> DEFINE A == SUBSET Zapis
           B == BOOLEAN \X A
           C == Zapis \X B
           D == Cvor \X C
           G == Oznake \X D
           f == [v \in Verzija |-> <<v.oznaka, <<v.autor, <<v.zapis, <<v.ziva, v.oslonci>>>>>>>>]
<1>1. IsFiniteSet(A)  BY PovrsinaPretpostavka, FS_SUBSET
<1>2. IsFiniteSet(BOOLEAN)
  <2>1. BOOLEAN = {TRUE} \cup {FALSE}  OBVIOUS
  <2>2. IsFiniteSet({TRUE})  BY FS_Singleton
  <2>3. IsFiniteSet({TRUE} \cup {FALSE})  BY <2>2, FS_AddElement
  <2> QED  BY <2>1, <2>3
<1>3. IsFiniteSet(B)
  <2> HIDE DEF A
  <2> QED  BY <1>1, <1>2, FS_Product
<1>4. IsFiniteSet(C)
  <2> HIDE DEF B
  <2> QED  BY <1>3, PovrsinaPretpostavka, FS_Product
<1>5. IsFiniteSet(D)
  <2> HIDE DEF C
  <2> QED  BY <1>4, PovrsinaPretpostavka, FS_Product
<1>6. IsFiniteSet(Oznake)
  <2>1. ZadnjaVerzija \in Int /\ 1 \in Int  BY PovrsinaPretpostavka
  <2> QED  BY <2>1, FS_Interval DEF Oznake
<1>7. IsFiniteSet(G)
  <2> HIDE DEF D
  <2> QED  BY <1>5, <1>6, FS_Product
<1>8. f \in [Verzija -> G]  BY DEF Verzija
<1>9. ASSUME NEW v \in Verzija, NEW w \in Verzija, f[v] = f[w]  PROVE v = w
  <2>1. v.oznaka = w.oznaka /\ v.autor = w.autor /\ v.zapis = w.zapis /\ v.ziva = w.ziva
        /\ v.oslonci = w.oslonci
    BY <1>9
  <2> QED  BY <2>1 DEF Verzija
<1>10. f \in Injection(Verzija, G)
  <2> HIDE DEF f, G
  <2> QED  BY <1>8, <1>9 DEF Injection, IsInjective
<1> HIDE DEF f, G
<1> QED  BY <1>7, <1>10, FS_Injection

LEMMA ProlazTip ==
    ASSUME NEW K \in SUBSET Verzija, NEW V \in SUBSET Verzija, NEW s \in Stanja
    PROVE  Prolaz(K, s, V) \in Stanja
<1>1. PICK g : ProlazIde(K, s, V, g)  BY ProlazJednako
<1> QED  BY <1>1, PovrsinaPretpostavka DEF ProlazIde

PrviKorak(p, V) == [p |-> p, ceka |-> {}, proslo |-> {}, palo |-> {v.zapis : v \in V}]
Ponovo(K, V, s) == Prolaz(K, s, {v \in V : v.zapis \in s.palo})

\* All passes over a packet.
ProlaziIde(K, p, V, g) ==
    /\ g \in [0 .. Cardinality(V) -> Stanja]
    /\ g[0] = PrviKorak(p, V)
    /\ \A i \in 1 .. Cardinality(V) : g[i] = Ponovo(K, V, g[i - 1])
    /\ Prolazi(K, p, V) = g[Cardinality(V)]

LEMMA ProlaziJednako ==
    ASSUME NEW K \in SUBSET Verzija, NEW V \in SUBSET Verzija, NEW p \in Redovi
    PROVE  /\ IsFiniteSet(V) /\ Cardinality(V) \in Nat
           /\ \E g : ProlaziIde(K, p, V, g)
<1> DEFINE N == Cardinality(V)
           X == Stanja
           b == PrviKorak(p, V)
           Tijelo(f, i) ==
             IF i = 0
             THEN [p |-> p, ceka |-> {}, proslo |-> {}, palo |-> {v.zapis : v \in V}]
             ELSE Prolaz(K, f[i - 1], {v \in V : v.zapis \in f[i - 1].palo})
           nakon == CHOOSE f : f = [i \in 0 .. N |-> Tijelo(f, i)]
           F == [x \in X \X (1 .. N) |-> Ponovo(K, V, x[1])]
<1>1. IsFiniteSet(V) /\ N \in Nat  BY VerzijaKonacna, FS_Subset, FS_CardinalityType
<1>2. PICK g \in [0 .. N -> X] : g[0] = b /\ \A i \in 1 .. N : g[i] = F[<<g[i - 1], i>>]
  <2>1. \A x \in X : Ponovo(K, V, x) \in X
    <3> SUFFICES ASSUME NEW x \in X  PROVE Prolaz(K, x, {v \in V : v.zapis \in x.palo}) \in X
      BY DEF Ponovo
    <3>1. {v \in V : v.zapis \in x.palo} \in SUBSET Verzija  OBVIOUS
    <3> QED  BY <3>1, ProlazTip
  <2>2. b \in X  BY DEF PrviKorak, Stanja, Verzija
  <2> HIDE DEF X
  <2>3. F \in [X \X (1 .. N) -> X]  BY <2>1
  <2> HIDE DEF F, N, b
  <2>4. ImaKorake(N, X, b, F)  BY <1>1, <2>2, <2>3, Rekurzija
  <2> QED  BY <2>4 DEF ImaKorake, PoKoracima
<1>3. \A i \in 1 .. N : g[i - 1] \in X /\ g[i] = Ponovo(K, V, g[i - 1])
  <2> SUFFICES ASSUME NEW i \in 1 .. N  PROVE g[i - 1] \in X /\ g[i] = Ponovo(K, V, g[i - 1])
    OBVIOUS
  <2>1. g[i - 1] \in X  BY <1>1, <1>2
  <2> HIDE DEF N, X
  <2>2. F[<<g[i - 1], i>>] = Ponovo(K, V, g[i - 1])  BY <2>1
  <2> HIDE DEF F
  <2> QED  BY <1>2, <2>1, <2>2
<1>4. ASSUME NEW i \in 0 .. N  PROVE g[i] = Tijelo(g, i)
  <2>1. CASE i = 0  BY <1>2, <2>1 DEF PrviKorak
  <2>2. CASE i # 0
    <3>1. i \in 1 .. N  BY <1>1, <2>2
    <3> QED  BY <1>3, <2>2, <3>1 DEF Ponovo
  <2> QED  BY <2>1, <2>2
<1>5. g = [i \in 0 .. N |-> Tijelo(g, i)]
  <2> HIDE DEF Tijelo, F, N
  <2> QED  BY <1>2, <1>4
<1>6. nakon = [i \in 0 .. N |-> Tijelo(nakon, i)]
  <2> HIDE DEF Tijelo
  <2> QED  BY <1>5
<1>7. Prolazi(K, p, V) = nakon[N]  BY DEF Prolazi
<1>8. ASSUME NEW i \in 0 .. N  PROVE nakon[i] = Tijelo(nakon, i)
  <2> HIDE DEF nakon, Tijelo, N
  <2> QED  BY <1>6
<1> DEFINE T == {i \in 0 .. N : nakon[i] = g[i]}
<1>9. 0 \in T
  <2>1. 0 \in 0 .. N  BY <1>1
  <2>2. nakon[0] = Tijelo(nakon, 0)
    <3> HIDE DEF nakon, Tijelo, N
    <3> QED  BY <1>8, <2>1
  <2>3. nakon[0] = b
    <3> HIDE DEF nakon
    <3> QED  BY <2>2 DEF PrviKorak
  <2> HIDE DEF nakon, N, b
  <2> QED  BY <1>2, <2>1, <2>3
<1>10. ASSUME NEW i \in 1 .. N, i - 1 \in T  PROVE i \in T
  <2>1. i \in 0 .. N /\ i # 0 /\ nakon[i - 1] = g[i - 1]  BY <1>1, <1>10
  <2>2. nakon[i] = Tijelo(nakon, i)
    <3> HIDE DEF nakon, Tijelo, N
    <3> QED  BY <1>8, <2>1
  <2>3. nakon[i] = Ponovo(K, V, nakon[i - 1])
    <3> HIDE DEF nakon
    <3> QED  BY <2>1, <2>2 DEF Ponovo
  <2> HIDE DEF nakon, N
  <2> QED  BY <1>3, <2>1, <2>3
<1>11. 0 .. N \subseteq T
  <2> HIDE DEF T, N
  <2> QED  BY <1>1, <1>9, <1>10, Korakom
<1>12. Prolazi(K, p, V) = g[N]
  <2> HIDE DEF nakon, N
  <2> QED  BY <1>1, <1>7, <1>11
<1>13. ProlaziIde(K, p, V, g)
  <2> HIDE DEF nakon, F, Tijelo
  <2> QED  BY <1>2, <1>3, <1>12 DEF ProlaziIde
<1> QED  BY <1>1, <1>13

\* An invariant of the passes, counted, holds of the last one.
LEMMA ProlaziKoracima ==
    ASSUME NEW K \in SUBSET Verzija, NEW V \in SUBSET Verzija, NEW p \in Redovi,
           NEW X \in [0 .. Cardinality(V) -> SUBSET Stanja],
           PrviKorak(p, V) \in X[0],
           \A i \in 1 .. Cardinality(V) : \A s \in X[i - 1] : Ponovo(K, V, s) \in X[i]
    PROVE  Prolazi(K, p, V) \in X[Cardinality(V)]
<1> DEFINE N == Cardinality(V)
<1>1. N \in Nat /\ \E g : ProlaziIde(K, p, V, g)  BY ProlaziJednako
<1>2. PICK g : ProlaziIde(K, p, V, g)  BY <1>1
<1>3. /\ g[0] = PrviKorak(p, V)
      /\ \A i \in 1 .. N : g[i] = Ponovo(K, V, g[i - 1])
      /\ Prolazi(K, p, V) = g[N]
  BY <1>2 DEF ProlaziIde
<1> HIDE DEF N
<1> DEFINE T == {i \in 0 .. N : g[i] \in X[i]}
<1>4. 0 \in T
  <2>1. g[0] \in X[0]  BY <1>3, Zenon
  <2> QED  BY <1>1, <2>1
<1>5. ASSUME NEW i \in 1 .. N, i - 1 \in T  PROVE i \in T
  <2>1. i \in 0 .. N /\ g[i - 1] \in X[i - 1]  BY <1>1, <1>5
  <2>2. g[i] = Ponovo(K, V, g[i - 1])  BY <1>3
  <2>3. g[i] \in X[i]  BY <2>1, <2>2 DEF N
  <2> QED  BY <2>1, <2>3
<1>6. 0 .. N \subseteq T
  <2> HIDE DEF T
  <2> QED  BY <1>1, <1>4, <1>5, Korakom
<1>7. g[N] \in X[N]  BY <1>1, <1>6
<1> QED  BY <1>3, <1>7 DEF N

LEMMA ProlaziOcuva ==
    ASSUME NEW K \in SUBSET Verzija, NEW V \in SUBSET Verzija, NEW p \in Redovi,
           NEW X \in SUBSET Stanja,
           PrviKorak(p, V) \in X,
           \A s \in X : Ponovo(K, V, s) \in X
    PROVE  Prolazi(K, p, V) \in X
<1> DEFINE N == Cardinality(V)
           Y == [i \in 0 .. N |-> X]
<1>1. N \in Nat  BY ProlaziJednako
<1>2. /\ Y \in [0 .. N -> SUBSET Stanja] /\ \A i \in 0 .. N : Y[i] = X
      /\ 0 \in 0 .. N /\ N \in 0 .. N /\ \A i \in 1 .. N : i \in 0 .. N /\ i - 1 \in 0 .. N
  BY <1>1
<1> HIDE DEF Y
<1>3. \A i \in 1 .. N : \A s \in Y[i - 1] : Ponovo(K, V, s) \in Y[i]  BY <1>2
<1>4. PrviKorak(p, V) \in Y[0]  BY <1>2
<1>5. Prolazi(K, p, V) \in Y[N]  BY <1>2, <1>3, <1>4, ProlaziKoracima
<1> QED  BY <1>2, <1>5

-----------------------------------------------------------------------------
(* Rows *)

\* Every row shows a living version of its record that is in the ledger, and
\* what it leans on is on the surface (foreign keys).
RedoviDrze(K, p) ==
    \A z \in Zapis : p[z] # Nema =>
        p[z] \in K /\ p[z].zapis = z /\ p[z].ziva /\ p[z].oslonci \subseteq NaPovrsini(p)

LEMMA MakniDrzi ==
    ASSUME NEW K, NEW p \in Redovi, RedoviDrze(K, p), NEW z \in Zapis
    PROVE  RedoviDrze(K, MakniSDjecom(p, z))
<1> DEFINE q == MakniSDjecom(p, z)
<1>1. PICK I \in SUBSET Zapis :
         /\ \A y \in Zapis : y \in I <=> y = z \/ (p[y] # Nema /\ p[y].oslonci \cap I # {})
         /\ q = [y \in Zapis |-> IF y \in I THEN Nema ELSE p[y]]
  BY MakniJednako
<1> HIDE DEF q
<1> SUFFICES ASSUME NEW y \in Zapis, q[y] # Nema
             PROVE  q[y] \in K /\ q[y].zapis = y /\ q[y].ziva /\ q[y].oslonci \subseteq NaPovrsini(q)
  BY DEF RedoviDrze, q
<1>2. y \notin I /\ q[y] = p[y] /\ p[y] # Nema  BY <1>1
<1>3. p[y] \in K /\ p[y].zapis = y /\ p[y].ziva /\ p[y].oslonci \subseteq NaPovrsini(p)
  BY <1>2 DEF RedoviDrze
<1>4. p[y].oslonci \cap I = {}  BY <1>1, <1>2
<1>5. \A r \in p[y].oslonci : q[r] = p[r] /\ p[r] # Nema /\ r \in Zapis
  BY <1>1, <1>3, <1>4 DEF NaPovrsini
<1> QED  BY <1>2, <1>3, <1>5 DEF NaPovrsini

\* A row written with all that it leans on.
LEMMA UpisDrzi ==
    ASSUME NEW K, NEW p \in Redovi, RedoviDrze(K, p), NEW v \in Verzija, v \in K,
           v.ziva, v.oslonci \subseteq NaPovrsini(p)
    PROVE  /\ [p EXCEPT ![v.zapis] = v] \in Redovi
           /\ RedoviDrze(K, [p EXCEPT ![v.zapis] = v])
<1> DEFINE q == [p EXCEPT ![v.zapis] = v]
<1>1. v # Nema /\ v.zapis \in Zapis  BY PovrsinaPretpostavka DEF Verzija
<1>2. q \in Redovi /\ \A y \in Zapis : q[y] = IF y = v.zapis THEN v ELSE p[y]
  BY <1>1 DEF Redovi
<1> HIDE DEF q
<1>3. NaPovrsini(p) \subseteq NaPovrsini(q)  BY <1>1, <1>2 DEF NaPovrsini
<1>4. RedoviDrze(K, q)
  <2> SUFFICES ASSUME NEW y \in Zapis, q[y] # Nema
               PROVE  q[y] \in K /\ q[y].zapis = y /\ q[y].ziva /\ q[y].oslonci \subseteq NaPovrsini(q)
    BY DEF RedoviDrze
  <2>1. CASE y = v.zapis  BY <1>2, <1>3, <2>1
  <2>2. CASE y # v.zapis
    <3>1. q[y] = p[y]  BY <1>2, <2>2
    <3> QED  BY <1>3, <3>1 DEF RedoviDrze
  <2> QED  BY <2>1, <2>2
<1> QED  BY <1>2, <1>4 DEF q

LEMMA RazinaDrzi ==
    ASSUME NEW K \in SUBSET Verzija, NEW p, NEW z, NEW s \in Redovi, RedoviDrze(K, s)
    PROVE  RedoviDrze(K, Razina(K, p, z, s))
<1> DEFINE dj == DjecaIzKnjige(K, s, {z} \cup (NaPovrsini(s) \ NaPovrsini(p)))
           q == Razina(K, p, z, s)
<1>1. q = [y \in Zapis |-> IF y \in dj /\ Zadnja(K, y).oslonci \subseteq NaPovrsini(s)
                           THEN Zadnja(K, y) ELSE s[y]]
  BY DEF Razina
<1>2. \A y \in dj : y \in Zapis /\ s[y] = Nema /\ Ziva(Zadnja(K, y))
  BY DEF DjecaIzKnjige, NaPovrsini
<1> HIDE DEF dj, q
<1>3. NaPovrsini(s) \subseteq NaPovrsini(q)  BY <1>1, <1>2 DEF NaPovrsini
<1> SUFFICES ASSUME NEW y \in Zapis, q[y] # Nema
             PROVE  q[y] \in K /\ q[y].zapis = y /\ q[y].ziva /\ q[y].oslonci \subseteq NaPovrsini(q)
  BY DEF RedoviDrze, q
<1>4. CASE y \in dj /\ Zadnja(K, y).oslonci \subseteq NaPovrsini(s)
  <2>1. q[y] = Zadnja(K, y) /\ Ziva(Zadnja(K, y))  BY <1>1, <1>2, <1>4
  <2>2. Zadnja(K, y) \in K /\ Zadnja(K, y).zapis = y /\ Zadnja(K, y).ziva
    BY <2>1, ZadnjaCita DEF Ziva
  <2> QED  BY <1>3, <1>4, <2>1, <2>2
<1>5. CASE ~(y \in dj /\ Zadnja(K, y).oslonci \subseteq NaPovrsini(s))
  <2>1. q[y] = s[y]  BY <1>1, <1>5
  <2> QED  BY <1>3, <2>1 DEF RedoviDrze
<1> QED  BY <1>4, <1>5

LEMMA VratiDjecuDrzi ==
    ASSUME NEW K \in SUBSET Verzija, NEW p \in Redovi, NEW z \in Zapis, RedoviDrze(K, p)
    PROVE  RedoviDrze(K, VratiDjecu(K, p, z).p)
<1> DEFINE N == Zapisa
<1>1. PICK g : Razine(K, p, z, g)  BY VratiDjecuJednako
<1>2. N \in Nat  BY VratiDjecuJednako
<1>3. /\ g \in [0 .. N -> Redovi]
      /\ g[0] = p
      /\ \A i \in 1 .. N : g[i] = Razina(K, p, z, g[i - 1])
      /\ VratiDjecu(K, p, z).p = g[N]
  BY <1>1 DEF Razine
<1> DEFINE T == {i \in 0 .. N : RedoviDrze(K, g[i])}
<1> HIDE DEF N
<1>4. 0 \in T  BY <1>2, <1>3
<1>5. ASSUME NEW i \in 1 .. N, i - 1 \in T  PROVE i \in T
  <2>1. g[i - 1] \in Redovi /\ i \in 0 .. N /\ RedoviDrze(K, g[i - 1])  BY <1>2, <1>3, <1>5
  <2>2. RedoviDrze(K, g[i])  BY <1>3, <2>1, RazinaDrzi
  <2> QED  BY <2>1, <2>2
<1>6. N \in T
  <2> HIDE DEF T
  <2>1. 0 .. N \subseteq T  BY <1>2, <1>4, <1>5, Korakom
  <2> QED  BY <1>2, <2>1
<1> QED  BY <1>3, <1>6

\* The surface during a packet's transaction that began on p: the rows hold,
\* and a row that is not the one of p is the last version of its record.
ZapisiU(K) == {v.zapis : v \in K}
Ocuvano(K, p) ==
    {s \in Stanja : /\ RedoviDrze(K, s.p)
                    /\ s.ceka \cup s.palo \subseteq ZapisiU(K)
                    /\ \A z \in Zapis : s.p[z] \in {Nema, p[z], Zadnja(K, z)}}

LEMMA PrimijeniDrzi ==
    ASSUME NEW K \in SUBSET Verzija, NEW p \in Redovi, NEW s \in Ocuvano(K, p), NEW v \in Verzija,
           v \in K, v = Zadnja(K, v.zapis)
    PROVE  PrimijeniVerziju(K, s, v) \in Ocuvano(K, p)
<1> DEFINE z == v.zapis
           red == [s.p EXCEPT ![z] = v]
           d == VratiDjecu(K, red, z)
           t == PrimijeniVerziju(K, s, v)
<1>1. /\ z \in Zapis /\ s \in Stanja /\ s.p \in Redovi /\ RedoviDrze(K, s.p)
      /\ \A y \in Zapis : s.p[y] \in {Nema, p[y], Zadnja(K, y)}
      /\ s.ceka \subseteq ZapisiU(K) /\ s.palo \subseteq ZapisiU(K) /\ z \in ZapisiU(K)
  BY DEF Verzija, Ocuvano, Stanja, ZapisiU
<1>2. t \in Stanja  BY <1>1, PrimijeniTip
<1>7. t.ceka \cup t.palo \subseteq ZapisiU(K)
  <2>1. CASE t.ceka = s.ceka /\ t.palo \subseteq s.palo \cup {z}  BY <1>1, <2>1
  <2>2. CASE /\ v.ziva /\ v.oslonci \subseteq NaPovrsini(s.p)
             /\ t.ceka = s.ceka \cup d.ceka /\ t.palo = s.palo
    <3>1. red \in Redovi  BY <1>1, <2>2, UpisDrzi
    <3>2. d.ceka \subseteq {y \in Zapis : Ziva(Zadnja(K, y))}
      <4> HIDE DEF red, z
      <4> QED  BY <1>1, <3>1, VratiDjecuTip
    <3>3. \A y \in Zapis : Ziva(Zadnja(K, y)) => y \in ZapisiU(K)
      <4> SUFFICES ASSUME NEW y \in Zapis, Ziva(Zadnja(K, y))  PROVE y \in ZapisiU(K)
        OBVIOUS
      <4>1. Zadnja(K, y) \in K /\ Zadnja(K, y).zapis = y  BY ZadnjaCita DEF Ziva
      <4> QED  BY <4>1 DEF ZapisiU
    <3> QED  BY <1>1, <2>2, <3>2, <3>3
  <2>3. \/ t.ceka = s.ceka /\ t.palo \subseteq s.palo \cup {z}
        \/ /\ v.ziva /\ v.oslonci \subseteq NaPovrsini(s.p)
           /\ t.ceka = s.ceka \cup d.ceka /\ t.palo = s.palo
    <3> HIDE DEF red, d, z
    <3> QED  BY <1>1 DEF PrimijeniVerziju, Stanja, z, red, d
  <2> QED  BY <2>1, <2>2, <2>3
<1>3. t.p = s.p \/ t.p = MakniSDjecom(s.p, z)
      \/ (v.ziva /\ v.oslonci \subseteq NaPovrsini(s.p) /\ (t.p = red \/ t.p = d.p))
  <2> HIDE DEF red, d, z
  <2> QED  BY <1>1 DEF PrimijeniVerziju, Stanja, z, red, d
<1> SUFFICES t \in Ocuvano(K, p)
  OBVIOUS
<1> HIDE DEF t
<1>4. CASE t.p = s.p  BY <1>1, <1>2, <1>4, <1>7 DEF Ocuvano
<1>5. CASE t.p = MakniSDjecom(s.p, z)
  <2>1. RedoviDrze(K, t.p)  BY <1>1, <1>5, MakniDrzi
  <2>2. \A y \in Zapis : t.p[y] \in {Nema, s.p[y]}
    <3>1. PICK I \in SUBSET Zapis : t.p = [y \in Zapis |-> IF y \in I THEN Nema ELSE s.p[y]]
      <4>1. \E I \in SUBSET Zapis :
              MakniSDjecom(s.p, z) = [y \in Zapis |-> IF y \in I THEN Nema ELSE s.p[y]]
        <5> HIDE DEF z
        <5> QED  BY <1>1, MakniJednako
      <4> QED  BY <1>5, <4>1
    <3> QED  BY <3>1
  <2>3. \A y \in Zapis : t.p[y] \in {Nema, p[y], Zadnja(K, y)}  BY <1>1, <2>2
  <2> QED  BY <1>2, <2>1, <2>3, <1>7 DEF Ocuvano
<1>6. CASE v.ziva /\ v.oslonci \subseteq NaPovrsini(s.p) /\ (t.p = red \/ t.p = d.p)
  <2>1. red \in Redovi /\ RedoviDrze(K, red)  BY <1>1, <1>6, UpisDrzi
  <2>2. \A y \in Zapis : red[y] \in {s.p[y], Zadnja(K, y)}
    <3>1. \A y \in Zapis : red[y] = IF y = z THEN v ELSE s.p[y]  BY <1>1 DEF Redovi
    <3> QED  BY <3>1
  <2>3. RedoviDrze(K, d.p) /\ \A y \in Zapis : d.p[y] \in {red[y], Zadnja(K, y)}
    <3> HIDE DEF red, z
    <3> QED  BY <1>1, <2>1, VratiDjecuDrzi, VratiDjecuTip
  <2> HIDE DEF red, d
  <2>4. RedoviDrze(K, t.p)  BY <1>6, <2>1, <2>3
  <2>5. \A y \in Zapis : t.p[y] \in {s.p[y], Zadnja(K, y)}  BY <1>6, <2>2, <2>3
  <2>6. \A y \in Zapis : t.p[y] \in {Nema, p[y], Zadnja(K, y)}  BY <1>1, <2>5
  <2> QED  BY <1>2, <2>4, <2>6, <1>7 DEF Ocuvano
<1> HIDE DEF red, d
<1> QED  BY <1>3, <1>4, <1>5, <1>6

LEMMA ProlazDrzi ==
    ASSUME NEW K \in SUBSET Verzija, NEW p \in Redovi, NEW s \in Ocuvano(K, p),
           NEW V \in SUBSET K
    PROVE  Prolaz(K, s, V) \in Ocuvano(K, p)
<1> DEFINE O == Ocuvano(K, p)
           X == [i \in 0 .. ZadnjaVerzija |-> O]
<1>1. O \in SUBSET Stanja /\ V \in SUBSET Verzija /\ s \in Stanja  BY DEF Ocuvano
<1>2. [s EXCEPT !.palo = {}] \in O
  <2> DEFINE t == [s EXCEPT !.palo = {}]
  <2>1. t \in Stanja /\ t.p = s.p /\ t.ceka = s.ceka /\ t.palo = {}
    BY <1>1 DEF Stanja
  <2> HIDE DEF t
  <2>2. t \in O  BY <2>1 DEF Ocuvano
  <2> QED  BY <2>2 DEF t
<1>3. ASSUME NEW t \in O, NEW i, NEW w, JeOznaka(K, V, i, w)  PROVE PrimijeniVerziju(K, t, w) \in O
  <2>1. w \in K /\ w \in Verzija /\ w = Zadnja(K, w.zapis)  BY <1>3 DEF JeOznaka
  <2> QED  BY <2>1, PrimijeniDrzi
<1> HIDE DEF O
<1>4. X \in [0 .. ZadnjaVerzija -> SUBSET Stanja]  BY <1>1
<1>5. \A i \in 0 .. ZadnjaVerzija : X[i] = O  OBVIOUS
<1>6. 0 \in 0 .. ZadnjaVerzija /\ ZadnjaVerzija \in 0 .. ZadnjaVerzija
      /\ \A i \in 1 .. ZadnjaVerzija : i \in 0 .. ZadnjaVerzija /\ i - 1 \in 0 .. ZadnjaVerzija
  BY PovrsinaPretpostavka
<1>7. [s EXCEPT !.palo = {}] \in X[0]  BY <1>2, <1>6
<1>8. \A i \in 1 .. ZadnjaVerzija : \A t \in X[i - 1] :
         /\ NemaOznake(K, V, i) => t \in X[i]
         /\ \A w : JeOznaka(K, V, i, w) => PrimijeniVerziju(K, t, w) \in X[i]
  <2> HIDE DEF X
  <2> QED  BY <1>3, <1>5, <1>6
<1> HIDE DEF X
<1>9. Prolaz(K, s, V) \in X[ZadnjaVerzija]  BY <1>1, <1>4, <1>7, <1>8, ProlazOcuva
<1> QED  BY <1>5, <1>6, <1>9 DEF O

LEMMA ProlaziDrze ==
    ASSUME NEW K \in SUBSET Verzija, NEW p \in Redovi, RedoviDrze(K, p), NEW V \in SUBSET K
    PROVE  Prolazi(K, p, V) \in Ocuvano(K, p)
<1> DEFINE O == Ocuvano(K, p)
<1>1. O \in SUBSET Stanja /\ V \in SUBSET Verzija  BY DEF Ocuvano
<1>2. PrviKorak(p, V) \in O  BY DEF PrviKorak, Ocuvano, Stanja, Verzija, ZapisiU
<1>3. ASSUME NEW s \in O  PROVE Ponovo(K, V, s) \in O
  <2>1. {v \in V : v.zapis \in s.palo} \in SUBSET K  OBVIOUS
  <2> QED  BY <2>1, ProlazDrzi DEF Ponovo
<1> HIDE DEF O
<1>4. Prolazi(K, p, V) \in O  BY <1>1, <1>2, <1>3, ProlaziOcuva
<1> QED  BY <1>4 DEF O

-----------------------------------------------------------------------------
(* Ledgers, packets and what waits, in every reachable state *)

\* New versions take the labels after all that were written.
LEMMA NoveOznake ==
    ASSUME NEW A \in Knjige, \A v \in A : v.oznaka <= Cardinality(A),
           NEW S \in Knjige,
           \A v \in S : Cardinality(A) < v.oznaka /\ v.oznaka <= Cardinality(A) + Cardinality(S)
    PROVE  /\ A \cup S \in Knjige
           /\ Cardinality(A \cup S) = Cardinality(A) + Cardinality(S)
           /\ \A v \in A \cup S : v.oznaka <= Cardinality(A \cup S)
<1>1. IsFiniteSet(A) /\ IsFiniteSet(S) /\ A \in SUBSET Verzija /\ S \in SUBSET Verzija
  BY VerzijaKonacna, FS_Subset DEF Knjige
<1>2. Cardinality(A) \in Nat /\ Cardinality(S) \in Nat  BY <1>1, FS_CardinalityType
<1>3. \A v \in A \cup S : v.oznaka \in Nat
  BY <1>1, PovrsinaPretpostavka DEF Verzija, Oznake
<1>4. \A v \in A, w \in S : v.oznaka # w.oznaka  BY <1>2, <1>3
<1>5. A \cap S = {}  BY <1>4
<1>6. Cardinality(A \cup S) = Cardinality(A) + Cardinality(S)
  <2>1. Cardinality(A \cup S) = Cardinality(A) + Cardinality(S) - Cardinality(A \cap S)
    BY <1>1, FS_Union
  <2>2. Cardinality(A \cap S) = 0  BY <1>5, FS_EmptySet
  <2> QED  BY <1>2, <2>1, <2>2
<1>7. A \cup S \in Knjige  BY <1>4 DEF Knjige
<1>8. ASSUME NEW v \in A \cup S  PROVE v.oznaka <= Cardinality(A \cup S)
  <2>1. CASE v \in A
    <3>1. v.oznaka <= Cardinality(A)  BY <2>1
    <3> QED  BY <1>2, <1>3, <1>6, <3>1
  <2>2. CASE v \in S  BY <1>6, <2>2
  <2> QED  BY <2>1, <2>2
<1> QED  BY <1>6, <1>7, <1>8

\* The ledgers: labels tell versions apart and are in the order of writing,
\* contents are those of the record, what waits has a version, a packet is in
\* the ledger, and the rows hold.
Osnova ==
    /\ TypeOK
    /\ Napisano \in Knjige
    /\ \A v \in Napisano : v.oznaka <= BrojNapisanih
    /\ \A v \in Napisano : v.oslonci \in Sadrzaji[v.zapis]
    /\ \A n \in Cvor :
          /\ nedovrseni[n] \subseteq ZapisiU(knjiga[n])
          /\ paket[n] \subseteq knjiga[n]
          /\ faza[n] # "radi" => nedovrseni[n] = {} /\ paket[n] = {}
          /\ RedoviDrze(knjiga[n], povrsina[n])

LEMMA RedoviDrzeVise ==
    ASSUME NEW K, NEW L, K \subseteq L, NEW p, RedoviDrze(K, p)
    PROVE  RedoviDrze(L, p)
BY DEF RedoviDrze

LEMMA OsnovaPocetak == Init => Osnova
<1> SUFFICES ASSUME Init  PROVE Osnova
  OBVIOUS
<1> USE PovrsinaPretpostavka
<1> DEFINE P == PocetnaKnjiga
<1>1. Slika(P) \in Redovi  BY SlikaJednako
<1>2. TypeOK
  <2>1. P \in SUBSET Verzija  OBVIOUS
  <2> QED  BY <1>1, <2>1 DEF Init, TypeOK, Redovi
<1>3. P \in Knjige
  <2> DEFINE k == Cardinality(P)
             f == [v \in P |-> v.oznaka]
  <2>1. IsFiniteSet(P)  BY VerzijaKonacna, FS_Subset
  <2>2. k \in Nat  BY <2>1, FS_CardinalityType
  <2>3. Cardinality(1 .. k) = k
    <3>1. 1 \in Int /\ k \in Int  BY <2>2
    <3>2. Cardinality(1 .. k) = IF 1 > k THEN 0 ELSE k - 1 + 1
      <4> HIDE DEF k
      <4> QED  BY <3>1, FS_Interval
    <3> HIDE DEF k
    <3> QED  BY <2>2, <3>2
  <2>4. f \in Surjection(P, 1 .. k)
    <3>1. \A v \in P : v.oznaka \in 1 .. k  OBVIOUS
    <3>2. \A i \in 1 .. k : \E v \in P : v.oznaka = i  OBVIOUS
    <3> HIDE DEF k
    <3> QED  BY <3>1, <3>2 DEF Surjection
  <2>5. f \in Injection(P, 1 .. k)
    <3> HIDE DEF f
    <3> QED  BY <2>1, <2>3, <2>4, FS_SurjSameCardinalityImpliesInj
  <2>6. ASSUME NEW v \in P, NEW w \in P, v.oznaka = w.oznaka  PROVE v = w
    <3>1. f[v] = f[w]  BY <2>6
    <3> HIDE DEF f
    <3> QED  BY <2>5, <3>1 DEF Injection, IsInjective
  <2> QED  BY <2>6 DEF Knjige
<1>4. RedoviDrze(P, Slika(P))
  <2> DEFINE q == Slika(P)
  <2>1. \A z \in Zapis : q[z] = IF Ziva(Zadnja(P, z)) /\ \A r \in Zadnja(P, z).oslonci : q[r] # Nema
                               THEN Zadnja(P, z) ELSE Nema
    BY SlikaJednako
  <2> HIDE DEF q
  <2> SUFFICES ASSUME NEW y \in Zapis, q[y] # Nema
               PROVE  q[y] \in P /\ q[y].zapis = y /\ q[y].ziva /\ q[y].oslonci \subseteq NaPovrsini(q)
    BY DEF RedoviDrze, q
  <2>2. /\ q[y] = Zadnja(P, y) /\ Zadnja(P, y) # Nema /\ Zadnja(P, y).ziva
        /\ \A r \in Zadnja(P, y).oslonci : q[r] # Nema
    BY <2>1 DEF Ziva
  <2>3. Zadnja(P, y) \in P /\ Zadnja(P, y).zapis = y /\ Zadnja(P, y).oslonci \subseteq Zapis
    BY <2>2, ZadnjaCita DEF Verzija
  <2> QED  BY <2>2, <2>3 DEF NaPovrsini
<1>5. Napisano = P \/ Napisano = {}  BY DEF Init, Napisano
<1>6. Napisano \in Knjige /\ \A v \in Napisano : v.oznaka <= BrojNapisanih
  <2>1. CASE Napisano = P
    <3>1. \A v \in P : v.oznaka \in 1 .. Cardinality(P)  OBVIOUS
    <3>2. \A v \in P : v.oznaka <= Cardinality(P)  BY <3>1
    <3> QED  BY <1>3, <2>1, <3>2 DEF BrojNapisanih
  <2>2. CASE Napisano = {}  BY <2>2 DEF Knjige
  <2> QED  BY <1>5, <2>1, <2>2
<1>7. \A v \in Napisano : v.oslonci \in Sadrzaji[v.zapis]  BY <1>5
<1> QED  BY <1>2, <1>4, <1>6, <1>7 DEF Init, Osnova

\* A step of node n: versions added to its ledger, its new rows, what then
\* waits, its packet and its phase.
Promjena(n, S, q, c, w, f) ==
    /\ knjiga' = [knjiga EXCEPT ![n] = @ \cup S]
    /\ povrsina' = [povrsina EXCEPT ![n] = q]
    /\ nedovrseni' = [nedovrseni EXCEPT ![n] = c]
    /\ paket' = [paket EXCEPT ![n] = w]
    /\ faza' = [faza EXCEPT ![n] = f]

LEMMA OsnovaOcuvana ==
    ASSUME Osnova, NEW n \in Cvor, NEW S \in SUBSET Verzija, NEW q \in Redovi,
           NEW c \in SUBSET Zapis, NEW w, NEW f \in {"radi", "ugasen", "obnova"},
           Promjena(n, S, q, c, w, f),
           padova' \in 0 .. NajvisePadova, gasenja' \in 0 .. NajviseGasenja,
           Napisano \cup S \in Knjige,
           \A v \in Napisano \cup S : v.oznaka <= Cardinality(Napisano \cup S),
           \A v \in S : v.oslonci \in Sadrzaji[v.zapis],
           c \subseteq ZapisiU(knjiga[n] \cup S), w \subseteq knjiga[n] \cup S,
           f # "radi" => c = {} /\ w = {},
           RedoviDrze(knjiga[n] \cup S, q)
    PROVE  Osnova'
<1> USE DEF Promjena
<1>1. TypeOK  BY DEF Osnova
<1>2. /\ knjiga'[n] = knjiga[n] \cup S /\ povrsina'[n] = q /\ nedovrseni'[n] = c
      /\ paket'[n] = w /\ faza'[n] = f
  BY <1>1 DEF TypeOK
<1>3. \A m \in Cvor \ {n} :
         /\ knjiga'[m] = knjiga[m] /\ povrsina'[m] = povrsina[m] /\ nedovrseni'[m] = nedovrseni[m]
         /\ paket'[m] = paket[m] /\ faza'[m] = faza[m]
  BY <1>1 DEF TypeOK
<1>4. Napisano' = Napisano \cup S
  <2>1. DOMAIN knjiga = Cvor  BY <1>1 DEF TypeOK
  <2>2. \A m \in Cvor : knjiga'[m] = IF m = n THEN knjiga[m] \cup S ELSE knjiga[m]
    BY <1>2, <1>3
  <2>3. Napisano' = UNION {knjiga'[m] : m \in Cvor}  BY DEF Napisano
  <2>4. Napisano = UNION {knjiga[m] : m \in Cvor}  BY DEF Napisano
  <2> QED  BY <2>2, <2>3, <2>4
<1>5. TypeOK'
  <2>1. knjiga[n] \cup S \in SUBSET Verzija /\ w \in SUBSET Verzija  BY <1>1 DEF TypeOK
  <2>2. q \in [Zapis -> Verzija \cup {Nema}]  BY DEF Redovi
  <2> QED  BY <1>1, <2>1, <2>2 DEF TypeOK
<1>6. BrojNapisanih' = Cardinality(Napisano \cup S)  BY <1>4 DEF BrojNapisanih
<1>7. /\ Napisano' \in Knjige
      /\ \A v \in Napisano' : v.oznaka <= BrojNapisanih'
      /\ \A v \in Napisano' : v.oslonci \in Sadrzaji[v.zapis]
  BY <1>4, <1>6 DEF Osnova
<1>8. ASSUME NEW m \in Cvor
      PROVE  /\ nedovrseni'[m] \subseteq ZapisiU(knjiga'[m])
             /\ paket'[m] \subseteq knjiga'[m]
             /\ faza'[m] # "radi" => nedovrseni'[m] = {} /\ paket'[m] = {}
             /\ RedoviDrze(knjiga'[m], povrsina'[m])
  <2> HIDE DEF Promjena
  <2>1. CASE m = n  BY <1>2, <2>1
  <2>2. CASE m # n  BY <1>3, <2>2 DEF Osnova
  <2> QED  BY <2>1, <2>2
<1>9. /\ \A v \in Napisano' : v.oznaka <= BrojNapisanih'
      /\ \A m \in Cvor :
             /\ nedovrseni'[m] \subseteq ZapisiU(knjiga'[m])
             /\ paket'[m] \subseteq knjiga'[m]
             /\ faza'[m] # "radi" => nedovrseni'[m] = {} /\ paket'[m] = {}
             /\ RedoviDrze(knjiga'[m], povrsina'[m])
  BY <1>7, <1>8
<1> HIDE DEF Promjena
<1> QED  BY <1>5, <1>7, <1>9 DEF Osnova, ZapisiU, RedoviDrze, NaPovrsini

\* What a node's own write adds.
NovaJe(v, z, s) ==
    /\ v \in Verzija /\ v.zapis = z /\ v.oslonci = s
    /\ Napisano \cup {v} \in Knjige
    /\ \A w \in Napisano \cup {v} : w.oznaka <= Cardinality(Napisano \cup {v})
    /\ \A w \in Napisano : w.oznaka < v.oznaka

LEMMA NovaVerzija ==
    ASSUME Osnova, NEW n \in Cvor, NEW z \in Zapis, NEW ziva \in BOOLEAN, NEW s \in Sadrzaji[z],
           BrojNapisanih < ZadnjaVerzija
    PROVE  NovaJe(Nova(n, BrojNapisanih + 1, z, ziva, s), z, s)
<1> DEFINE B == BrojNapisanih
           v == Nova(n, B + 1, z, ziva, s)
<1>1. Napisano \in Knjige /\ \A w \in Napisano : w.oznaka <= Cardinality(Napisano)
  BY DEF Osnova, BrojNapisanih
<1>2. IsFiniteSet(Napisano)  BY <1>1, VerzijaKonacna, FS_Subset DEF Knjige
<1>3. B \in Nat  BY <1>2, FS_CardinalityType DEF BrojNapisanih
<1>4. v \in Verzija /\ v.zapis = z /\ v.oslonci = s /\ v.oznaka = B + 1
  <2>1. s \in SUBSET Zapis  BY PovrsinaPretpostavka
  <2>2. B + 1 \in Oznake  BY <1>3, PovrsinaPretpostavka DEF Oznake
  <2> HIDE DEF B
  <2> QED  BY <2>1, <2>2 DEF Nova, Verzija
<1> HIDE DEF v
<1>5. {v} \in Knjige  BY <1>4 DEF Knjige
<1>6. Cardinality({v}) = 1  BY FS_Singleton
<1>7. \A w \in {v} : /\ Cardinality(Napisano) < w.oznaka
                     /\ w.oznaka <= Cardinality(Napisano) + Cardinality({v})
  BY <1>3, <1>4, <1>6 DEF BrojNapisanih
<1>8. /\ Napisano \cup {v} \in Knjige
      /\ \A w \in Napisano \cup {v} : w.oznaka <= Cardinality(Napisano \cup {v})
  BY <1>1, <1>5, <1>7, NoveOznake
<1>9. \A w \in Napisano : w.oznaka < v.oznaka
  <2>1. \A w \in Napisano : w.oznaka \in Nat
    BY <1>1, PovrsinaPretpostavka DEF Knjige, Verzija, Oznake
  <2> QED  BY <1>1, <1>3, <1>4, <2>1 DEF BrojNapisanih
<1>10. NovaJe(v, z, s)  BY <1>4, <1>8, <1>9 DEF NovaJe
<1> QED  BY <1>10 DEF v

LEMMA ZivaUKnjizi ==
    ASSUME NEW K \in SUBSET Verzija, NEW z \in Zapis, Zadnja(K, z) # Nema
    PROVE  z \in ZapisiU(K)
<1>1. Zadnja(K, z) \in K /\ Zadnja(K, z).zapis = z  BY ZadnjaCita
<1> QED  BY <1>1 DEF ZapisiU

\* What Osnova says of one node.
LEMMA OsnovaCvora ==
    ASSUME Osnova, NEW n \in Cvor
    PROVE  /\ knjiga[n] \in SUBSET Verzija /\ knjiga[n] \in Knjige /\ knjiga[n] \subseteq Napisano
           /\ povrsina[n] \in Redovi
           /\ nedovrseni[n] \in SUBSET Zapis /\ nedovrseni[n] \subseteq ZapisiU(knjiga[n])
           /\ paket[n] \in SUBSET Verzija /\ paket[n] \subseteq knjiga[n]
           /\ faza[n] \in {"radi", "ugasen", "obnova"}
           /\ faza[n] # "radi" => nedovrseni[n] = {} /\ paket[n] = {}
           /\ RedoviDrze(knjiga[n], povrsina[n])
           /\ Napisano \in Knjige /\ Napisano \cup {} = Napisano
           /\ \A v \in Napisano : v.oznaka <= Cardinality(Napisano)
           /\ padova \in 0 .. NajvisePadova /\ gasenja \in 0 .. NajviseGasenja
<1>1. /\ knjiga[n] \in SUBSET Verzija /\ povrsina[n] \in Redovi /\ nedovrseni[n] \in SUBSET Zapis
      /\ paket[n] \in SUBSET Verzija /\ faza[n] \in {"radi", "ugasen", "obnova"}
      /\ padova \in 0 .. NajvisePadova /\ gasenja \in 0 .. NajviseGasenja
  BY DEF Osnova, TypeOK, Redovi
<1>2. knjiga[n] \subseteq Napisano  BY DEF Napisano
<1>3. knjiga[n] \in Knjige  BY <1>1, <1>2 DEF Osnova, Knjige
<1> QED  BY <1>1, <1>2, <1>3 DEF Osnova, BrojNapisanih

LEMMA OsnovaUpisi ==
    ASSUME Osnova, NEW n \in Cvor, NEW z \in Zapis, NEW s \in Sadrzaji[z], Upisi(n, z, s)
    PROVE  Osnova'
<1> DEFINE v == Nova(n, BrojNapisanih + 1, z, TRUE, s)
           K == knjiga[n] \cup {v}
           red == [povrsina[n] EXCEPT ![z] = v]
           d == VratiDjecu(K, red, z)
<1>1. /\ v \in Verzija /\ v.zapis = z /\ v.ziva /\ v.oslonci = s
      /\ Napisano \cup {v} \in Knjige
      /\ \A w \in Napisano \cup {v} : w.oznaka <= Cardinality(Napisano \cup {v})
  <2>1. BrojNapisanih < ZadnjaVerzija /\ TRUE \in BOOLEAN  BY DEF Upisi
  <2>2. NovaJe(v, z, s)  BY <2>1, NovaVerzija, Zenon
  <2>3. v.ziva  BY DEF Nova
  <2> QED  BY <2>2, <2>3 DEF NovaJe
<1>2. /\ knjiga[n] \in SUBSET Verzija /\ povrsina[n] \in Redovi /\ nedovrseni[n] \in SUBSET Zapis
      /\ nedovrseni[n] \subseteq ZapisiU(knjiga[n]) /\ paket[n] \subseteq knjiga[n]
      /\ RedoviDrze(knjiga[n], povrsina[n])
      /\ padova \in 0 .. NajvisePadova /\ gasenja \in 0 .. NajviseGasenja
  BY OsnovaCvora
<1>3. /\ faza[n] = "radi" /\ s \subseteq NaPovrsini(povrsina[n])
      /\ padova' = padova /\ gasenja' = gasenja
  BY DEF Upisi
<1>4. K \in SUBSET Verzija /\ v \in K /\ ZapisiU(knjiga[n]) \subseteq ZapisiU(K)
      /\ K = knjiga[n] \cup {v}
  BY <1>1, <1>2 DEF ZapisiU
<1>5. TypeOK  BY DEF Osnova
<1>6. \/ Promjena(n, {v}, red, nedovrseni[n], paket[n], "radi")
      \/ Promjena(n, {v}, d.p, nedovrseni[n] \cup d.ceka, paket[n], "radi")
  <2>1. /\ paket' = [paket EXCEPT ![n] = paket[n]] /\ faza' = [faza EXCEPT ![n] = "radi"]
        /\ knjiga' = [knjiga EXCEPT ![n] = @ \cup {v}]
    BY <1>3, <1>5 DEF TypeOK, Upisi
  <2>2. \/ /\ povrsina' = [povrsina EXCEPT ![n] = d.p]
           /\ nedovrseni' = [nedovrseni EXCEPT ![n] = @ \cup d.ceka]
        \/ /\ povrsina' = [povrsina EXCEPT ![n] = red]
           /\ UNCHANGED nedovrseni
    BY DEF Upisi
  <2>3. UNCHANGED nedovrseni => nedovrseni' = [nedovrseni EXCEPT ![n] = nedovrseni[n]]
    BY <1>5 DEF TypeOK
  <2>4. [nedovrseni EXCEPT ![n] = @ \cup d.ceka] = [nedovrseni EXCEPT ![n] = nedovrseni[n] \cup d.ceka]
    BY <1>5 DEF TypeOK
  <2> HIDE DEF v, red, d
  <2> QED  BY <2>1, <2>2, <2>3, <2>4 DEF Promjena
<1> HIDE DEF v, K
<1>7. red \in Redovi /\ RedoviDrze(K, red)
  <2>1. RedoviDrze(K, povrsina[n])  BY <1>2, <1>4, RedoviDrzeVise
  <2> QED  BY <1>1, <1>2, <1>3, <1>4, <2>1, UpisDrzi
<1> HIDE DEF red
<1>8. d.p \in Redovi /\ d.ceka \in SUBSET Zapis /\ d.ceka \subseteq ZapisiU(K) /\ RedoviDrze(K, d.p)
  <2>1. d.p \in Redovi /\ d.ceka \in SUBSET {y \in Zapis : Ziva(Zadnja(K, y))}
    BY <1>4, <1>7, VratiDjecuTip
  <2>2. RedoviDrze(K, d.p)  BY <1>4, <1>7, VratiDjecuDrzi
  <2>3. \A y \in Zapis : Ziva(Zadnja(K, y)) => y \in ZapisiU(K)
    BY <1>4, ZivaUKnjizi DEF Ziva
  <2> QED  BY <2>1, <2>2, <2>3
<1> HIDE DEF d
<1>9. \A w \in {v} : w.oslonci \in Sadrzaji[w.zapis]  BY <1>1
<1>10. {v} \in SUBSET Verzija /\ padova' \in 0 .. NajvisePadova /\ gasenja' \in 0 .. NajviseGasenja
       /\ paket[n] \subseteq K /\ nedovrseni[n] \subseteq ZapisiU(K)
       /\ nedovrseni[n] \cup d.ceka \in SUBSET Zapis /\ nedovrseni[n] \cup d.ceka \subseteq ZapisiU(K)
  BY <1>1, <1>2, <1>3, <1>4, <1>8
<1>11. CASE Promjena(n, {v}, red, nedovrseni[n], paket[n], "radi")
  BY <1>1, <1>2, <1>4, <1>7, <1>9, <1>10, <1>11, OsnovaOcuvana
<1>12. CASE Promjena(n, {v}, d.p, nedovrseni[n] \cup d.ceka, paket[n], "radi")
  BY <1>1, <1>4, <1>8, <1>9, <1>10, <1>12, OsnovaOcuvana
<1> QED  BY <1>6, <1>11, <1>12

LEMMA OsnovaObrisi ==
    ASSUME Osnova, NEW n \in Cvor, NEW z \in Zapis, Obrisi(n, z)
    PROVE  Osnova'
<1> DEFINE p == povrsina[n]
           s == p[z].oslonci
           v == Nova(n, BrojNapisanih + 1, z, FALSE, s)
           K == knjiga[n] \cup {v}
           q == [p EXCEPT ![z] = Nema]
<1>2. /\ knjiga[n] \in SUBSET Verzija /\ p \in Redovi /\ nedovrseni[n] \in SUBSET Zapis
      /\ nedovrseni[n] \subseteq ZapisiU(knjiga[n]) /\ paket[n] \subseteq knjiga[n]
      /\ RedoviDrze(knjiga[n], p) /\ knjiga[n] \subseteq Napisano
      /\ padova \in 0 .. NajvisePadova /\ gasenja \in 0 .. NajviseGasenja
  BY OsnovaCvora
<1>3. /\ faza[n] = "radi" /\ z \in NaPovrsini(p) /\ Djeca(p, z) = {}
      /\ padova' = padova /\ gasenja' = gasenja /\ BrojNapisanih < ZadnjaVerzija
  BY DEF Obrisi
<1>0. s \in Sadrzaji[z]
  <2>1. p[z] \in knjiga[n] /\ p[z].zapis = z  BY <1>2, <1>3 DEF RedoviDrze, NaPovrsini
  <2> QED  BY <1>2, <2>1 DEF Osnova
<1>1. /\ v \in Verzija /\ v.zapis = z /\ v.oslonci = s
      /\ Napisano \cup {v} \in Knjige
      /\ \A w \in Napisano \cup {v} : w.oznaka <= Cardinality(Napisano \cup {v})
  <2> HIDE DEF s
  <2>1. BrojNapisanih < ZadnjaVerzija /\ FALSE \in BOOLEAN  BY <1>3
  <2>2. NovaJe(v, z, s)  BY <1>0, <2>1, NovaVerzija, Zenon
  <2> QED  BY <2>2 DEF NovaJe
<1>4. K \in SUBSET Verzija /\ ZapisiU(knjiga[n]) \subseteq ZapisiU(K) /\ K = knjiga[n] \cup {v}
  BY <1>1, <1>2 DEF ZapisiU
<1>5. TypeOK  BY DEF Osnova
<1>6. Promjena(n, {v}, q, nedovrseni[n], paket[n], "radi")
  BY <1>3, <1>5 DEF TypeOK, Obrisi, Promjena
<1> HIDE DEF v, K
<1>7. q \in Redovi /\ \A y \in Zapis : q[y] = IF y = z THEN Nema ELSE p[y]  BY <1>2 DEF Redovi
<1> HIDE DEF q, p
<1>8. RedoviDrze(K, q)
  <2> SUFFICES ASSUME NEW y \in Zapis, q[y] # Nema
               PROVE  q[y] \in K /\ q[y].zapis = y /\ q[y].ziva /\ q[y].oslonci \subseteq NaPovrsini(q)
    BY DEF RedoviDrze
  <2>1. y # z /\ q[y] = p[y] /\ p[y] # Nema  BY <1>7
  <2>2. q[y] \in K /\ q[y].zapis = y /\ q[y].ziva /\ q[y].oslonci \subseteq NaPovrsini(p)
    BY <1>2, <1>4, <2>1 DEF RedoviDrze
  <2>3. z \notin q[y].oslonci  BY <1>3, <2>1 DEF Djeca, NaPovrsini
  <2> QED  BY <1>7, <2>2, <2>3 DEF NaPovrsini
<1>9. \A w \in {v} : w.oslonci \in Sadrzaji[w.zapis]  BY <1>0, <1>1
<1>10. {v} \in SUBSET Verzija /\ padova' \in 0 .. NajvisePadova /\ gasenja' \in 0 .. NajviseGasenja
       /\ paket[n] \subseteq K /\ nedovrseni[n] \subseteq ZapisiU(K)
  BY <1>1, <1>2, <1>3, <1>4
<1> HIDE DEF s
<1> QED  BY <1>1, <1>2, <1>4, <1>6, <1>7, <1>8, <1>9, <1>10, OsnovaOcuvana

\* A municipality deleted with what leans on it.
LEMMA OsnovaObrisiSDjecom ==
    ASSUME Osnova, NEW n \in Cvor, NEW z \in Zapis, ObrisiSDjecom(n, z)
    PROVE  Osnova'
<1> DEFINE p == povrsina[n]
           B == BrojNapisanih
           uKnjizi == {d \in Zapis \ NaPovrsini(p) :
                          LET v == Zadnja(knjiga[n], d) IN Ziva(v) /\ z \in v.oslonci}
           brisu == Djeca(p, z) \cup uKnjizi
           k == Cardinality(brisu)
           sadrzaj(d) == IF d \in NaPovrsini(p) THEN p[d].oslonci ELSE Zadnja(knjiga[n], d).oslonci
           q == [y \in Zapis |-> IF y \in brisu \cup {z} THEN Nema ELSE p[y]]
<1>1. /\ knjiga[n] \in SUBSET Verzija /\ p \in Redovi /\ nedovrseni[n] \in SUBSET Zapis
      /\ nedovrseni[n] \subseteq ZapisiU(knjiga[n]) /\ paket[n] \subseteq knjiga[n]
      /\ RedoviDrze(knjiga[n], p) /\ knjiga[n] \subseteq Napisano
      /\ padova \in 0 .. NajvisePadova /\ gasenja \in 0 .. NajviseGasenja
      /\ Napisano \in Knjige /\ \A v \in Napisano : v.oznaka <= Cardinality(Napisano)
  BY OsnovaCvora
<1>2. /\ faza[n] = "radi" /\ z \in NaPovrsini(p)
      /\ \A d \in Djeca(p, z) : Djeca(p, d) \subseteq Djeca(p, z)
      /\ B + k < ZadnjaVerzija
      /\ padova' = padova /\ gasenja' = gasenja /\ UNCHANGED <<nedovrseni, paket, faza>>
      /\ povrsina' = [povrsina EXCEPT ![n] = q]
  BY DEF ObrisiSDjecom
<1>3. PICK red \in [brisu -> 1 .. k] :
         /\ \A d, e \in brisu : red[d] = red[e] => d = e
         /\ knjiga' = [knjiga EXCEPT ![n] = @ \cup
              {Nova(n, B + red[d], d, FALSE, sadrzaj(d)) : d \in brisu}
              \cup {Nova(n, B + k + 1, z, FALSE, sadrzaj(z))}]
  BY DEF ObrisiSDjecom
<1>4. brisu \in SUBSET Zapis /\ IsFiniteSet(brisu)
  <2>1. brisu \in SUBSET Zapis  BY DEF Djeca, NaPovrsini
  <2> HIDE DEF brisu
  <2> QED  BY <2>1, PovrsinaPretpostavka, FS_Subset
<1>5. k \in Nat /\ B \in Nat
  <2>1. IsFiniteSet(Napisano)  BY <1>1, VerzijaKonacna, FS_Subset DEF Knjige
  <2> HIDE DEF brisu
  <2> QED  BY <1>4, <2>1, FS_CardinalityType DEF BrojNapisanih
<1>6. ASSUME NEW d \in brisu \cup {z}  PROVE sadrzaj(d) \in Sadrzaji[d]
  <2>1. d \in Zapis  BY <1>2, <1>4 DEF NaPovrsini
  <2>2. CASE d \in NaPovrsini(p)
    <3>1. p[d] \in knjiga[n] /\ p[d].zapis = d  BY <1>1, <2>2 DEF RedoviDrze, NaPovrsini
    <3> QED  BY <1>1, <2>2, <3>1 DEF Osnova
  <2>3. CASE d \notin NaPovrsini(p)
    <3>1. Ziva(Zadnja(knjiga[n], d))  BY <1>2, <1>6, <2>3 DEF Djeca, NaPovrsini
    <3>2. Zadnja(knjiga[n], d) \in knjiga[n] /\ Zadnja(knjiga[n], d).zapis = d
      BY <1>1, <2>1, <3>1, ZadnjaCita DEF Ziva
    <3> QED  BY <1>1, <2>3, <3>2 DEF Osnova
  <2> QED  BY <2>2, <2>3
<1> DEFINE nova(d) == Nova(n, B + red[d], d, FALSE, sadrzaj(d))
           nz == Nova(n, B + k + 1, z, FALSE, sadrzaj(z))
           A == {nova(d) : d \in brisu}
           S == A \cup {nz}
<1>7. \A d \in brisu : /\ nova(d) \in Verzija /\ nova(d).zapis = d /\ nova(d).oznaka = B + red[d]
                       /\ nova(d).oslonci = sadrzaj(d) /\ B + red[d] \in B + 1 .. B + k
  <2> SUFFICES ASSUME NEW d \in brisu
               PROVE  /\ nova(d) \in Verzija /\ nova(d).zapis = d /\ nova(d).oznaka = B + red[d]
                      /\ nova(d).oslonci = sadrzaj(d) /\ B + red[d] \in B + 1 .. B + k
    OBVIOUS
  <2>1. sadrzaj(d) \in SUBSET Zapis /\ d \in Zapis  BY <1>4, <1>6, PovrsinaPretpostavka
  <2>2. red[d] \in 1 .. k  BY <1>3
  <2> HIDE DEF sadrzaj, brisu, k, B
  <2>3. B + red[d] \in Oznake /\ B + red[d] \in B + 1 .. B + k
    BY <1>2, <1>5, <2>2, PovrsinaPretpostavka DEF Oznake
  <2> QED  BY <2>1, <2>3 DEF Nova, Verzija
<1>8. /\ nz \in Verzija /\ nz.zapis = z /\ nz.oznaka = B + k + 1 /\ nz.oslonci = sadrzaj(z)
  <2>1. z \in Zapis /\ z \in brisu \cup {z}  BY <1>2
  <2>2. sadrzaj(z) \in SUBSET Zapis
    <3>1. sadrzaj(z) \in Sadrzaji[z]  BY <1>6
    <3> HIDE DEF sadrzaj
    <3> QED  BY <2>1, <3>1, PovrsinaPretpostavka
  <2> HIDE DEF sadrzaj, brisu, k, B
  <2>3. B + k + 1 \in Oznake  BY <1>2, <1>5, PovrsinaPretpostavka DEF Oznake
  <2> QED  BY <2>1, <2>2, <2>3 DEF Nova, Verzija
<1>9. \A v \in S : v.oslonci \in Sadrzaji[v.zapis]
  <2>1. \A d \in brisu \cup {z} : sadrzaj(d) \in Sadrzaji[d]  BY <1>6
  <2> HIDE DEF sadrzaj, brisu, nova, nz
  <2> QED  BY <1>7, <1>8, <2>1
<1> HIDE DEF nova, nz
<1>10. IsFiniteSet(A) /\ Cardinality(A) = k
  <2> DEFINE f == [d \in brisu |-> nova(d)]
  <2>1. f \in Surjection(brisu, A)
    <3> HIDE DEF brisu
    <3> QED  BY DEF Surjection
  <2>2. f \in Injection(brisu, A)
    <3> HIDE DEF brisu
    <3>1. \A d, e \in brisu : f[d] = f[e] => d = e  BY <1>7
    <3>2. f \in [brisu -> A]  OBVIOUS
    <3> HIDE DEF f, A
    <3> QED  BY <3>1, <3>2 DEF Injection, IsInjective
  <2>3. ExistsBijection(brisu, A)
    <3> HIDE DEF f, A, brisu
    <3> QED  BY <2>1, <2>2 DEF ExistsBijection, Bijection
  <2> HIDE DEF A, brisu
  <2> QED  BY <1>4, <2>3, FS_Bijection
<1>11. nz \notin A
  <2> HIDE DEF brisu, k, B
  <2> QED  BY <1>5, <1>7, <1>8
<1>12. Cardinality(S) = k + 1
  <2> HIDE DEF A, brisu
  <2> QED  BY <1>10, <1>11, FS_AddElement
<1>13. S \in Knjige /\ \A v \in S : B < v.oznaka /\ v.oznaka <= B + Cardinality(S)
  <2> HIDE DEF brisu, k, B
  <2>1. S \in SUBSET Verzija  BY <1>7, <1>8
  <2>2. ASSUME NEW v \in S, NEW w \in S, v.oznaka = w.oznaka  PROVE v = w
    <3>1. CASE v \in A /\ w \in A
      <4>1. PICK d \in brisu : v = nova(d)  BY <3>1
      <4>2. PICK e \in brisu : w = nova(e)  BY <3>1
      <4>3. B + red[d] = B + red[e]  BY <1>7, <2>2, <4>1, <4>2
      <4>4. red[d] \in Nat /\ red[e] \in Nat  BY <1>3, <1>5
      <4>5. red[d] = red[e]  BY <1>5, <4>3, <4>4
      <4> QED  BY <1>3, <4>1, <4>2, <4>5
    <3>2. CASE v \in A /\ w = nz  BY <1>5, <1>7, <1>8, <2>2, <3>2
    <3>3. CASE v = nz /\ w \in A  BY <1>5, <1>7, <1>8, <2>2, <3>3
    <3> QED  BY <3>1, <3>2, <3>3
  <2>3. \A v \in S : B < v.oznaka /\ v.oznaka <= B + (k + 1)  BY <1>5, <1>7, <1>8
  <2> HIDE DEF S
  <2> QED  BY <1>12, <2>1, <2>2, <2>3 DEF Knjige
<1> HIDE DEF S, A
<1>14. /\ Napisano \cup S \in Knjige
       /\ \A v \in Napisano \cup S : v.oznaka <= Cardinality(Napisano \cup S)
  BY <1>1, <1>13, NoveOznake DEF BrojNapisanih
<1>15. q \in Redovi /\ RedoviDrze(knjiga[n] \cup S, q)
  <2>1. q \in Redovi  BY <1>1 DEF Redovi
  <2>2. \A y \in Zapis : q[y] = IF y \in brisu \cup {z} THEN Nema ELSE p[y]  OBVIOUS
  <2>3. \A y \in Djeca(p, z) : y \in brisu  OBVIOUS
  <2>4. \A r \in NaPovrsini(p) \cap brisu : r \in Djeca(p, z)  OBVIOUS
  <2> HIDE DEF q, brisu, p
  <2>5. ASSUME NEW y \in Zapis, q[y] # Nema
        PROVE  /\ q[y] \in knjiga[n] \cup S /\ q[y].zapis = y /\ q[y].ziva
               /\ q[y].oslonci \subseteq NaPovrsini(q)
    <3>1. y \notin brisu /\ y # z /\ q[y] = p[y] /\ p[y] # Nema  BY <2>2, <2>5
    <3>2. q[y] \in knjiga[n] /\ q[y].zapis = y /\ q[y].ziva /\ q[y].oslonci \subseteq NaPovrsini(p)
      BY <1>1, <3>1 DEF RedoviDrze
    <3>3. z \notin q[y].oslonci  BY <2>3, <3>1 DEF Djeca, NaPovrsini
    <3>4. ASSUME NEW r \in q[y].oslonci  PROVE r \notin brisu
      <4>1. r \in NaPovrsini(p)  BY <3>2
      <4>2. y \in Djeca(p, r)  BY <3>1 DEF Djeca, NaPovrsini
      <4> QED  BY <1>2, <2>3, <2>4, <3>1, <4>1, <4>2
    <3> QED  BY <2>2, <3>2, <3>3, <3>4 DEF NaPovrsini
  <2> QED  BY <2>1, <2>5 DEF RedoviDrze
<1>16. Promjena(n, S, q, nedovrseni[n], paket[n], "radi")
  <2>1. TypeOK  BY DEF Osnova
  <2>2. knjiga' = [knjiga EXCEPT ![n] = @ \cup S]  BY <1>3, <2>1 DEF S, A, nova, nz, TypeOK
  <2> HIDE DEF q, p
  <2> QED  BY <1>2, <2>1, <2>2 DEF TypeOK, Promjena
<1>17. S \in SUBSET Verzija /\ padova' \in 0 .. NajvisePadova /\ gasenja' \in 0 .. NajviseGasenja
       /\ paket[n] \subseteq knjiga[n] \cup S /\ nedovrseni[n] \subseteq ZapisiU(knjiga[n] \cup S)
       /\ nedovrseni[n] \in SUBSET Zapis /\ "radi" \in {"radi", "ugasen", "obnova"}
  BY <1>1, <1>2, <1>13 DEF Knjige, ZapisiU
<1>18. \A v \in S : v.oslonci \in Sadrzaji[v.zapis]  BY <1>9
<1> HIDE DEF q, brisu, p, k, B
<1> QED  BY <1>14, <1>15, <1>16, <1>17, <1>18, OsnovaOcuvana

\* What is due is in the ledger.
LEMMA DospjeloUKnjizi ==
    ASSUME Osnova, NEW n \in Cvor
    PROVE  Dospjelo(n) \subseteq knjiga[n]
<1>1. /\ knjiga[n] \in SUBSET Verzija /\ paket[n] \subseteq knjiga[n]
      /\ nedovrseni[n] \subseteq ZapisiU(knjiga[n])
  BY OsnovaCvora
<1>2. ASSUME NEW z \in ZapisiU(knjiga[n])  PROVE Zadnja(knjiga[n], z) \in knjiga[n]
  <2>1. PICK v \in knjiga[n] : v.zapis = z  BY <1>2 DEF ZapisiU
  <2>2. z \in Zapis  BY <1>1, <2>1 DEF Verzija
  <2> QED  BY <1>1, <2>1, <2>2, ZadnjaCita
<1>3. \A V : ZaPrimjenu(n, V) \subseteq V \cup knjiga[n]  BY <1>1, <1>2 DEF ZaPrimjenu
<1>4. {Zadnja(knjiga[n], z) : z \in {v.zapis : v \in knjiga[n]}} \subseteq knjiga[n]
  BY <1>2 DEF ZapisiU
<1> QED  BY <1>1, <1>3, <1>4 DEF Dospjelo

LEMMA OsnovaBezVerzija ==
    ASSUME Osnova, NEW n \in Cvor, NEW q \in Redovi, NEW c \in SUBSET Zapis, NEW w,
           NEW f \in {"radi", "ugasen", "obnova"}, Promjena(n, {}, q, c, w, f),
           padova' \in 0 .. NajvisePadova, gasenja' \in 0 .. NajviseGasenja,
           c \subseteq ZapisiU(knjiga[n]), w \subseteq knjiga[n],
           f # "radi" => c = {} /\ w = {},
           RedoviDrze(knjiga[n], q)
    PROVE  Osnova'
<1>1. Napisano \in Knjige /\ \A v \in Napisano : v.oznaka <= Cardinality(Napisano)
  BY OsnovaCvora
<1>2. Napisano \cup {} = Napisano /\ knjiga[n] \cup {} = knjiga[n]  OBVIOUS
<1>3. \A v \in {} : v.oslonci \in Sadrzaji[v.zapis]  OBVIOUS
<1>4. {} \in SUBSET Verzija  OBVIOUS
<1>5. /\ Napisano \cup {} \in Knjige
      /\ \A v \in Napisano \cup {} : v.oznaka <= Cardinality(Napisano \cup {})
      /\ c \subseteq ZapisiU(knjiga[n] \cup {}) /\ w \subseteq knjiga[n] \cup {}
      /\ RedoviDrze(knjiga[n] \cup {}, q)
  BY <1>1, <1>2
<1> QED  BY <1>3, <1>4, <1>5, OsnovaOcuvana

LEMMA OsnovaApply ==
    ASSUME Osnova, NEW n \in Cvor, ApplyVersions(n)
    PROVE  /\ Osnova'
           /\ povrsina' = [povrsina EXCEPT ![n] = Prolazi(knjiga[n], povrsina[n], Dospjelo(n)).p]
           /\ Prolazi(knjiga[n], povrsina[n], Dospjelo(n)) \in Ocuvano(knjiga[n], povrsina[n])
<1> DEFINE K == knjiga[n]
           s == Prolazi(K, povrsina[n], Dospjelo(n))
           c == ((nedovrseni[n] \cup s.ceka) \ s.proslo) \cup s.palo
<1>1. /\ K \in SUBSET Verzija /\ povrsina[n] \in Redovi /\ nedovrseni[n] \in SUBSET Zapis
      /\ nedovrseni[n] \subseteq ZapisiU(K) /\ RedoviDrze(K, povrsina[n])
      /\ padova \in 0 .. NajvisePadova /\ gasenja \in 0 .. NajviseGasenja
  BY OsnovaCvora
<1>2. s \in Ocuvano(K, povrsina[n])  BY <1>1, DospjeloUKnjizi, ProlaziDrze
<1>3. /\ povrsina' = [povrsina EXCEPT ![n] = s.p]
      /\ nedovrseni' = [nedovrseni EXCEPT ![n] = ((@ \cup s.ceka) \ s.proslo) \cup s.palo]
      /\ paket' = [paket EXCEPT ![n] = {}]
      /\ faza' = [faza EXCEPT ![n] = "radi"]
      /\ UNCHANGED <<knjiga, padova, gasenja>>
  BY DEF ApplyVersions
<1> HIDE DEF s
<1>4. s.p \in Redovi /\ s.ceka \in SUBSET Zapis /\ s.palo \in SUBSET Zapis
      /\ s.ceka \cup s.palo \subseteq ZapisiU(K) /\ RedoviDrze(K, s.p)
  BY <1>2 DEF Ocuvano, Stanja
<1>5. c \in SUBSET Zapis /\ c \subseteq ZapisiU(K)  BY <1>1, <1>4
<1>6. Promjena(n, {}, s.p, c, {}, "radi")
  BY <1>3 DEF Promjena, Osnova, TypeOK
<1> HIDE DEF c
<1>7. Osnova'  BY <1>1, <1>3, <1>4, <1>5, <1>6, OsnovaBezVerzija
<1> QED  BY <1>2, <1>3, <1>7 DEF s

LEMMA OsnovaZadrzi ==
    ASSUME Osnova, NEW n \in Cvor, ZadrziNepotvrdjeno(n)
    PROVE  Osnova'
<1> DEFINE c == nedovrseni[n] \cup ZapisiU(Dospjelo(n))
<1>1. /\ knjiga[n] \in SUBSET Verzija /\ povrsina[n] \in Redovi /\ nedovrseni[n] \in SUBSET Zapis
      /\ nedovrseni[n] \subseteq ZapisiU(knjiga[n]) /\ RedoviDrze(knjiga[n], povrsina[n])
      /\ padova \in 0 .. NajvisePadova /\ gasenja \in 0 .. NajviseGasenja
  BY OsnovaCvora
<1>2. /\ padova < NajvisePadova /\ padova' = padova + 1 /\ gasenja' = gasenja
      /\ Promjena(n, {}, povrsina[n], c, {}, "radi")
  BY DEF ZadrziNepotvrdjeno, Promjena, ZapisiU, Osnova, TypeOK
<1>3. c \in SUBSET Zapis /\ c \subseteq ZapisiU(knjiga[n])
  BY <1>1, DospjeloUKnjizi DEF ZapisiU, Verzija
<1>4. padova' \in 0 .. NajvisePadova /\ gasenja' \in 0 .. NajviseGasenja
  BY <1>1, <1>2, PovrsinaPretpostavka
<1> HIDE DEF c
<1> QED  BY <1>1, <1>2, <1>3, <1>4, OsnovaBezVerzija

LEMMA OsnovaPrimi ==
    ASSUME Osnova, NEW n \in Cvor, NEW m \in Cvor, NEW V \in Paketi(n, m), Primi(n, m, V)
    PROVE  Osnova'
<1>1. /\ knjiga[n] \in SUBSET Verzija /\ povrsina[n] \in Redovi /\ nedovrseni[n] \in SUBSET Zapis
      /\ nedovrseni[n] \subseteq ZapisiU(knjiga[n]) /\ RedoviDrze(knjiga[n], povrsina[n])
      /\ padova \in 0 .. NajvisePadova /\ gasenja \in 0 .. NajviseGasenja
      /\ Napisano \in Knjige /\ \A v \in Napisano : v.oznaka <= Cardinality(Napisano)
  BY OsnovaCvora
<1>2. V \subseteq Napisano /\ V \in SUBSET Verzija
  <2>1. V \subseteq knjiga[m]  BY DEF Paketi
  <2> QED  BY <2>1, OsnovaCvora
<1>3. /\ Promjena(n, V, povrsina[n], nedovrseni[n], V, "radi") /\ padova' = padova
      /\ gasenja' = gasenja
  BY DEF Primi, Promjena, Osnova, TypeOK
<1>4. Napisano \cup V = Napisano  BY <1>2
<1>5. ZapisiU(knjiga[n]) \subseteq ZapisiU(knjiga[n] \cup V)  BY DEF ZapisiU
<1>6. RedoviDrze(knjiga[n] \cup V, povrsina[n])  BY <1>1, RedoviDrzeVise
<1>7. \A v \in V : v.oslonci \in Sadrzaji[v.zapis]  BY <1>2 DEF Osnova
<1>8. /\ Napisano \cup V \in Knjige
      /\ \A v \in Napisano \cup V : v.oznaka <= Cardinality(Napisano \cup V)
      /\ nedovrseni[n] \subseteq ZapisiU(knjiga[n] \cup V) /\ V \subseteq knjiga[n] \cup V
      /\ padova' \in 0 .. NajvisePadova /\ gasenja' \in 0 .. NajviseGasenja
  BY <1>1, <1>3, <1>4, <1>5
<1> QED  BY <1>1, <1>2, <1>3, <1>6, <1>7, <1>8, OsnovaOcuvana

LEMMA OsnovaGasi ==
    ASSUME Osnova, NEW n \in Cvor, Ugasi(n) \/ Pokreni(n)
    PROVE  Osnova'
<1>1. /\ povrsina[n] \in Redovi /\ RedoviDrze(knjiga[n], povrsina[n])
      /\ padova \in 0 .. NajvisePadova /\ gasenja \in 0 .. NajviseGasenja
      /\ faza[n] # "radi" => nedovrseni[n] = {} /\ paket[n] = {}
  BY OsnovaCvora
<1>2. \E f \in {"ugasen", "obnova"} : Promjena(n, {}, povrsina[n], {}, {}, f)
  <2>1. CASE Ugasi(n)
    <3>1. Promjena(n, {}, povrsina[n], {}, {}, "ugasen")
      BY <2>1 DEF Ugasi, Promjena, Osnova, TypeOK
    <3> QED  BY <3>1
  <2>2. CASE Pokreni(n)
    <3>1. nedovrseni[n] = {} /\ paket[n] = {}  BY <1>1, <2>2 DEF Pokreni
    <3>2. Promjena(n, {}, povrsina[n], {}, {}, "obnova")
      BY <2>2, <3>1 DEF Pokreni, Promjena, Osnova, TypeOK
    <3> QED  BY <3>2
  <2> QED  BY <2>1, <2>2
<1>3. padova' \in 0 .. NajvisePadova /\ gasenja' \in 0 .. NajviseGasenja
  BY <1>1, PovrsinaPretpostavka DEF Ugasi, Pokreni
<1> QED  BY <1>1, <1>2, <1>3, OsnovaBezVerzija

LEMMA OsnovaKorak == Osnova /\ [Next]_vars => Osnova'
<1> SUFFICES ASSUME Osnova, [Next]_vars  PROVE Osnova'
  OBVIOUS
<1>0. \A n \in Cvor : Pise[n] \subseteq Zapis  BY PovrsinaPretpostavka
<1>1. ASSUME NEW n \in Cvor, NEW z \in Pise[n], NEW s \in Sadrzaji[z], Upisi(n, z, s)
      PROVE  Osnova'
  BY <1>0, <1>1, OsnovaUpisi
<1>2. ASSUME NEW n \in Cvor, NEW z \in Pise[n], Obrisi(n, z)  PROVE Osnova'
  BY <1>0, <1>2, OsnovaObrisi
<1>3. ASSUME NEW n \in Cvor, NEW z \in Pise[n], ObrisiSDjecom(n, z)  PROVE Osnova'
  BY <1>0, <1>3, OsnovaObrisiSDjecom
<1>4. ASSUME NEW n \in Cvor, NEW m \in Cvor, NEW V \in Paketi(n, m), Primi(n, m, V)
      PROVE  Osnova'
  BY <1>4, OsnovaPrimi
<1>5. ASSUME NEW n \in Cvor, ApplyVersions(n)  PROVE Osnova'  BY <1>5, OsnovaApply
<1>6. ASSUME NEW n \in Cvor, ZadrziNepotvrdjeno(n)  PROVE Osnova'  BY <1>6, OsnovaZadrzi
<1>7. ASSUME NEW n \in Cvor, Ugasi(n) \/ Pokreni(n)  PROVE Osnova'  BY <1>7, OsnovaGasi
<1>8. CASE UNCHANGED vars
  <2>1. /\ knjiga' = knjiga /\ povrsina' = povrsina /\ nedovrseni' = nedovrseni
        /\ paket' = paket /\ faza' = faza /\ padova' = padova /\ gasenja' = gasenja
    BY <1>8 DEF vars
  <2>2. Napisano' = Napisano  BY <2>1 DEF Napisano
  <2>3. BrojNapisanih' = BrojNapisanih  BY <2>2 DEF BrojNapisanih
  <2>4. TypeOK'  BY <2>1 DEF Osnova, TypeOK
  <2> QED  BY <2>1, <2>2, <2>3, <2>4 DEF Osnova
<1> QED  BY <1>1, <1>2, <1>3, <1>4, <1>5, <1>6, <1>7, <1>8 DEF Next

\* Types of the surface hold in every reachable state (apply.go).
THEOREM PovrsinaTip == Spec => []TypeOK
<1>1. Osnova => TypeOK  BY DEF Osnova
<1> QED  BY OsnovaPocetak, OsnovaKorak, <1>1, PTL DEF Spec

\* The foreign keys of the surface: in every state a row shows a living version
\* of its record that the ledger holds, and what it leans on has a row, although
\* ApplyVersions writes rows one by one and takes whole families away.
StraniKljucevi == \A n \in Cvor : RedoviDrze(knjiga[n], povrsina[n])

THEOREM StraniKljuceviDrze == Spec => []StraniKljucevi
<1>1. Osnova => StraniKljucevi  BY DEF Osnova, StraniKljucevi
<1> QED  BY OsnovaPocetak, OsnovaKorak, <1>1, PTL DEF Spec

\* Rows that are kept, or are the last of their record, do not go back.
LEMMA NeUnatrag ==
    ASSUME NEW K \in SUBSET Verzija, NEW L, L \subseteq K, NEW p, RedoviDrze(L, p), NEW q,
           \A y \in Zapis : q[y] \in {Nema, p[y], Zadnja(K, y)}
    PROVE  \A z \in Zapis : p[z] # Nema /\ q[z] # Nema => p[z].oznaka <= q[z].oznaka
<1> SUFFICES ASSUME NEW z \in Zapis, p[z] # Nema, q[z] # Nema
             PROVE  p[z].oznaka <= q[z].oznaka
  OBVIOUS
<1>1. p[z] \in K /\ p[z].zapis = z  BY DEF RedoviDrze
<1>2. p[z].oznaka <= Zadnja(K, z).oznaka  BY <1>1, ZadnjaCita
<1>3. p[z].oznaka <= p[z].oznaka
  BY <1>1, PovrsinaPretpostavka DEF Verzija, Oznake
<1> QED  BY <1>2, <1>3

LEMMA UpisZadnji ==
    ASSUME Osnova, NEW n \in Cvor, NEW z \in Zapis, NEW s \in Sadrzaji[z], Upisi(n, z, s)
    PROVE  LET v == Nova(n, BrojNapisanih + 1, z, TRUE, s)
               K == knjiga[n] \cup {v}
               red == [povrsina[n] EXCEPT ![z] = v]
           IN  /\ v \in Verzija /\ v.zapis = z /\ v.ziva /\ v.oslonci = s
               /\ K \in Knjige /\ v \in K /\ Zadnja(K, z) = v
               /\ red \in Redovi /\ RedoviDrze(K, red)
<1> DEFINE v == Nova(n, BrojNapisanih + 1, z, TRUE, s)
           K == knjiga[n] \cup {v}
           red == [povrsina[n] EXCEPT ![z] = v]
<1>1. NovaJe(v, z, s) /\ v.ziva
  <2>1. BrojNapisanih < ZadnjaVerzija /\ TRUE \in BOOLEAN  BY DEF Upisi
  <2>2. NovaJe(v, z, s)  BY <2>1, NovaVerzija, Zenon
  <2>3. v.ziva  BY DEF Nova
  <2> QED  BY <2>2, <2>3
<1> HIDE DEF v
<1>2. /\ knjiga[n] \in SUBSET Verzija /\ knjiga[n] \subseteq Napisano /\ povrsina[n] \in Redovi
      /\ RedoviDrze(knjiga[n], povrsina[n])
  BY OsnovaCvora
<1>3. K \in Knjige /\ v \in K /\ v \in Verzija /\ v.zapis = z /\ v.oslonci = s
  BY <1>1, <1>2 DEF NovaJe, Knjige
<1>4. \A w \in K : w.oznaka <= v.oznaka
  <2>1. v.oznaka \in Nat  BY <1>3, PovrsinaPretpostavka DEF Verzija, Oznake
  <2>2. \A w \in Napisano : w.oznaka < v.oznaka  BY <1>1 DEF NovaJe
  <2>3. \A w \in knjiga[n] : w.oznaka \in Nat
    BY <1>2, PovrsinaPretpostavka DEF Verzija, Oznake
  <2> QED  BY <1>2, <2>1, <2>2, <2>3
<1>5. Zadnja(K, z) = v
  <2> HIDE DEF K
  <2> QED  BY <1>3, <1>4, ZadnjaJe
<1>6. red \in Redovi /\ RedoviDrze(K, red)
  <2>1. RedoviDrze(K, povrsina[n])  BY <1>2, RedoviDrzeVise
  <2>2. s \subseteq NaPovrsini(povrsina[n])  BY DEF Upisi
  <2> HIDE DEF K
  <2> QED  BY <1>1, <1>2, <1>3, <2>1, <2>2, UpisDrzi
<1> HIDE DEF K, red
<1>7. /\ v \in Verzija /\ v.zapis = z /\ v.ziva /\ v.oslonci = s
      /\ K \in Knjige /\ v \in K /\ Zadnja(K, z) = v
      /\ red \in Redovi /\ RedoviDrze(K, red)
  BY <1>1, <1>3, <1>5, <1>6
<1> QED  BY <1>7 DEF v, K, red

\* A deletion adds to the ledger and takes rows away.
LEMMA OblikBrisanja ==
    ASSUME TypeOK, NEW m \in Cvor, NEW z \in Zapis, Obrisi(m, z) \/ ObrisiSDjecom(m, z)
    PROVE  \E S, q : /\ knjiga' = [knjiga EXCEPT ![m] = @ \cup S]
                     /\ povrsina' = [povrsina EXCEPT ![m] = q]
                     /\ \A y \in Zapis : q[y] \in {Nema, povrsina[m][y]}
<1> DEFINE p == povrsina[m]
<1>1. CASE Obrisi(m, z)
  <2>1. \E S : knjiga' = [knjiga EXCEPT ![m] = @ \cup S]  BY <1>1 DEF Obrisi
  <2> DEFINE q == [p EXCEPT ![z] = Nema]
  <2>2. povrsina' = [povrsina EXCEPT ![m] = q]  BY <1>1 DEF Obrisi, TypeOK
  <2>3. \A y \in Zapis : q[y] \in {Nema, p[y]}  BY DEF TypeOK
  <2> HIDE DEF q
  <2> QED  BY <2>1, <2>2, <2>3
<1>2. CASE ObrisiSDjecom(m, z)
  <2> DEFINE uKnjizi == {d \in Zapis \ NaPovrsini(p) :
                          LET v == Zadnja(knjiga[m], d) IN Ziva(v) /\ z \in v.oslonci}
             brisu == Djeca(p, z) \cup uKnjizi
             sadrzaj(d) == IF d \in NaPovrsini(p) THEN p[d].oslonci ELSE Zadnja(knjiga[m], d).oslonci
             q == [y \in Zapis |-> IF y \in brisu \cup {z} THEN Nema ELSE p[y]]
  <2>1. \E S : knjiga' = [knjiga EXCEPT ![m] = @ \cup S]
    <3>1. PICK red \in [brisu -> 1 .. Cardinality(brisu)] :
            knjiga' = [knjiga EXCEPT ![m] = @ \cup
              {Nova(m, BrojNapisanih + red[d], d, FALSE, sadrzaj(d)) : d \in brisu}
              \cup {Nova(m, BrojNapisanih + Cardinality(brisu) + 1, z, FALSE, sadrzaj(z))}]
      BY <1>2 DEF ObrisiSDjecom
    <3> DEFINE A == {Nova(m, BrojNapisanih + red[d], d, FALSE, sadrzaj(d)) : d \in brisu}
               B == {Nova(m, BrojNapisanih + Cardinality(brisu) + 1, z, FALSE, sadrzaj(z))}
    <3>2. knjiga' = [knjiga EXCEPT ![m] = (@ \cup A) \cup B]  BY <3>1
    <3> HIDE DEF A, B
    <3>3. [knjiga EXCEPT ![m] = (@ \cup A) \cup B] = [knjiga EXCEPT ![m] = @ \cup (A \cup B)]
      BY DEF TypeOK
    <3> QED  BY <3>2, <3>3
  <2>2. povrsina' = [povrsina EXCEPT ![m] = q]  BY <1>2 DEF ObrisiSDjecom
  <2>3. \A y \in Zapis : q[y] \in {Nema, p[y]}
    <3> HIDE DEF brisu
    <3> QED  OBVIOUS
  <2> HIDE DEF q
  <2> QED  BY <2>1, <2>2, <2>3
<1> QED  BY <1>1, <1>2

\* The rows of node n after a step, against the ledger after it.
LEMMA RedoviKoraka ==
    ASSUME Osnova, NEW n \in Cvor, [Next]_vars
    PROVE  /\ knjiga[n] \subseteq knjiga'[n]
           /\ \A y \in Zapis : povrsina'[n][y] \in {Nema, povrsina[n][y], Zadnja(knjiga'[n], y)}
<1> DEFINE Kraj == /\ knjiga[n] \subseteq knjiga'[n]
                   /\ \A y \in Zapis :
                        povrsina'[n][y] \in {Nema, povrsina[n][y], Zadnja(knjiga'[n], y)}
<1> SUFFICES Kraj
  OBVIOUS
<1>0. TypeOK  BY DEF Osnova
<1>1. \A m \in Cvor : Pise[m] \subseteq Zapis  BY PovrsinaPretpostavka
<1>2. CASE povrsina'[n] = povrsina[n] /\ knjiga[n] \subseteq knjiga'[n]
  BY <1>2
<1>3. ASSUME NEW z \in Zapis, NEW s \in Sadrzaji[z], Upisi(n, z, s)
      PROVE  Kraj
  <2> DEFINE v == Nova(n, BrojNapisanih + 1, z, TRUE, s)
             K == knjiga[n] \cup {v}
             red == [povrsina[n] EXCEPT ![z] = v]
             d == VratiDjecu(K, red, z)
  <2>1. /\ K \in Knjige /\ Zadnja(K, z) = v /\ red \in Redovi
    BY <1>3, UpisZadnji
  <2>2. knjiga'[n] = K /\ (povrsina'[n] = red \/ povrsina'[n] = d.p)
    BY <1>0, <1>3 DEF Upisi, TypeOK
  <2>3. \A y \in Zapis : red[y] = IF y = z THEN v ELSE povrsina[n][y]
    BY <1>0 DEF TypeOK
  <2>4. knjiga[n] \subseteq K  OBVIOUS
  <2> HIDE DEF v, K, red
  <2>5. \A y \in Zapis : d.p[y] \in {red[y], Zadnja(K, y)}
    BY <2>1, VratiDjecuTip DEF Knjige
  <2> HIDE DEF d
  <2>6. \A y \in Zapis : povrsina'[n][y] \in {povrsina[n][y], Zadnja(K, y)}
    BY <2>1, <2>2, <2>3, <2>5
  <2> QED  BY <2>2, <2>4, <2>6
<1>4. ASSUME NEW z \in Zapis, Obrisi(n, z) \/ ObrisiSDjecom(n, z)
      PROVE  Kraj
  <2>1. \E S, q : /\ knjiga' = [knjiga EXCEPT ![n] = @ \cup S]
                  /\ povrsina' = [povrsina EXCEPT ![n] = q]
                  /\ \A y \in Zapis : q[y] \in {Nema, povrsina[n][y]}
    BY <1>0, <1>4, OblikBrisanja
  <2>2. knjiga[n] \subseteq knjiga'[n]  BY <1>0, <2>1 DEF TypeOK
  <2>3. \A y \in Zapis : povrsina'[n][y] \in {Nema, povrsina[n][y]}  BY <1>0, <2>1 DEF TypeOK
  <2> QED  BY <2>2, <2>3
<1>5. ASSUME ApplyVersions(n)  PROVE Kraj
  <2> DEFINE s == Prolazi(knjiga[n], povrsina[n], Dospjelo(n))
  <2>1. povrsina' = [povrsina EXCEPT ![n] = s.p] /\ s \in Ocuvano(knjiga[n], povrsina[n])
    BY <1>5, OsnovaApply
  <2>2. knjiga'[n] = knjiga[n]  BY <1>5 DEF ApplyVersions
  <2> HIDE DEF s
  <2>3. povrsina'[n] = s.p  BY <1>0, <2>1 DEF TypeOK
  <2> QED  BY <2>1, <2>2, <2>3 DEF Ocuvano
<1>6. CASE \E m \in Cvor \ {n} :
             \/ \E z \in Pise[m] : \E s \in Sadrzaji[z] : Upisi(m, z, s)
             \/ \E z \in Pise[m] : Obrisi(m, z) \/ ObrisiSDjecom(m, z)
             \/ ApplyVersions(m)
  <2>1. PICK m \in Cvor \ {n} :
           \/ \E z \in Pise[m] : \E s \in Sadrzaji[z] : Upisi(m, z, s)
           \/ \E z \in Pise[m] : Obrisi(m, z) \/ ObrisiSDjecom(m, z)
           \/ ApplyVersions(m)
    BY <1>6
  <2>2. CASE \E z \in Pise[m] : \E s \in Sadrzaji[z] : Upisi(m, z, s)
    <3>1. povrsina'[n] = povrsina[n] /\ knjiga'[n] = knjiga[n]  BY <1>0, <2>2 DEF Upisi, TypeOK
    <3> QED  BY <1>2, <3>1
  <2>3. CASE \E z \in Pise[m] : Obrisi(m, z) \/ ObrisiSDjecom(m, z)
    <3>1. \E S, q : /\ knjiga' = [knjiga EXCEPT ![m] = @ \cup S]
                    /\ povrsina' = [povrsina EXCEPT ![m] = q]
      BY <1>0, <1>1, <2>3, OblikBrisanja
    <3>2. povrsina'[n] = povrsina[n] /\ knjiga'[n] = knjiga[n]  BY <1>0, <3>1 DEF TypeOK
    <3> QED  BY <1>2, <3>2
  <2>4. CASE ApplyVersions(m)
    <3>1. povrsina'[n] = povrsina[n] /\ knjiga'[n] = knjiga[n]
      BY <1>0, <2>4, OsnovaApply DEF ApplyVersions, TypeOK
    <3> QED  BY <1>2, <3>1
  <2> QED  BY <2>1, <2>2, <2>3, <2>4
<1>7. CASE \E m \in Cvor :
             \/ \E k \in Cvor \ {m} : \E V \in Paketi(m, k) : Primi(m, k, V)
             \/ ZadrziNepotvrdjeno(m) \/ Ugasi(m) \/ Pokreni(m)
  <2>1. povrsina'[n] = povrsina[n] /\ knjiga[n] \subseteq knjiga'[n]
    BY <1>0, <1>7 DEF Primi, ZadrziNepotvrdjeno, Ugasi, Pokreni, TypeOK
  <2> QED  BY <1>2, <2>1
<1>8. CASE UNCHANGED vars  BY <1>2, <1>8 DEF vars
<1> HIDE DEF Kraj
<1>9. CASE Next
  <2>1. PICK m \in Cvor :
           \/ \E z \in Pise[m] : \E s \in Sadrzaji[z] : Upisi(m, z, s)
           \/ \E z \in Pise[m] : Obrisi(m, z)
           \/ \E z \in Pise[m] : ObrisiSDjecom(m, z)
           \/ \E k \in Cvor \ {m} : \E V \in Paketi(m, k) : Primi(m, k, V)
           \/ ApplyVersions(m)
           \/ ZadrziNepotvrdjeno(m)
           \/ Ugasi(m)
           \/ Pokreni(m)
    BY <1>9, Zenon DEF Next
  <2>2. CASE m = n  BY <1>1, <1>3, <1>4, <1>5, <1>7, <2>1, <2>2
  <2>3. CASE m # n  BY <1>6, <1>7, <2>1, <2>3
  <2> QED  BY <2>2, <2>3
<1> QED  BY <1>8, <1>9

\* No step of any node takes a row back to an older version of its record
\* (ApplyVersions, vratiDjecu, the operations on registers).
THEOREM RedNeIdeUnatragDokazan == Spec => RedNeIdeUnatrag
<1>1. Osnova /\ Osnova' /\ [Next]_vars =>
        [\A n \in Cvor, z \in Zapis :
            povrsina[n][z] # Nema /\ povrsina'[n][z] # Nema
            => povrsina[n][z].oznaka <= povrsina'[n][z].oznaka]_vars
  <2> SUFFICES ASSUME Osnova, Osnova', [Next]_vars, NEW n \in Cvor
               PROVE  \A z \in Zapis :
                        povrsina[n][z] # Nema /\ povrsina'[n][z] # Nema
                        => povrsina[n][z].oznaka <= povrsina'[n][z].oznaka
    OBVIOUS
  <2>1. knjiga'[n] \in SUBSET Verzija  BY DEF Osnova, TypeOK
  <2>2. RedoviDrze(knjiga[n], povrsina[n])  BY DEF Osnova
  <2>3. /\ knjiga[n] \subseteq knjiga'[n]
        /\ \A y \in Zapis : povrsina'[n][y] \in {Nema, povrsina[n][y], Zadnja(knjiga'[n], y)}
    BY RedoviKoraka
  <2> QED  BY <2>1, <2>2, <2>3, NeUnatrag
<1> QED  BY OsnovaPocetak, OsnovaKorak, <1>1, PTL DEF Spec, RedNeIdeUnatrag

-----------------------------------------------------------------------------
(* What the surface owes the ledger. From here on every version of a record *)
(* leans on the same records (BezPremjestaja).                              *)

Os(z) == UNION Sadrzaji[z]
Jednolike == {K \in Knjige : \A v \in K : v.oslonci = Os(v.zapis)}
Obrisana(K, z) == Zadnja(K, z) # Nema /\ ~Zadnja(K, z).ziva

LEMMA OsTip ==
    ASSUME NEW z \in Zapis
    PROVE  Os(z) \in SUBSET Zapis
BY PovrsinaPretpostavka DEF Os

\* The last versions of such a ledger.
LEMMA ZadnjaJednolike ==
    ASSUME NEW K \in Jednolike, NEW z \in Zapis
    PROVE  /\ K \in SUBSET Verzija
           /\ Zadnja(K, z) # Nema => /\ Zadnja(K, z) \in K /\ Zadnja(K, z).zapis = z
                                     /\ Zadnja(K, z).oslonci = Os(z)
           /\ z \in ZapisiU(K) => Zadnja(K, z) # Nema
<1>1. K \in SUBSET Verzija  BY DEF Jednolike, Knjige
<1>2. Zadnja(K, z) # Nema => Zadnja(K, z) \in K /\ Zadnja(K, z).zapis = z  BY <1>1, ZadnjaCita
<1>3. Zadnja(K, z) # Nema => Zadnja(K, z).oslonci = Os(z)  BY <1>2 DEF Jednolike
<1>4. z \in ZapisiU(K) => Zadnja(K, z) # Nema  BY <1>1, ZadnjaCita DEF ZapisiU
<1> QED  BY <1>1, <1>2, <1>3, <1>4

\* Induction along what records lean on.
LEMMA PoOsloncima ==
    ASSUME NEW T, \A z \in Zapis : Os(z) \subseteq T => z \in T
    PROVE  Zapis \subseteq T
<1> SUFFICES ASSUME Zapis \ T # {}  PROVE FALSE
  OBVIOUS
<1>1. PICK rang \in [Zapis -> 1 .. Cardinality(Zapis)] :
         \A z \in Zapis : \A s \in Sadrzaji[z] : \A r \in s : rang[r] < rang[z]
  BY PovrsinaPretpostavka
<1> DEFINE R == {rang[z] : z \in Zapis \ T}
<1>2. R \in SUBSET Nat /\ R # {}
  <2>1. Cardinality(Zapis) \in Nat  BY PovrsinaPretpostavka, FS_CardinalityType
  <2>2. \A z \in Zapis : rang[z] \in Nat  BY <2>1
  <2> QED  BY <2>2
<1>3. PICK m \in R : \A k \in R : m <= k
  <2> HIDE DEF R
  <2> QED  BY <1>2, Najmanji
<1>4. PICK z \in Zapis \ T : m = rang[z]  BY <1>3
<1>5. PICK r \in Os(z) : r \notin T  BY <1>4
<1>6. r \in Zapis  BY <1>4, <1>5, OsTip
<1>7. rang[r] < rang[z]  BY <1>1, <1>4, <1>5 DEF Os
<1>8. rang[r] \in R  BY <1>5, <1>6
<1>9. rang[r] \in Nat /\ rang[z] \in Nat  BY <1>2, <1>4, <1>8
<1> QED  BY <1>3, <1>4, <1>7, <1>8, <1>9

\* z will come back with one of T, or by itself: it has no row, and the ledger
\* deletes it, or it is to be tried again and has been deleted, or it leans on
\* one of T. Vracaju are the records for which this ends with a deleted one or
\* one to be tried again.
Skriva(K, p, C, z, T) ==
    /\ p[z] = Nema /\ Zadnja(K, z) # Nema
    /\ \/ ~Zadnja(K, z).ziva
       \/ z \in C /\ ImaSpomenik(K, z)
       \/ Zadnja(K, z).oslonci \cap T # {}
Zatvoren(K, p, C, T) == \A z \in Zapis : Skriva(K, p, C, z, T) => z \in T
Vracaju(K, p, C) == {z \in Zapis : \A T \in SUBSET Zapis : Zatvoren(K, p, C, T) => z \in T}

LEMMA VracajuNajmanji ==
    ASSUME NEW K, NEW p, NEW C, NEW T \in SUBSET Zapis, Zatvoren(K, p, C, T)
    PROVE  Vracaju(K, p, C) \subseteq T
BY DEF Vracaju

LEMMA VracajuZatvoren ==
    ASSUME NEW K, NEW p, NEW C
    PROVE  /\ Vracaju(K, p, C) \in SUBSET Zapis
           /\ \A z \in Zapis : z \in Vracaju(K, p, C) <=> Skriva(K, p, C, z, Vracaju(K, p, C))
<1> DEFINE V == Vracaju(K, p, C)
           W == {z \in Zapis : Skriva(K, p, C, z, V)}
<1>1. V \in SUBSET Zapis  BY DEF Vracaju
<1> HIDE DEF V
<1>2. ASSUME NEW z \in Zapis, Skriva(K, p, C, z, V)  PROVE z \in V
  <2> SUFFICES ASSUME NEW T \in SUBSET Zapis, Zatvoren(K, p, C, T)  PROVE z \in T
    BY DEF Vracaju, V
  <2>1. V \subseteq T  BY VracajuNajmanji DEF V
  <2>2. Skriva(K, p, C, z, T)  BY <1>2, <2>1 DEF Skriva
  <2> QED  BY <2>2 DEF Zatvoren
<1>3. Zatvoren(K, p, C, W)
  <2> SUFFICES ASSUME NEW z \in Zapis, Skriva(K, p, C, z, W)  PROVE z \in W
    BY DEF Zatvoren
  <2>1. W \subseteq V  BY <1>2
  <2> HIDE DEF W
  <2>2. Skriva(K, p, C, z, V)  BY <2>1 DEF Skriva
  <2> QED  BY <2>2 DEF W
<1>4. V \subseteq W
  <2>1. W \in SUBSET Zapis  OBVIOUS
  <2> HIDE DEF W
  <2> QED  BY <1>3, <2>1, VracajuNajmanji DEF V
<1> QED  BY <1>1, <1>2, <1>4 DEF V

\* What is deleted comes back with what was deleted.
LEMMA ObrisaniVracaju ==
    ASSUME NEW K \in Jednolike, NEW p \in Redovi, NEW C
    PROVE  Obrisani(K, p) \subseteq Vracaju(K, p, C)
<1> DEFINE O == Obrisani(K, p)
           V == Vracaju(K, p, C)
           T == {z \in Zapis : z \in O => z \in V}
<1>1. K \in SUBSET Verzija  BY DEF Jednolike, Knjige
<1>2. /\ O \subseteq Zapis
      /\ \A z \in Zapis : z \in O <=>
            /\ p[z] = Nema /\ Zadnja(K, z) # Nema
            /\ Zadnja(K, z).ziva => Zadnja(K, z).oslonci \cap O # {}
  BY <1>1, ObrisaniJednako
<1> HIDE DEF O, V
<1>3. ASSUME NEW z \in Zapis, Os(z) \subseteq T  PROVE z \in T
  <2> SUFFICES ASSUME z \in O  PROVE z \in V
    OBVIOUS
  <2>1. /\ p[z] = Nema /\ Zadnja(K, z) # Nema
        /\ Zadnja(K, z).ziva => Zadnja(K, z).oslonci \cap O # {}
    BY <1>2
  <2>2. Zadnja(K, z).oslonci = Os(z)  BY <2>1, ZadnjaJednolike
  <2>3. Zadnja(K, z).ziva => Zadnja(K, z).oslonci \cap V # {}  BY <1>3, <2>1, <2>2
  <2>4. Skriva(K, p, C, z, V)  BY <2>1, <2>3 DEF Skriva
  <2> QED  BY <2>4, VracajuZatvoren DEF V
<1>4. Zapis \subseteq T
  <2> HIDE DEF T
  <2> QED  BY <1>3, PoOsloncima
<1> QED  BY <1>2, <1>4 DEF O, V

\* What was deleted stays deleted while no row is written for it.
LEMMA ObrisaniOstaju ==
    ASSUME NEW K \in Jednolike, NEW p \in Redovi, NEW q \in Redovi,
           \A z \in Obrisani(K, p) : Os(z) \cap Obrisani(K, q) # {} \/ Obrisana(K, z) => q[z] = Nema
    PROVE  Obrisani(K, p) \subseteq Obrisani(K, q)
<1> DEFINE O == Obrisani(K, p)
           Q == Obrisani(K, q)
           T == {z \in Zapis : z \in O => z \in Q}
<1>1. K \in SUBSET Verzija  BY DEF Jednolike, Knjige
<1>2. /\ O \subseteq Zapis
      /\ \A z \in Zapis : z \in O <=>
            /\ p[z] = Nema /\ Zadnja(K, z) # Nema
            /\ Zadnja(K, z).ziva => Zadnja(K, z).oslonci \cap O # {}
  BY <1>1, ObrisaniJednako
<1>3. \A z \in Zapis : z \in Q <=>
            /\ q[z] = Nema /\ Zadnja(K, z) # Nema
            /\ Zadnja(K, z).ziva => Zadnja(K, z).oslonci \cap Q # {}
  BY <1>1, ObrisaniJednako
<1>4. \A z \in O : Os(z) \cap Q # {} \/ Obrisana(K, z) => q[z] = Nema  OBVIOUS
<1> HIDE DEF O, Q
<1>5. ASSUME NEW z \in Zapis, Os(z) \subseteq T  PROVE z \in T
  <2> SUFFICES ASSUME z \in O  PROVE z \in Q
    OBVIOUS
  <2>1. /\ p[z] = Nema /\ Zadnja(K, z) # Nema
        /\ Zadnja(K, z).ziva => Zadnja(K, z).oslonci \cap O # {}
    BY <1>2
  <2>2. Zadnja(K, z).oslonci = Os(z)  BY <2>1, ZadnjaJednolike
  <2>3. Zadnja(K, z).ziva => Os(z) \cap Q # {}  BY <1>5, <2>1, <2>2
  <2>4. Os(z) \cap Q # {} \/ Obrisana(K, z)  BY <2>1, <2>3 DEF Obrisana
  <2>5. q[z] = Nema  BY <1>4, <2>4
  <2> QED  BY <1>3, <2>1, <2>2, <2>3, <2>5
<1>6. Zapis \subseteq T
  <2> HIDE DEF T
  <2> QED  BY <1>5, PoOsloncima
<1> QED  BY <1>2, <1>6 DEF O, Q

\* One level of vratiDjecu keeps the rows and what was deleted; when it changes
\* nothing, no child can come back any more.
Ostaje(K, s, q) ==
    /\ q \in Redovi
    /\ \A y \in Zapis : s[y] # Nema => q[y] = s[y]
    /\ Obrisani(K, s) \subseteq Obrisani(K, q)

LEMMA RazinaCuva ==
    ASSUME NEW K \in Jednolike, NEW p, NEW z, NEW s \in Redovi
    PROVE  /\ Ostaje(K, s, Razina(K, p, z, s))
           /\ Razina(K, p, z, s) = s =>
                 \A y \in DjecaIzKnjige(K, s, {z} \cup (NaPovrsini(s) \ NaPovrsini(p))) :
                    ~(Zadnja(K, y).oslonci \subseteq NaPovrsini(s))
<1> DEFINE q == Razina(K, p, z, s)
           dj == DjecaIzKnjige(K, s, {z} \cup (NaPovrsini(s) \ NaPovrsini(p)))
<1>1. K \in SUBSET Verzija  BY DEF Jednolike, Knjige
<1>2. q \in Redovi  BY <1>1, RazinaTip
<1>3. q = [y \in Zapis |-> IF y \in dj /\ Zadnja(K, y).oslonci \subseteq NaPovrsini(s)
                           THEN Zadnja(K, y) ELSE s[y]]
  BY DEF Razina
<1>4. \A y \in dj : /\ y \in Zapis /\ s[y] = Nema /\ Ziva(Zadnja(K, y))
                    /\ ~RoditeljObrisan(K, s, Zadnja(K, y))
  BY DEF DjecaIzKnjige, NaPovrsini
<1> HIDE DEF q, dj
<1>5. \A y \in Zapis : s[y] # Nema => q[y] = s[y]  BY <1>3, <1>4
<1>6. \A y \in Obrisani(K, s) : q[y] = Nema
  <2> SUFFICES ASSUME NEW y \in Obrisani(K, s)  PROVE q[y] = Nema
    OBVIOUS
  <2>1. /\ y \in Zapis /\ s[y] = Nema
        /\ Zadnja(K, y).ziva => Zadnja(K, y).oslonci \cap Obrisani(K, s) # {}
    BY <1>1, ObrisaniJednako
  <2>2. y \notin dj
    <3> SUFFICES ASSUME y \in dj  PROVE FALSE
      OBVIOUS
    <3>1. Zadnja(K, y).ziva /\ ~RoditeljObrisan(K, s, Zadnja(K, y))  BY <1>4 DEF Ziva
    <3> QED  BY <2>1, <3>1 DEF RoditeljObrisan
  <2> QED  BY <1>3, <2>1, <2>2
<1>7. Obrisani(K, s) \subseteq Obrisani(K, q)  BY <1>2, <1>6, ObrisaniOstaju
<1>8. ASSUME q = s, NEW y \in dj, Zadnja(K, y).oslonci \subseteq NaPovrsini(s)  PROVE FALSE
  <2>1. q[y] = Zadnja(K, y) /\ Zadnja(K, y) # Nema /\ s[y] = Nema
    BY <1>3, <1>4, <1>8 DEF Ziva
  <2> QED  BY <1>8, <2>1
<1> QED  BY <1>2, <1>5, <1>7, <1>8 DEF q, dj, Ostaje

\* vratiDjecu to the end: rows are kept, what was deleted stays deleted, and a
\* child that is left waits for something that has no row.
Vracena(K, p, z, d) ==
    /\ \A y \in Zapis : p[y] # Nema => d.p[y] = p[y]
    /\ Obrisani(K, p) \subseteq Obrisani(K, d.p)
    /\ d.ceka = DjecaIzKnjige(K, d.p, {z} \cup (NaPovrsini(d.p) \ NaPovrsini(p)))
    /\ \A y \in d.ceka : ~(Zadnja(K, y).oslonci \subseteq NaPovrsini(d.p))

LEMMA VratiDjecuKraj ==
    ASSUME NEW K \in Jednolike, NEW p \in Redovi, NEW z \in Zapis, p[z] # Nema
    PROVE  Vracena(K, p, z, VratiDjecu(K, p, z))
<1> DEFINE N == Zapisa
           d == VratiDjecu(K, p, z)
           dj(s) == DjecaIzKnjige(K, s, {z} \cup (NaPovrsini(s) \ NaPovrsini(p)))
<1>1. K \in SUBSET Verzija  BY DEF Jednolike, Knjige
<1>2. PICK g : Razine(K, p, z, g)  BY <1>1, VratiDjecuJednako
<1>3. N \in Nat  BY <1>1, VratiDjecuJednako
<1>4. /\ g \in [0 .. N -> Redovi]
      /\ g[0] = p
      /\ \A i \in 1 .. N : g[i] = Razina(K, p, z, g[i - 1])
      /\ d = [p |-> g[N], ceka |-> dj(g[N])]
  BY <1>2 DEF Razine
<1> DEFINE Stalo(s) == Razina(K, p, z, s) = s
           P(i) == NaPovrsini(g[i])
           T == {i \in 0 .. N :
                   /\ \A y \in Zapis : p[y] # Nema => g[i][y] = p[y]
                   /\ Obrisani(K, p) \subseteq Obrisani(K, g[i])
                   /\ Stalo(g[i]) \/ Cardinality(P(i)) > i}
<1>5. \A i \in 0 .. N : /\ P(i) \in SUBSET Zapis /\ IsFiniteSet(P(i)) /\ Cardinality(P(i)) \in Nat
                        /\ Cardinality(P(i)) <= N
  <2> SUFFICES ASSUME NEW i \in 0 .. N
               PROVE  /\ P(i) \in SUBSET Zapis /\ IsFiniteSet(P(i)) /\ Cardinality(P(i)) \in Nat
                      /\ Cardinality(P(i)) <= N
    OBVIOUS
  <2>1. P(i) \in SUBSET Zapis  BY DEF NaPovrsini
  <2> HIDE DEF P
  <2>2. IsFiniteSet(P(i)) /\ Cardinality(P(i)) <= Cardinality(Zapis)
    BY <2>1, PovrsinaPretpostavka, FS_Subset
  <2>3. Cardinality(P(i)) \in Nat  BY <2>2, FS_CardinalityType
  <2> QED  BY <2>1, <2>2, <2>3 DEF Zapisa
<1> HIDE DEF N
<1>6. 0 \in T
  <2>1. 0 \in 0 .. N /\ g[0] = p  BY <1>3, <1>4
  <2>2. P(0) # {}  BY <2>1 DEF NaPovrsini
  <2>3. Cardinality(P(0)) # 0
    <3> HIDE DEF P
    <3> QED  BY <1>5, <2>1, <2>2, FS_EmptySet
  <2>4. Cardinality(P(0)) > 0
    <3> HIDE DEF P
    <3> QED  BY <1>5, <2>1, <2>3
  <2> HIDE DEF P, Stalo
  <2> QED  BY <2>1, <2>4
<1>7. ASSUME NEW i \in 1 .. N, i - 1 \in T  PROVE i \in T
  <2> DEFINE s == g[i - 1]
             q == g[i]
  <2>1. s \in Redovi /\ i \in 0 .. N /\ i - 1 \in 0 .. N /\ q = Razina(K, p, z, s)
    BY <1>3, <1>4, <1>7
  <2>2. /\ \A y \in Zapis : p[y] # Nema => s[y] = p[y]
        /\ Obrisani(K, p) \subseteq Obrisani(K, s)
        /\ Stalo(s) \/ Cardinality(P(i - 1)) > i - 1
    BY <1>7
  <2>3. /\ q \in Redovi
        /\ \A y \in Zapis : s[y] # Nema => q[y] = s[y]
        /\ Obrisani(K, s) \subseteq Obrisani(K, q)
    <3> HIDE DEF s, q, T, P, N
    <3>1. s \in Redovi  BY <2>1
    <3>2. Ostaje(K, s, Razina(K, p, z, s))  BY <3>1, RazinaCuva
    <3> QED  BY <2>1, <3>2 DEF Ostaje
  <2>4. Stalo(q) \/ Cardinality(P(i)) > i
    <3>1. CASE q = s
      <4>1. Stalo(q)  BY <2>1, <3>1
      <4> QED  BY <4>1
    <3>2. CASE q # s
      <4>1. ~Stalo(s)  BY <2>1, <3>2
      <4>2. PICK y \in Zapis : q[y] # s[y]
        <5> HIDE DEF q, s
        <5> QED  BY <2>1, <2>3, <3>2 DEF Redovi
      <4>3. s[y] = Nema /\ q[y] # Nema  BY <2>3, <4>2
      <4>4. P(i - 1) \subseteq P(i) /\ y \in P(i) /\ y \notin P(i - 1)
        <5> HIDE DEF N
        <5>1. \A x \in Zapis : s[x] # Nema => q[x] # Nema  BY <2>3
        <5> QED  BY <4>2, <4>3, <5>1 DEF NaPovrsini
      <4>5. P(i - 1) \cup {y} \subseteq P(i)  BY <4>4
      <4> HIDE DEF P, Stalo
      <4>6. Cardinality(P(i - 1) \cup {y}) = Cardinality(P(i - 1)) + 1
        BY <1>5, <2>1, <4>4, FS_AddElement
      <4>7. Cardinality(P(i - 1) \cup {y}) <= Cardinality(P(i))
        BY <1>5, <2>1, <4>5, FS_Subset
      <4> QED  BY <1>5, <2>1, <2>2, <4>1, <4>6, <4>7
    <3> QED  BY <3>1, <3>2
  <2>5. \A y \in Zapis : p[y] # Nema => q[y] = p[y]  BY <2>2, <2>3
  <2>6. Obrisani(K, p) \subseteq Obrisani(K, q)  BY <2>2, <2>3
  <2> HIDE DEF P, Stalo
  <2> QED  BY <2>1, <2>4, <2>5, <2>6
<1>8. N \in T
  <2> HIDE DEF T
  <2>1. 0 .. N \subseteq T  BY <1>3, <1>6, <1>7, Korakom
  <2> QED  BY <1>3, <2>1
<1>9. g[N] \in Redovi /\ N \in 0 .. N  BY <1>3, <1>4
<1>10. Stalo(g[N])
  <2>1. Stalo(g[N]) \/ Cardinality(P(N)) > N  BY <1>8
  <2> HIDE DEF P, Stalo
  <2> QED  BY <1>3, <1>5, <1>9, <2>1
<1>11. \A y \in dj(g[N]) : ~(Zadnja(K, y).oslonci \subseteq NaPovrsini(g[N]))
  <2> DEFINE t == g[N]
  <2>1. t \in Redovi /\ Razina(K, p, z, t) = t  BY <1>9, <1>10
  <2> HIDE DEF t
  <2>2. \A y \in dj(t) : ~(Zadnja(K, y).oslonci \subseteq NaPovrsini(t))  BY <2>1, RazinaCuva
  <2> QED  BY <2>2 DEF t
<1>12. d.p = g[N] /\ d.ceka = dj(g[N])  BY <1>4
<1>13. /\ \A y \in Zapis : p[y] # Nema => d.p[y] = p[y]
       /\ Obrisani(K, p) \subseteq Obrisani(K, d.p)
       /\ d.ceka = dj(d.p)
       /\ \A y \in d.ceka : ~(Zadnja(K, y).oslonci \subseteq NaPovrsini(d.p))
  <2> HIDE DEF d, P, Stalo
  <2> QED  BY <1>8, <1>11, <1>12
<1> QED  BY <1>13 DEF Vracena

\* The surface p of the ledger K while the records C are to be tried again: a
\* row is the last version, and a living record without a row leans on what
\* will come back, unless it is itself to be tried again.
RedZadnji(K, p, C) == \A z \in Zapis : p[z] # Nema => z \in C \/ p[z] = Zadnja(K, z)
NistaIzgubljeno(K, p, C) ==
    \A z \in Zapis : p[z] = Nema /\ Ziva(Zadnja(K, z)) =>
        z \in C \/ Os(z) \cap Vracaju(K, p, C) # {}
Drzi(K, p, C) == RedoviDrze(K, p) /\ RedZadnji(K, p, C) /\ NistaIzgubljeno(K, p, C)

\* The records P that passed in this transaction have a row, or are deleted, or
\* lean on what is.
Prosli(K, p, P) ==
    \A z \in P : p[z] # Nema \/ Obrisana(K, z) \/ Os(z) \cap Obrisani(K, p) # {}

\* What a step must show for what came back with V to come back after it.
LEMMA VracajuOstaju ==
    ASSUME NEW K, NEW p, NEW C, NEW L, NEW q, NEW D,
           \A z \in Zapis : Skriva(K, p, C, z, Vracaju(L, q, D)) => z \in Vracaju(L, q, D)
    PROVE  Vracaju(K, p, C) \subseteq Vracaju(L, q, D)
<1> DEFINE T == Vracaju(L, q, D)
<1>1. T \in SUBSET Zapis  BY VracajuZatvoren
<1> HIDE DEF T
<1>2. Zatvoren(K, p, C, T)  BY DEF Zatvoren, T
<1>3. Vracaju(K, p, C) \subseteq T  BY <1>1, <1>2, VracajuNajmanji
<1> QED  BY <1>3 DEF T

\* The last version of z deletes it.
LEMMA DrziObrisana ==
    ASSUME NEW K \in Jednolike, NEW p \in Redovi, NEW C, NEW P \in SUBSET Zapis,
           Drzi(K, p, C), Prosli(K, p, P), NEW z \in Zapis, Obrisana(K, z)
    PROVE  /\ Drzi(K, MakniSDjecom(p, z), C \ {z})
           /\ Prosli(K, MakniSDjecom(p, z), P \cup {z})
<1> DEFINE q == MakniSDjecom(p, z)
           D == C \ {z}
           V == Vracaju(K, p, C)
           W == Vracaju(K, q, D)
<1>1. K \in SUBSET Verzija  BY DEF Jednolike, Knjige
<1>2. PICK I \in SUBSET Zapis :
         /\ \A y \in Zapis : y \in I <=> y = z \/ (p[y] # Nema /\ p[y].oslonci \cap I # {})
         /\ q = [y \in Zapis |-> IF y \in I THEN Nema ELSE p[y]]
  BY MakniJednako
<1>3. q \in Redovi /\ RedoviDrze(K, q)  BY <1>1, MakniTip, MakniDrzi DEF Drzi
<1> HIDE DEF q
<1>4. \A y \in Zapis : q[y] = IF y \in I THEN Nema ELSE p[y]  BY <1>2
<1>5. \A y \in Zapis : p[y] # Nema => /\ p[y] \in K /\ p[y].zapis = y /\ p[y].oslonci = Os(y)
                                      /\ Zadnja(K, y) # Nema /\ Zadnja(K, y).oslonci = Os(y)
  <2> SUFFICES ASSUME NEW y \in Zapis, p[y] # Nema
               PROVE  /\ p[y] \in K /\ p[y].zapis = y /\ p[y].oslonci = Os(y)
                      /\ Zadnja(K, y) # Nema /\ Zadnja(K, y).oslonci = Os(y)
    OBVIOUS
  <2>1. p[y] \in K /\ p[y].zapis = y  BY DEF Drzi, RedoviDrze
  <2>2. p[y].oslonci = Os(y)  BY <2>1 DEF Jednolike
  <2>3. y \in ZapisiU(K)  BY <2>1 DEF ZapisiU
  <2> QED  BY <2>1, <2>2, <2>3, ZadnjaJednolike
<1>6. Obrisani(K, p) \subseteq Obrisani(K, q)
  <2>1. \A y \in Obrisani(K, p) : q[y] = Nema
    <3>1. \A y \in Obrisani(K, p) : y \in Zapis /\ p[y] = Nema  BY <1>1, ObrisaniJednako
    <3> QED  BY <1>4, <3>1
  <2> QED  BY <1>3, <2>1, ObrisaniOstaju
<1>7. I \subseteq Obrisani(K, q)
  <2> DEFINE O == Obrisani(K, q)
             T == {y \in Zapis : y \in I => y \in O}
  <2>1. \A y \in Zapis : y \in O <=>
            /\ q[y] = Nema /\ Zadnja(K, y) # Nema
            /\ Zadnja(K, y).ziva => Zadnja(K, y).oslonci \cap O # {}
    BY <1>1, <1>3, ObrisaniJednako
  <2> HIDE DEF O
  <2>2. ASSUME NEW y \in Zapis, Os(y) \subseteq T  PROVE y \in T
    <3> SUFFICES ASSUME y \in I  PROVE y \in O
      OBVIOUS
    <3>1. q[y] = Nema  BY <1>4
    <3>2. CASE y = z  BY <2>1, <3>1, <3>2 DEF Obrisana
    <3>3. CASE y # z
      <4>1. p[y] # Nema /\ p[y].oslonci \cap I # {}  BY <1>2, <3>3
      <4>2. Os(y) \cap O # {}  BY <1>5, <2>2, <4>1
      <4> QED  BY <1>5, <2>1, <3>1, <4>1, <4>2
    <3> QED  BY <3>2, <3>3
  <2>3. Zapis \subseteq T
    <3> HIDE DEF T
    <3> QED  BY <2>2, PoOsloncima
  <2> QED  BY <2>3 DEF O
<1>8. Obrisani(K, q) \subseteq W  BY <1>3, ObrisaniVracaju
<1>9. V \subseteq W
  <2> SUFFICES ASSUME NEW r \in Zapis, Skriva(K, p, C, r, W)  PROVE r \in W
    BY VracajuOstaju
  <2>1. q[r] = Nema  BY <1>4 DEF Skriva
  <2>2. CASE r = z
    <3>1. Skriva(K, q, D, r, W)  BY <2>1, <2>2 DEF Skriva, Obrisana
    <3> QED  BY <3>1, VracajuZatvoren
  <2>3. CASE r # z
    <3>1. Skriva(K, q, D, r, W)  BY <2>1, <2>3 DEF Skriva
    <3> QED  BY <3>1, VracajuZatvoren
  <2> QED  BY <2>2, <2>3
<1> HIDE DEF V, W
<1>10. RedZadnji(K, q, D)
  <2> SUFFICES ASSUME NEW y \in Zapis, q[y] # Nema  PROVE y \in D \/ q[y] = Zadnja(K, y)
    BY DEF RedZadnji
  <2>1. y \notin I /\ q[y] = p[y] /\ y # z  BY <1>2, <1>4
  <2> QED  BY <2>1 DEF Drzi, RedZadnji
<1>11. NistaIzgubljeno(K, q, D)
  <2> SUFFICES ASSUME NEW y \in Zapis, q[y] = Nema, Ziva(Zadnja(K, y))
               PROVE  y \in D \/ Os(y) \cap W # {}
    BY DEF NistaIzgubljeno, W
  <2>1. y # z  BY DEF Obrisana, Ziva
  <2>2. CASE y \in I
    <3>1. Os(y) \cap I # {}  BY <1>2, <1>5, <2>1, <2>2
    <3> QED  BY <1>7, <1>8, <3>1
  <2>3. CASE y \notin I
    <3>1. p[y] = Nema  BY <1>4, <2>3
    <3>2. y \in C \/ Os(y) \cap V # {}  BY <3>1 DEF Drzi, NistaIzgubljeno, V
    <3> QED  BY <1>9, <2>1, <3>2
  <2> QED  BY <2>2, <2>3
<1>12. Prosli(K, q, P \cup {z})
  <2> SUFFICES ASSUME NEW y \in P, y # z
               PROVE  q[y] # Nema \/ Obrisana(K, y) \/ Os(y) \cap Obrisani(K, q) # {}
    BY DEF Prosli
  <2>1. CASE p[y] # Nema /\ y \in I
    <3>1. Os(y) \cap I # {}  BY <1>2, <1>5, <2>1
    <3> QED  BY <1>7, <3>1
  <2>2. CASE p[y] # Nema /\ y \notin I  BY <1>4, <2>2
  <2>3. CASE p[y] = Nema  BY <1>6, <2>3 DEF Prosli
  <2> QED  BY <2>1, <2>2, <2>3
<1>13. Drzi(K, q, D)  BY <1>3, <1>10, <1>11 DEF Drzi
<1> QED  BY <1>12, <1>13 DEF q

\* z leans on what is deleted.
LEMMA DrziRoditelj ==
    ASSUME NEW K \in Jednolike, NEW p \in Redovi, NEW C, NEW P \in SUBSET Zapis,
           Drzi(K, p, C), Prosli(K, p, P), NEW z \in Zapis, Os(z) \cap Obrisani(K, p) # {}
    PROVE  Drzi(K, p, C \ {z}) /\ Prosli(K, p, P \cup {z})
<1> DEFINE D == C \ {z}
           V == Vracaju(K, p, C)
           W == Vracaju(K, p, D)
<1>1. K \in SUBSET Verzija  BY DEF Jednolike, Knjige
<1>2. Obrisani(K, p) \subseteq W  BY ObrisaniVracaju
<1>3. p[z] = Nema
  <2> SUFFICES ASSUME p[z] # Nema  PROVE FALSE
    OBVIOUS
  <2>1. p[z] \in K /\ p[z].zapis = z /\ p[z].oslonci \subseteq NaPovrsini(p)  BY DEF Drzi, RedoviDrze
  <2>2. p[z].oslonci = Os(z)  BY <2>1 DEF Jednolike
  <2>3. \A r \in Obrisani(K, p) : p[r] = Nema  BY <1>1, ObrisaniJednako
  <2> QED  BY <2>1, <2>2, <2>3 DEF NaPovrsini
<1>4. V \subseteq W
  <2> SUFFICES ASSUME NEW r \in Zapis, Skriva(K, p, C, r, W)  PROVE r \in W
    BY VracajuOstaju
  <2>1. CASE r = z
    <3>1. Zadnja(K, z) # Nema  BY <2>1 DEF Skriva
    <3>2. Zadnja(K, z).oslonci = Os(z)  BY <3>1, ZadnjaJednolike
    <3>3. Skriva(K, p, D, z, W)  BY <1>2, <1>3, <3>1, <3>2 DEF Skriva
    <3> QED  BY <2>1, <3>3, VracajuZatvoren
  <2>2. CASE r # z
    <3>1. Skriva(K, p, D, r, W)  BY <2>2 DEF Skriva
    <3> QED  BY <3>1, VracajuZatvoren
  <2> QED  BY <2>1, <2>2
<1> HIDE DEF V, W
<1>5. RedZadnji(K, p, D)  BY <1>3 DEF Drzi, RedZadnji
<1>6. NistaIzgubljeno(K, p, D)
  <2> SUFFICES ASSUME NEW y \in Zapis, p[y] = Nema, Ziva(Zadnja(K, y))
               PROVE  y \in D \/ Os(y) \cap W # {}
    BY DEF NistaIzgubljeno, W
  <2>1. CASE y = z  BY <1>2, <2>1
  <2>2. CASE y # z
    <3>1. y \in C \/ Os(y) \cap V # {}  BY DEF Drzi, NistaIzgubljeno, V
    <3> QED  BY <1>4, <2>2, <3>1
  <2> QED  BY <2>1, <2>2
<1>7. Prosli(K, p, P \cup {z})  BY DEF Prosli
<1> QED  BY <1>5, <1>6, <1>7 DEF Drzi

\* The row of z written with all that it leans on.
SRedom(K, p, z) == [p EXCEPT ![z] = Zadnja(K, z)]
Upisan(K, p, z, q) ==
    /\ q \in Redovi /\ RedoviDrze(K, q) /\ q[z] = Zadnja(K, z) /\ q[z] # Nema
    /\ \A y \in Zapis : y # z => q[y] = p[y]
    /\ Obrisani(K, p) \subseteq Obrisani(K, q)

LEMMA UpisCuva ==
    ASSUME NEW K \in Jednolike, NEW p \in Redovi, RedoviDrze(K, p), NEW z \in Zapis,
           Ziva(Zadnja(K, z)), Os(z) \subseteq NaPovrsini(p)
    PROVE  Upisan(K, p, z, SRedom(K, p, z))
<1> DEFINE v == Zadnja(K, z)
           red == SRedom(K, p, z)
<1>1. /\ K \in SUBSET Verzija /\ v \in K /\ v \in Verzija /\ v.zapis = z /\ v.ziva /\ v # Nema
      /\ v.oslonci = Os(z)
  <2>1. K \in SUBSET Verzija  BY DEF Jednolike, Knjige
  <2> QED  BY <2>1, ZadnjaJednolike DEF Ziva
<1>2. red[z] = v /\ \A y \in Zapis : y # z => red[y] = p[y]  BY DEF Redovi, SRedom
<1>3. red = [p EXCEPT ![v.zapis] = v]  BY <1>1 DEF SRedom
<1> HIDE DEF v, red
<1>4. red \in Redovi /\ RedoviDrze(K, red)
  <2>1. [p EXCEPT ![v.zapis] = v] \in Redovi /\ RedoviDrze(K, [p EXCEPT ![v.zapis] = v])
    BY <1>1, UpisDrzi
  <2> QED  BY <1>3, <2>1
<1>5. \A y \in Obrisani(K, p) : y \in Zapis /\ p[y] = Nema /\ y # z
  <2>1. \A y \in Obrisani(K, p) : /\ y \in Zapis /\ p[y] = Nema
                                  /\ Zadnja(K, y).ziva => Zadnja(K, y).oslonci \cap Obrisani(K, p) # {}
    BY <1>1, ObrisaniJednako
  <2>2. v.oslonci \cap Obrisani(K, p) = {}  BY <1>1, <2>1 DEF NaPovrsini
  <2> QED  BY <1>1, <2>1, <2>2 DEF v
<1>6. \A y \in Obrisani(K, p) : red[y] = Nema  BY <1>2, <1>5
<1>7. Obrisani(K, p) \subseteq Obrisani(K, red)  BY <1>4, <1>6, ObrisaniOstaju
<1> QED  BY <1>1, <1>2, <1>4, <1>7 DEF v, red, Upisan

\* z is written and was never deleted.
LEMMA DrziRed ==
    ASSUME NEW K \in Jednolike, NEW p \in Redovi, NEW C, NEW P \in SUBSET Zapis,
           Drzi(K, p, C), Prosli(K, p, P), NEW z \in Zapis,
           Ziva(Zadnja(K, z)), Os(z) \subseteq NaPovrsini(p), ~ImaSpomenik(K, z),
           NEW q, q = SRedom(K, p, z)
    PROVE  Drzi(K, q, C \ {z}) /\ Prosli(K, q, P \cup {z})
<1> DEFINE D == C \ {z}
           V == Vracaju(K, p, C)
           W == Vracaju(K, q, D)
<1>1. RedoviDrze(K, p)  BY DEF Drzi
<1>2. /\ q \in Redovi /\ RedoviDrze(K, q) /\ q[z] = Zadnja(K, z) /\ q[z] # Nema
      /\ \A y \in Zapis : y # z => q[y] = p[y]
      /\ Obrisani(K, p) \subseteq Obrisani(K, q)
  BY <1>1, UpisCuva DEF Upisan
<1>3. V \subseteq W
  <2> SUFFICES ASSUME NEW r \in Zapis, Skriva(K, p, C, r, W)  PROVE r \in W
    BY VracajuOstaju
  <2>1. r # z
    <3> SUFFICES ASSUME r = z  PROVE FALSE
      OBVIOUS
    <3>1. Zadnja(K, z) # Nema /\ Zadnja(K, z).ziva  BY DEF Ziva
    <3>2. Os(z) \cap W # {}
      <4> HIDE DEF W
      <4>1. Zadnja(K, z).oslonci = Os(z)  BY <3>1, ZadnjaJednolike
      <4>2. Skriva(K, p, C, z, W)  OBVIOUS
      <4> QED  BY <3>1, <4>1, <4>2 DEF Skriva
    <3>3. \A y \in W : y \in Zapis /\ q[y] = Nema
      <4> HIDE DEF W
      <4>1. \A y \in W : y \in Zapis /\ Skriva(K, q, D, y, W)  BY VracajuZatvoren DEF W
      <4> QED  BY <4>1 DEF Skriva
    <3>4. \A y \in Os(z) : p[y] # Nema /\ y \in Zapis  BY DEF NaPovrsini
    <3> HIDE DEF W
    <3> QED  BY <1>2, <3>2, <3>3, <3>4
  <2>2. Skriva(K, q, D, r, W)  BY <1>2, <2>1 DEF Skriva
  <2> QED  BY <2>2, VracajuZatvoren
<1> HIDE DEF V, W
<1>4. RedZadnji(K, q, D)
  <2> SUFFICES ASSUME NEW y \in Zapis, q[y] # Nema  PROVE y \in D \/ q[y] = Zadnja(K, y)
    BY DEF RedZadnji
  <2>1. CASE y = z  BY <1>2, <2>1
  <2>2. CASE y # z  BY <1>2, <2>2 DEF Drzi, RedZadnji
  <2> QED  BY <2>1, <2>2
<1>5. NistaIzgubljeno(K, q, D)
  <2> SUFFICES ASSUME NEW y \in Zapis, q[y] = Nema, Ziva(Zadnja(K, y))
               PROVE  y \in D \/ Os(y) \cap W # {}
    BY DEF NistaIzgubljeno, W
  <2>1. y # z /\ p[y] = Nema  BY <1>2
  <2>2. y \in C \/ Os(y) \cap V # {}  BY <2>1 DEF Drzi, NistaIzgubljeno, V
  <2> QED  BY <1>3, <2>1, <2>2
<1>6. Prosli(K, q, P \cup {z})
  <2> SUFFICES ASSUME NEW y \in P, y # z
               PROVE  q[y] # Nema \/ Obrisana(K, y) \/ Os(y) \cap Obrisani(K, q) # {}
    BY <1>2 DEF Prosli
  <2> QED  BY <1>2 DEF Prosli
<1> QED  BY <1>2, <1>4, <1>5, <1>6 DEF Drzi

\* z was deleted, and comes back with its children. A child that cannot come
\* back now is to be tried again; what leans on such a child comes back only
\* with it, and it is the only one it leans on (JedanOslonac).
LEMMA DrziDjeca ==
    ASSUME JedanOslonac,
           NEW K \in Jednolike, NEW p \in Redovi, NEW C, NEW P \in SUBSET Zapis,
           Drzi(K, p, C), Prosli(K, p, P), NEW z \in Zapis,
           Ziva(Zadnja(K, z)), Os(z) \subseteq NaPovrsini(p),
           NEW red, red = SRedom(K, p, z),
           NEW d, d = VratiDjecu(K, red, z)
    PROVE  /\ Drzi(K, d.p, (C \ {z}) \cup (d.ceka \ (P \cup {z})))
           /\ Prosli(K, d.p, P \cup {z})
<1> DEFINE q == d.p
           D == (C \ {z}) \cup (d.ceka \ (P \cup {z}))
           V == Vracaju(K, p, C)
           W == Vracaju(K, q, D)
           Ret == {z} \cup (NaPovrsini(q) \ NaPovrsini(red))
<1>1. K \in SUBSET Verzija /\ RedoviDrze(K, p)  BY DEF Jednolike, Knjige, Drzi
<1>2. /\ red \in Redovi /\ RedoviDrze(K, red) /\ red[z] = Zadnja(K, z) /\ red[z] # Nema
      /\ \A y \in Zapis : y # z => red[y] = p[y]
      /\ Obrisani(K, p) \subseteq Obrisani(K, red)
  BY <1>1, UpisCuva DEF Upisan
<1>3. /\ q \in Redovi /\ \A y \in Zapis : q[y] \in {red[y], Zadnja(K, y)}
  BY <1>1, <1>2, VratiDjecuTip
<1>4. RedoviDrze(K, q)  BY <1>1, <1>2, VratiDjecuDrzi
<1>5. /\ \A y \in Zapis : red[y] # Nema => q[y] = red[y]
      /\ Obrisani(K, red) \subseteq Obrisani(K, q)
      /\ d.ceka = DjecaIzKnjige(K, q, Ret)
      /\ \A y \in d.ceka : ~(Zadnja(K, y).oslonci \subseteq NaPovrsini(q))
  <2>1. Vracena(K, red, z, d)  BY <1>2, VratiDjecuKraj
  <2> QED  BY <2>1 DEF Vracena
<1> HIDE DEF q
<1>6. Obrisani(K, p) \subseteq Obrisani(K, q)  BY <1>2, <1>5
<1>7. q[z] # Nema /\ \A y \in Zapis : p[y] # Nema => q[y] # Nema
  BY <1>2, <1>5
<1>8. Prosli(K, q, P \cup {z})
  <2> SUFFICES ASSUME NEW y \in P, y # z
               PROVE  q[y] # Nema \/ Obrisana(K, y) \/ Os(y) \cap Obrisani(K, q) # {}
    BY <1>7 DEF Prosli
  <2> QED  BY <1>6, <1>7 DEF Prosli
<1>9. Obrisani(K, q) \subseteq W  BY <1>3, ObrisaniVracaju
<1>10. \A r \in W : q[r] = Nema
  <2> HIDE DEF W
  <2>1. \A y \in W : y \in Zapis /\ Skriva(K, q, D, y, W)  BY VracajuZatvoren DEF W
  <2> QED  BY <2>1 DEF Skriva
<1>11. \A r \in V : r \in Zapis /\ p[r] = Nema /\ Skriva(K, p, C, r, V)
  <2> HIDE DEF V
  <2>1. \A y \in V : y \in Zapis /\ Skriva(K, p, C, y, V)  BY VracajuZatvoren DEF V
  <2> QED  BY <2>1 DEF Skriva
<1>12. \A r \in Zapis : Skriva(K, q, D, r, W) => r \in W  BY VracajuZatvoren
<1> HIDE DEF V, W
<1>13. ASSUME NEW y \in Zapis, q[y] = Nema, Ziva(Zadnja(K, y)), Os(y) \cap Ret # {}
       PROVE  Os(y) \cap W # {} \/ (y \in d.ceka /\ y \in D)
  <2>1. Zadnja(K, y).oslonci = Os(y)  BY <1>13, ZadnjaJednolike DEF Ziva
  <2>2. CASE RoditeljObrisan(K, q, Zadnja(K, y))
    BY <1>9, <2>1, <2>2 DEF RoditeljObrisan
  <2>3. CASE ~RoditeljObrisan(K, q, Zadnja(K, y))
    <3>1. y \in DjecaIzKnjige(K, q, Ret)
      <4> HIDE DEF Ret
      <4> QED  BY <1>13, <2>1, <2>3 DEF DjecaIzKnjige, NaPovrsini
    <3>2. y # z  BY <1>7, <1>13
    <3>3. y \notin P
      <4>1. Os(y) \cap Obrisani(K, q) = {}  BY <2>1, <2>3 DEF RoditeljObrisan
      <4> QED  BY <1>8, <1>13, <4>1 DEF Prosli, Obrisana, Ziva
    <3> QED  BY <1>5, <3>1, <3>2, <3>3
  <2> QED  BY <2>2, <2>3
<1>14. \A r \in V : q[r] # Nema => r \in Ret
  <2> SUFFICES ASSUME NEW r \in V, q[r] # Nema, r # z  PROVE r \in NaPovrsini(q) \ NaPovrsini(red)
    OBVIOUS
  <2>1. r \in Zapis /\ red[r] = Nema  BY <1>2, <1>11
  <2> QED  BY <2>1 DEF NaPovrsini
<1>15. ASSUME NEW y \in Zapis, NEW r \in Os(y), r \in V, q[r] = Nema
       PROVE  r \in W
  <2> DEFINE T == {x \in Zapis : x \in V /\ q[x] = Nema /\ (\E w \in Zapis : x \in Os(w)) => x \in W}
  <2>1. ASSUME NEW x \in Zapis, Os(x) \subseteq T  PROVE x \in T
    <3> SUFFICES ASSUME x \in V, q[x] = Nema, NEW w \in Zapis, x \in Os(w)  PROVE x \in W
      OBVIOUS
    <3>1. Skriva(K, p, C, x, V) /\ Zadnja(K, x) # Nema  BY <1>11 DEF Skriva
    <3>2. Zadnja(K, x).oslonci = Os(x)  BY <3>1, ZadnjaJednolike
    <3>3. CASE ~Zadnja(K, x).ziva
      <4>1. Skriva(K, q, D, x, W)  BY <3>1, <3>3 DEF Skriva
      <4> QED  BY <1>12, <4>1
    <3>4. CASE x \in C /\ ImaSpomenik(K, x)
      <4>1. x \in D  BY <1>7, <3>4
      <4>2. Skriva(K, q, D, x, W)
        <5> HIDE DEF D
        <5> QED  BY <3>1, <3>4, <4>1 DEF Skriva
      <4> QED  BY <1>12, <4>2
    <3>5. CASE Zadnja(K, x).ziva /\ Os(x) \cap V # {}
      <4>1. PICK u \in Os(x) : u \in V  BY <3>5
      <4>2. u \in Zapis /\ u \in T  BY <2>1, <4>1, OsTip
      <4>3. CASE q[u] = Nema
        <5>1. u \in W  BY <4>1, <4>2, <4>3
        <5>2. Skriva(K, q, D, x, W)  BY <3>1, <3>2, <4>1, <5>1 DEF Skriva
        <5> QED  BY <1>12, <5>2
      <4>4. CASE q[u] # Nema
        <5>1. u \in Ret  BY <1>14, <4>1, <4>4
        <5>2. \A a \in Os(x) : a = u  BY <4>1 DEF JedanOslonac, Os
        <5>3. Os(x) \subseteq NaPovrsini(q)  BY <4>2, <4>4, <5>2 DEF NaPovrsini
        <5>4. x \notin d.ceka  BY <1>5, <3>2, <5>3
        <5>5. Os(x) \cap Ret # {}
          <6> HIDE DEF Ret
          <6> QED  BY <4>1, <5>1
        <5>6. Ziva(Zadnja(K, x))  BY <3>1, <3>5 DEF Ziva
        <5>7. Os(x) \cap W # {}
          <6> HIDE DEF Ret, D
          <6> QED  BY <1>13, <5>4, <5>5, <5>6
        <5>8. Skriva(K, q, D, x, W)  BY <3>1, <3>2, <5>7 DEF Skriva
        <5> QED  BY <1>12, <5>8
      <4> QED  BY <4>3, <4>4
    <3> QED  BY <3>1, <3>2, <3>3, <3>4, <3>5 DEF Skriva
  <2>2. Zapis \subseteq T
    <3> HIDE DEF T
    <3> QED  BY <2>1, PoOsloncima
  <2>3. r \in Zapis  BY <1>15, OsTip
  <2> QED  BY <1>15, <2>2, <2>3
<1>16. NistaIzgubljeno(K, q, D)
  <2> SUFFICES ASSUME NEW y \in Zapis, q[y] = Nema, Ziva(Zadnja(K, y))
               PROVE  y \in D \/ Os(y) \cap W # {}
    BY DEF NistaIzgubljeno, W
  <2>1. y # z /\ p[y] = Nema  BY <1>7
  <2>2. y \in C \/ Os(y) \cap V # {}  BY <2>1 DEF Drzi, NistaIzgubljeno, V
  <2>3. CASE y \in C  BY <2>1, <2>3
  <2>4. CASE Os(y) \cap V # {}
    <3>1. PICK r \in Os(y) : r \in V  BY <2>4
    <3>2. CASE q[r] = Nema  BY <1>15, <3>1, <3>2
    <3>3. CASE q[r] # Nema
      <4>1. Os(y) \cap Ret # {}
        <5>1. r \in Ret  BY <1>14, <3>1, <3>3
        <5> HIDE DEF Ret
        <5> QED  BY <3>1, <5>1
      <4> HIDE DEF Ret, D
      <4> QED  BY <1>13, <4>1
    <3> QED  BY <3>2, <3>3
  <2> QED  BY <2>2, <2>3, <2>4
<1>17. RedZadnji(K, q, D)
  <2> SUFFICES ASSUME NEW y \in Zapis, q[y] # Nema  PROVE y \in D \/ q[y] = Zadnja(K, y)
    BY DEF RedZadnji
  <2>1. CASE y = z  BY <1>2, <1>5, <2>1
  <2>2. CASE y # z /\ p[y] # Nema
    <3>1. q[y] = p[y]  BY <1>2, <1>5, <2>2
    <3>2. y \in C \/ p[y] = Zadnja(K, y)  BY <2>2 DEF Drzi, RedZadnji
    <3> QED  BY <2>2, <3>1, <3>2
  <2>3. CASE y # z /\ p[y] = Nema
    <3>1. red[y] = Nema  BY <1>2, <2>3
    <3> QED  BY <1>3, <3>1
  <2> QED  BY <2>1, <2>2, <2>3
<1>18. Drzi(K, q, D)  BY <1>4, <1>16, <1>17 DEF Drzi
<1> QED  BY <1>8, <1>18 DEF q

\* More records to be tried again excuse more.
LEMMA DrziVise ==
    ASSUME NEW K, NEW p, NEW C, NEW D, Drzi(K, p, C), C \subseteq D
    PROVE  Drzi(K, p, D)
<1> DEFINE V == Vracaju(K, p, C)
           W == Vracaju(K, p, D)
<1>1. V \subseteq W
  <2> SUFFICES ASSUME NEW r \in Zapis, Skriva(K, p, C, r, W)  PROVE r \in W
    BY VracajuOstaju
  <2>1. Skriva(K, p, D, r, W)  BY DEF Skriva
  <2> QED  BY <2>1, VracajuZatvoren
<1> HIDE DEF V, W
<1>2. \A z \in Zapis : Os(z) \cap V # {} => Os(z) \cap W # {}  BY <1>1
<1>3. NistaIzgubljeno(K, p, D)
  <2> SUFFICES ASSUME NEW z \in Zapis, p[z] = Nema, Ziva(Zadnja(K, z))
               PROVE  z \in D \/ Os(z) \cap W # {}
    BY DEF NistaIzgubljeno, W
  <2>1. z \in C \/ Os(z) \cap V # {}  BY DEF Drzi, NistaIzgubljeno, V
  <2> QED  BY <1>2, <2>1
<1> QED  BY <1>3 DEF Drzi, RedZadnji

\* The transaction of a packet, with the records C to be tried again before it.
UTijeku(K, C) ==
    {s \in Stanja : /\ Drzi(K, s.p, (C \cup s.ceka) \ s.proslo)
                    /\ Prosli(K, s.p, s.proslo)}

LEMMA PrimijeniUTijeku ==
    ASSUME JedanOslonac, NEW K \in Jednolike, NEW C, NEW s \in UTijeku(K, C),
           NEW v \in K, v = Zadnja(K, v.zapis)
    PROVE  /\ PrimijeniVerziju(K, s, v) \in UTijeku(K, C)
           /\ v.zapis \in PrimijeniVerziju(K, s, v).proslo \cup PrimijeniVerziju(K, s, v).palo
           /\ s.proslo \subseteq PrimijeniVerziju(K, s, v).proslo
           /\ s.palo \subseteq PrimijeniVerziju(K, s, v).palo
<1> DEFINE z == v.zapis
           p == s.p
           A == (C \cup s.ceka) \ s.proslo
           red == [p EXCEPT ![z] = v]
           d == VratiDjecu(K, red, z)
           t == PrimijeniVerziju(K, s, v)
<1>1. /\ K \in SUBSET Verzija /\ v \in Verzija /\ z \in Zapis /\ v # Nema
      /\ s \in Stanja /\ p \in Redovi /\ s.proslo \in SUBSET Zapis
      /\ Drzi(K, p, A) /\ Prosli(K, p, s.proslo)
  BY PovrsinaPretpostavka DEF Jednolike, Knjige, Verzija, UTijeku, Stanja
<1>2. t \in Stanja  BY <1>1, PrimijeniTip
<1>3. v = Zadnja(K, z) /\ v.oslonci = Os(z)  BY DEF Jednolike
<1>4. \/ t.p = p /\ t.ceka = s.ceka /\ t.proslo = s.proslo /\ t.palo = s.palo \cup {z}
      \/ /\ t.proslo = s.proslo \cup {z} /\ t.palo = s.palo
         /\ \/ ~v.ziva /\ t.p = MakniSDjecom(p, z) /\ t.ceka = s.ceka
            \/ v.ziva /\ RoditeljObrisan(K, p, v) /\ t.p = p /\ t.ceka = s.ceka
            \/ /\ v.ziva /\ v.oslonci \subseteq NaPovrsini(p) /\ ~ImaSpomenik(K, z)
               /\ t.p = red /\ t.ceka = s.ceka
            \/ /\ v.ziva /\ v.oslonci \subseteq NaPovrsini(p)
               /\ t.p = d.p /\ t.ceka = s.ceka \cup d.ceka
  <2> HIDE DEF red, d, z
  <2> QED  BY <1>1 DEF PrimijeniVerziju, Stanja, z, red, d
<1>5. red = SRedom(K, p, z)  BY <1>3 DEF SRedom
<1> HIDE DEF red, d, z, t, A, p
<1>6. CASE t.p = p /\ t.ceka = s.ceka /\ t.proslo = s.proslo /\ t.palo = s.palo \cup {z}
  <2>1. t \in UTijeku(K, C)  BY <1>1, <1>2, <1>6 DEF UTijeku, A
  <2> QED  BY <1>6, <2>1 DEF t, z
<1>7. CASE /\ t.proslo = s.proslo \cup {z} /\ t.palo = s.palo
           /\ \/ ~v.ziva /\ t.p = MakniSDjecom(p, z) /\ t.ceka = s.ceka
              \/ v.ziva /\ RoditeljObrisan(K, p, v) /\ t.p = p /\ t.ceka = s.ceka
              \/ /\ v.ziva /\ v.oslonci \subseteq NaPovrsini(p) /\ ~ImaSpomenik(K, z)
                 /\ t.p = red /\ t.ceka = s.ceka
              \/ /\ v.ziva /\ v.oslonci \subseteq NaPovrsini(p)
                 /\ t.p = d.p /\ t.ceka = s.ceka \cup d.ceka
  <2> DEFINE B == (C \cup t.ceka) \ t.proslo
  <2>1. t.ceka = s.ceka => B = A \ {z}  BY <1>7 DEF A
  <2>2. Drzi(K, t.p, B) /\ Prosli(K, t.p, s.proslo \cup {z})
    <3> HIDE DEF B
    <3>1. CASE ~v.ziva /\ t.p = MakniSDjecom(p, z) /\ t.ceka = s.ceka
      <4>1. Obrisana(K, z)  BY <1>1, <1>3, <3>1 DEF Obrisana
      <4>2. Drzi(K, MakniSDjecom(p, z), A \ {z}) /\ Prosli(K, MakniSDjecom(p, z), s.proslo \cup {z})
        BY <1>1, <4>1, DrziObrisana
      <4> QED  BY <2>1, <3>1, <4>2
    <3>2. CASE v.ziva /\ RoditeljObrisan(K, p, v) /\ t.p = p /\ t.ceka = s.ceka
      <4>1. Os(z) \cap Obrisani(K, p) # {}  BY <1>3, <3>2 DEF RoditeljObrisan
      <4> QED  BY <1>1, <2>1, <3>2, <4>1, DrziRoditelj
    <3>3. CASE /\ v.ziva /\ v.oslonci \subseteq NaPovrsini(p) /\ ~ImaSpomenik(K, z)
               /\ t.p = red /\ t.ceka = s.ceka
      <4>1. Ziva(Zadnja(K, z)) /\ Os(z) \subseteq NaPovrsini(p)  BY <1>1, <1>3, <3>3 DEF Ziva
      <4>2. Drzi(K, red, A \ {z}) /\ Prosli(K, red, s.proslo \cup {z})
        BY <1>1, <1>5, <3>3, <4>1, DrziRed
      <4> QED  BY <2>1, <3>3, <4>2
    <3>4. CASE /\ v.ziva /\ v.oslonci \subseteq NaPovrsini(p)
               /\ t.p = d.p /\ t.ceka = s.ceka \cup d.ceka
      <4>1. Ziva(Zadnja(K, z)) /\ Os(z) \subseteq NaPovrsini(p)  BY <1>1, <1>3, <3>4 DEF Ziva
      <4>2. B = (A \ {z}) \cup (d.ceka \ (s.proslo \cup {z}))  BY <1>7, <3>4 DEF A, B
      <4>3. d = VratiDjecu(K, red, z)  BY DEF d
      <4>4. /\ Drzi(K, d.p, (A \ {z}) \cup (d.ceka \ (s.proslo \cup {z})))
            /\ Prosli(K, d.p, s.proslo \cup {z})
        BY <1>1, <1>5, <4>1, <4>3, DrziDjeca
      <4> QED  BY <3>4, <4>2, <4>4
    <3> QED  BY <1>7, <3>1, <3>2, <3>3, <3>4
  <2>3. t \in UTijeku(K, C)  BY <1>2, <1>7, <2>2 DEF UTijeku
  <2> QED  BY <1>7, <2>3 DEF t, z
<1> QED  BY <1>4, <1>6, <1>7

LEMMA ProlazUTijeku ==
    ASSUME JedanOslonac, NEW K \in Jednolike, NEW C \in SUBSET Zapis, NEW s \in UTijeku(K, C),
           NEW V \in SUBSET K,
           \A z \in C : z \in s.proslo \/ Zadnja(K, z) \in V
    PROVE  /\ Prolaz(K, s, V) \in UTijeku(K, C)
           /\ C \subseteq Prolaz(K, s, V).proslo \cup Prolaz(K, s, V).palo
<1> DEFINE N == ZadnjaVerzija
           Na(i) == {t \in UTijeku(K, C) :
                       \A z \in C : \/ z \in t.proslo \/ z \in t.palo
                                    \/ Zadnja(K, z) \in V /\ Zadnja(K, z).oznaka > i}
           X == [i \in 0 .. N |-> Na(i)]
           b == [s EXCEPT !.palo = {}]
<1>1. /\ K \in SUBSET Verzija /\ V \in SUBSET Verzija /\ s \in Stanja /\ N \in Nat
      /\ \A w \in K : w.oznaka \in 1 .. N
  BY PovrsinaPretpostavka DEF Jednolike, Knjige, UTijeku, Verzija, Oznake
<1>2. b \in Na(0)
  <2>1. b \in Stanja /\ b.p = s.p /\ b.ceka = s.ceka /\ b.proslo = s.proslo
    BY <1>1 DEF Stanja
  <2> HIDE DEF b
  <2>2. b \in UTijeku(K, C)  BY <2>1 DEF UTijeku
  <2>3. \A z \in C : z \in b.proslo \/ (Zadnja(K, z) \in V /\ Zadnja(K, z).oznaka > 0)
    BY <1>1, <2>1
  <2> QED  BY <2>2, <2>3
<1>3. ASSUME NEW i \in 1 .. N, NEW t \in Na(i - 1), NemaOznake(K, V, i)  PROVE t \in Na(i)
  <2> SUFFICES ASSUME NEW z \in C, z \notin t.proslo, z \notin t.palo
               PROVE  Zadnja(K, z) \in V /\ Zadnja(K, z).oznaka > i
    OBVIOUS
  <2>1. Zadnja(K, z) \in V /\ Zadnja(K, z).oznaka > i - 1  OBVIOUS
  <2>2. Zadnja(K, z).zapis = z
    <3>1. Zadnja(K, z) # Nema  BY <1>1, <2>1, PovrsinaPretpostavka
    <3> QED  BY <3>1, ZadnjaJednolike
  <2>3. Zadnja(K, z).oznaka # i  BY <2>1, <2>2, <1>3 DEF NemaOznake
  <2>4. Zadnja(K, z).oznaka \in Nat  BY <1>1, <2>1
  <2> QED  BY <2>1, <2>3, <2>4
<1>4. ASSUME NEW i \in 1 .. N, NEW t \in Na(i - 1), NEW w, JeOznaka(K, V, i, w)
      PROVE  PrimijeniVerziju(K, t, w) \in Na(i)
  <2> DEFINE u == PrimijeniVerziju(K, t, w)
  <2>1. w \in K /\ w = Zadnja(K, w.zapis) /\ w.oznaka = i  BY <1>4 DEF JeOznaka
  <2>2. t \in UTijeku(K, C)  OBVIOUS
  <2>3. /\ u \in UTijeku(K, C) /\ w.zapis \in u.proslo \cup u.palo
        /\ t.proslo \subseteq u.proslo /\ t.palo \subseteq u.palo
    BY <2>1, <2>2, PrimijeniUTijeku
  <2> HIDE DEF u
  <2>4. ASSUME NEW z \in C, z \notin u.proslo, z \notin u.palo
        PROVE  Zadnja(K, z) \in V /\ Zadnja(K, z).oznaka > i
    <3>1. Zadnja(K, z) \in V /\ Zadnja(K, z).oznaka > i - 1  BY <2>3, <2>4
    <3>2. Zadnja(K, z).zapis = z
      <4>1. Zadnja(K, z) # Nema  BY <1>1, <3>1, PovrsinaPretpostavka
      <4> QED  BY <4>1, ZadnjaJednolike
    <3>3. Zadnja(K, z).oznaka # i
      <4> SUFFICES ASSUME Zadnja(K, z).oznaka = i  PROVE FALSE
        OBVIOUS
      <4>1. Zadnja(K, z) = w  BY <2>1, <3>1 DEF Jednolike, Knjige
      <4> QED  BY <2>3, <2>4, <3>2, <4>1
    <3>4. Zadnja(K, z).oznaka \in Nat  BY <1>1, <3>1
    <3> QED  BY <3>1, <3>3, <3>4
  <2> QED  BY <2>3, <2>4 DEF u
<1>5. \A i : Na(i) \in SUBSET Stanja  BY DEF UTijeku
<1>6. Prolaz(K, s, V) \in Na(N)
  <2> HIDE DEF Na, b, N
  <2>1. X \in [0 .. N -> SUBSET Stanja]  BY <1>5
  <2>2. \A i \in 0 .. N : X[i] = Na(i)  OBVIOUS
  <2>3. 0 \in 0 .. N /\ N \in 0 .. N /\ \A i \in 1 .. N : i \in 0 .. N /\ i - 1 \in 0 .. N
    BY <1>1
  <2>4. b \in X[0]  BY <1>2, <2>2, <2>3
  <2> HIDE DEF X
  <2>5. \A i \in 1 .. N : \A t \in X[i - 1] :
          /\ NemaOznake(K, V, i) => t \in X[i]
          /\ \A w : JeOznaka(K, V, i, w) => PrimijeniVerziju(K, t, w) \in X[i]
    BY <1>3, <1>4, <2>2, <2>3
  <2>6. Prolaz(K, s, V) \in X[N]  BY <1>1, <2>1, <2>4, <2>5, ProlazOcuva DEF N, b
  <2> QED  BY <2>2, <2>3, <2>6
<1>7. \A z \in C : ~(Zadnja(K, z) \in V /\ Zadnja(K, z).oznaka > N)
  <2> SUFFICES ASSUME NEW z \in C, Zadnja(K, z) \in V, Zadnja(K, z).oznaka > N  PROVE FALSE
    OBVIOUS
  <2>1. Zadnja(K, z).oznaka \in 1 .. N  BY <1>1
  <2> QED  BY <1>1, <2>1
<1> QED  BY <1>6, <1>7

\* A packet's transaction keeps the promise, for what it then leaves to be tried
\* again.
LEMMA ProlaziUTijeku ==
    ASSUME JedanOslonac, NEW K \in Jednolike, NEW p \in Redovi, NEW C \in SUBSET Zapis,
           Drzi(K, p, C), NEW V \in SUBSET K, \A z \in C : Zadnja(K, z) \in V,
           NEW s, s = Prolazi(K, p, V)
    PROVE  Drzi(K, s.p, ((C \cup s.ceka) \ s.proslo) \cup s.palo)
           /\ C \subseteq s.proslo \cup s.palo
<1> DEFINE X == {t \in UTijeku(K, C) : C \subseteq t.proslo \cup t.palo}
<1>1. K \in SUBSET Verzija /\ V \in SUBSET Verzija /\ X \in SUBSET Stanja
  BY DEF Jednolike, Knjige, UTijeku
<1>2. \A z \in C : Zadnja(K, z) \in V /\ Zadnja(K, z).zapis = z
  <2> SUFFICES ASSUME NEW z \in C  PROVE Zadnja(K, z).zapis = z
    OBVIOUS
  <2>1. Zadnja(K, z) # Nema  BY <1>1, PovrsinaPretpostavka
  <2> QED  BY <2>1, ZadnjaJednolike
<1>3. PrviKorak(p, V) \in X
  <2> DEFINE b == PrviKorak(p, V)
  <2>1. b \in Stanja /\ b.p = p /\ b.ceka = {} /\ b.proslo = {} /\ b.palo = {v.zapis : v \in V}
    BY <1>1 DEF PrviKorak, Stanja, Verzija
  <2> HIDE DEF b
  <2>2. (C \cup b.ceka) \ b.proslo = C  BY <2>1
  <2>3. Prosli(K, p, {})  BY DEF Prosli
  <2>4. b \in UTijeku(K, C)  BY <2>1, <2>2, <2>3 DEF UTijeku
  <2>5. C \subseteq b.palo  BY <1>2, <2>1
  <2>6. b \in X  BY <2>4, <2>5
  <2> QED  BY <2>6 DEF b
<1>4. ASSUME NEW t \in X  PROVE Ponovo(K, V, t) \in X
  <2> DEFINE U == {v \in V : v.zapis \in t.palo}
  <2>1. U \in SUBSET K /\ t \in UTijeku(K, C)  OBVIOUS
  <2>2. \A z \in C : z \in t.proslo \/ Zadnja(K, z) \in U  BY <1>2
  <2> HIDE DEF U
  <2>3. /\ Prolaz(K, t, U) \in UTijeku(K, C)
        /\ C \subseteq Prolaz(K, t, U).proslo \cup Prolaz(K, t, U).palo
    BY <2>1, <2>2, ProlazUTijeku
  <2> QED  BY <2>3 DEF Ponovo, U
<1> HIDE DEF X
<1>5. s \in X  BY <1>1, <1>3, <1>4, ProlaziOcuva
<1>6. s \in UTijeku(K, C) /\ C \subseteq s.proslo \cup s.palo  BY <1>5 DEF X
<1>7. Drzi(K, s.p, (C \cup s.ceka) \ s.proslo)  BY <1>6 DEF UTijeku
<1>8. (C \cup s.ceka) \ s.proslo \subseteq ((C \cup s.ceka) \ s.proslo) \cup s.palo  OBVIOUS
<1> QED  BY <1>6, <1>7, <1>8, DrziVise

-----------------------------------------------------------------------------
(* The promise along the actions *)

\* The last version of a record in a ledger that grew, when it was there before.
LEMMA ZadnjaIsta ==
    ASSUME NEW K, NEW L \in Knjige, K \subseteq L, NEW y \in Zapis, Zadnja(L, y) \in K \cup {Nema}
    PROVE  Zadnja(K, y) = Zadnja(L, y)
<1>1. K \in Knjige /\ K \in SUBSET Verzija /\ L \in SUBSET Verzija  BY DEF Knjige
<1>2. CASE Zadnja(L, y) = Nema
  <2>1. \A v \in L : v.zapis # y  BY <1>1, <1>2, ZadnjaCita
  <2>2. Zadnja(K, y) # Nema => Zadnja(K, y) \in K /\ Zadnja(K, y).zapis = y  BY <1>1, ZadnjaCita
  <2> QED  BY <1>2, <2>1, <2>2
<1>3. CASE Zadnja(L, y) # Nema
  <2> DEFINE v == Zadnja(L, y)
  <2>1. v \in K /\ v.zapis = y  BY <1>1, <1>3, ZadnjaCita
  <2>2. \A w \in L : w.zapis = y => w.oznaka <= v.oznaka  BY <1>1, ZadnjaCita
  <2> HIDE DEF v
  <2>3. Zadnja(K, v.zapis) = v  BY <1>1, <2>1, <2>2, ZadnjaJe
  <2> QED  BY <2>1, <2>3 DEF v
<1> QED  BY <1>2, <1>3

\* The ledger grows, some records are deleted and their rows go, and whatever
\* else has a new last version is to be tried again.
LEMMA DrziKnjiga ==
    ASSUME NEW K \in Jednolike, NEW L \in Jednolike, K \subseteq L,
           NEW p, NEW q, NEW C, NEW D, Drzi(K, p, C), RedoviDrze(L, q),
           \A y \in Zapis : \/ Obrisana(L, y) /\ q[y] = Nema
                            \/ /\ q[y] = p[y] /\ (y \in C => y \in D)
                               /\ Zadnja(L, y) = Zadnja(K, y) \/ y \in D
    PROVE  Drzi(L, q, D)
<1> DEFINE V == Vracaju(K, p, C)
           W == Vracaju(L, q, D)
<1>1. V \subseteq W
  <2> SUFFICES ASSUME NEW z \in Zapis, Skriva(K, p, C, z, W)  PROVE z \in W
    BY VracajuOstaju
  <2>1. /\ p[z] = Nema /\ Zadnja(K, z) # Nema
        /\ \/ ~Zadnja(K, z).ziva
           \/ z \in C /\ ImaSpomenik(K, z)
           \/ Zadnja(K, z).oslonci \cap W # {}
    BY DEF Skriva
  <2> HIDE DEF W
  <2>2. Zadnja(K, z) \in K /\ Zadnja(K, z).zapis = z /\ Zadnja(K, z).oslonci = Os(z)
    BY <2>1, ZadnjaJednolike
  <2>3. Zadnja(L, z) # Nema
    <3>1. z \in ZapisiU(L)  BY <2>2 DEF ZapisiU
    <3> QED  BY <3>1, ZadnjaJednolike
  <2>4. Zadnja(L, z).oslonci = Os(z)  BY <2>3, ZadnjaJednolike
  <2>5. ImaSpomenik(K, z) => ImaSpomenik(L, z)  BY DEF ImaSpomenik
  <2>6. ~Zadnja(K, z).ziva => ImaSpomenik(K, z)  BY <2>2 DEF ImaSpomenik
  <2>7. q[z] = Nema  BY <2>1
  <2>8. \/ ~Zadnja(L, z).ziva
        \/ z \in D /\ ImaSpomenik(L, z)
        \/ Zadnja(L, z).oslonci \cap W # {}
    BY <2>1, <2>2, <2>4, <2>5, <2>6 DEF Obrisana
  <2>9. Skriva(L, q, D, z, W)  BY <2>3, <2>7, <2>8 DEF Skriva
  <2> QED  BY <2>9, VracajuZatvoren DEF W
<1> HIDE DEF V, W
<1>2. \A z \in Zapis : Os(z) \cap V # {} => Os(z) \cap W # {}  BY <1>1
<1>3. NistaIzgubljeno(L, q, D)
  <2> SUFFICES ASSUME NEW z \in Zapis, q[z] = Nema, Ziva(Zadnja(L, z))
               PROVE  z \in D \/ Os(z) \cap W # {}
    BY DEF NistaIzgubljeno, W
  <2>1. /\ q[z] = p[z] /\ (z \in C => z \in D)
        /\ Zadnja(L, z) = Zadnja(K, z) \/ z \in D
    BY DEF Obrisana, Ziva
  <2>2. p[z] = Nema /\ Ziva(Zadnja(K, z)) => z \in C \/ Os(z) \cap V # {}
    BY DEF Drzi, NistaIzgubljeno, V
  <2> QED  BY <1>2, <2>1, <2>2
<1>4. RedZadnji(L, q, D)  BY DEF Drzi, RedZadnji
<1> QED  BY <1>3, <1>4 DEF Drzi

\* When every record is to be tried again nothing else is owed.
LEMMA DrziSve ==
    ASSUME NEW K \in Knjige, NEW p, RedoviDrze(K, p)
    PROVE  Drzi(K, p, ZapisiU(K))
<1>1. RedZadnji(K, p, ZapisiU(K))  BY DEF RedZadnji, RedoviDrze, ZapisiU
<1>2. NistaIzgubljeno(K, p, ZapisiU(K))
  <2>1. K \in SUBSET Verzija  BY DEF Knjige
  <2>2. \A z \in Zapis : Ziva(Zadnja(K, z)) => z \in ZapisiU(K)  BY <2>1, ZivaUKnjizi DEF Ziva
  <2> QED  BY <2>2 DEF NistaIzgubljeno
<1> QED  BY <1>1, <1>2 DEF Drzi

\* The records node n is to try again: those that wait, those whose last version
\* is in the packet, and all of them until the surface is rebuilt.
Duguje(n) ==
    IF faza[n] = "radi"
    THEN nedovrseni[n] \cup {z \in Zapis : Zadnja(knjiga[n], z) \in paket[n]}
    ELSE ZapisiU(knjiga[n])

\* The inductive invariant: Osnova, and the promise for what each node is to try
\* again.
Odrzano == Osnova /\ \A n \in Cvor : Drzi(knjiga[n], povrsina[n], Duguje(n))

LEMMA DioJednolike ==
    ASSUME BezPremjestaja, NEW N \in Knjige, \A v \in N : v.oslonci \in Sadrzaji[v.zapis],
           NEW K \in SUBSET N
    PROVE  K \in Jednolike
<1>1. K \in Knjige  BY DEF Knjige
<1>2. ASSUME NEW v \in K  PROVE v.oslonci = Os(v.zapis)
  <2>1. v.oslonci \in Sadrzaji[v.zapis]  OBVIOUS
  <2>2. v.zapis \in Zapis  BY <1>1 DEF Knjige, Verzija
  <2>3. \A t \in Sadrzaji[v.zapis] : t = v.oslonci  BY <2>1, <2>2 DEF BezPremjestaja
  <2> QED  BY <2>1, <2>3 DEF Os
<1> QED  BY <1>1, <1>2 DEF Jednolike

LEMMA OsnovaJednolike ==
    ASSUME BezPremjestaja, Osnova, NEW n \in Cvor
    PROVE  knjiga[n] \in Jednolike
<1>1. Napisano \in Knjige /\ knjiga[n] \subseteq Napisano  BY OsnovaCvora
<1>2. \A v \in Napisano : v.oslonci \in Sadrzaji[v.zapis]  BY DEF Osnova
<1> QED  BY <1>1, <1>2, DioJednolike

\* What holds of the ledger of n after a step that keeps Osnova.
LEMMA OsnovaPoslije ==
    ASSUME BezPremjestaja, Osnova, Osnova', NEW n \in Cvor
    PROVE  /\ knjiga[n] \in Jednolike /\ knjiga'[n] \in Jednolike
           /\ RedoviDrze(knjiga'[n], povrsina'[n])
<1>1. knjiga'[n] \subseteq Napisano'  BY DEF Napisano
<1>2. Napisano' \in Knjige /\ \A v \in Napisano' : v.oslonci \in Sadrzaji[v.zapis]
  BY DEF Osnova
<1>3. knjiga'[n] \in Jednolike  BY <1>1, <1>2, DioJednolike
<1>4. RedoviDrze(knjiga'[n], povrsina'[n])  BY DEF Osnova
<1> QED  BY <1>3, <1>4, OsnovaJednolike

LEMMA OdrzanoPocetak == BezPremjestaja /\ Init => Odrzano
<1> SUFFICES ASSUME BezPremjestaja, Init  PROVE Odrzano
  OBVIOUS
<1> DEFINE K == PocetnaKnjiga
           p == Slika(K)
<1>1. Osnova  BY OsnovaPocetak
<1>2. ASSUME NEW n \in Cvor  PROVE Drzi(knjiga[n], povrsina[n], Duguje(n))
  <2>1. knjiga[n] = K /\ povrsina[n] = p /\ Duguje(n) = {}  BY DEF Init, Duguje
  <2> HIDE DEF K, p
  <2>2. K \in Jednolike /\ RedoviDrze(K, p)  BY <1>1, <2>1, OsnovaJednolike, OsnovaCvora
  <2>3. /\ K \in SUBSET Verzija
        /\ \A z \in Zapis :
              p[z] = IF /\ Ziva(Zadnja(K, z))
                        /\ \A r \in Zadnja(K, z).oslonci : p[r] # Nema
                     THEN Zadnja(K, z) ELSE Nema
    BY <2>2, SlikaJednako DEF p, Jednolike, Knjige
  <2>4. RedZadnji(K, p, {})  BY <2>3 DEF RedZadnji
  <2> DEFINE W == Vracaju(K, p, {})
             T == {y \in Zapis : p[y] = Nema /\ Zadnja(K, y) # Nema => y \in W}
  <2>5. ASSUME NEW z \in Zapis, p[z] = Nema, Ziva(Zadnja(K, z))
        PROVE  \E r \in Os(z) : r \in Zapis /\ p[r] = Nema /\ Zadnja(K, r) # Nema
    <3>1. Zadnja(K, z) \in K /\ Zadnja(K, z).oslonci = Os(z) /\ Zadnja(K, z).ziva
      BY <2>2, <2>5, ZadnjaJednolike DEF Ziva
    <3>2. PICK r \in Os(z) : p[r] = Nema
      <4>1. Zadnja(K, z) # Nema  BY <2>5 DEF Ziva
      <4>2. \A r \in Os(z) : p[r] # Nema => p[r] # p[z]  BY <2>5
      <4>3. (\A r \in Os(z) : p[r] # Nema) => p[z] = Zadnja(K, z)  BY <2>3, <2>5, <3>1
      <4> QED  BY <2>5, <4>1, <4>3
    <3>3. r \in Zapis  BY OsTip
    <3>4. r \in ZapisiU(K)  BY <3>1, <3>2, PovrsinaPretpostavka DEF K, ZapisiU
    <3>5. Zadnja(K, r) # Nema  BY <2>2, <3>3, <3>4, ZadnjaJednolike
    <3> QED  BY <3>2, <3>3, <3>5
  <2>6. \A z \in Zapis : Os(z) \subseteq T => z \in T
    <3> SUFFICES ASSUME NEW z \in Zapis, Os(z) \subseteq T, p[z] = Nema, Zadnja(K, z) # Nema
                 PROVE  z \in W
      OBVIOUS
    <3>1. Zadnja(K, z).oslonci = Os(z)  BY <2>2, ZadnjaJednolike
    <3>2. CASE ~Zadnja(K, z).ziva
      <4>1. Skriva(K, p, {}, z, W)  BY <3>2 DEF Skriva
      <4> QED  BY <4>1, VracajuZatvoren
    <3>3. CASE Zadnja(K, z).ziva
      <4>1. PICK r \in Os(z) : r \in Zapis /\ p[r] = Nema /\ Zadnja(K, r) # Nema
        BY <2>5, <3>3 DEF Ziva
      <4>2. r \in W  BY <4>1
      <4>3. Skriva(K, p, {}, z, W)  BY <3>1, <4>1, <4>2 DEF Skriva
      <4> QED  BY <4>3, VracajuZatvoren
    <3> QED  BY <3>2, <3>3
  <2>7. Zapis \subseteq T
    <3> HIDE DEF T
    <3> QED  BY <2>6, PoOsloncima
  <2>8. NistaIzgubljeno(K, p, {})  BY <2>5, <2>7 DEF NistaIzgubljeno
  <2> QED  BY <2>1, <2>2, <2>4, <2>8 DEF Drzi
<1> QED  BY <1>1, <1>2 DEF Odrzano

\* A node whose ledger grew by V of a packet.
LEMMA OdrzanoPrimi ==
    ASSUME BezPremjestaja, Odrzano, Osnova', NEW n \in Cvor, NEW m, NEW V, Primi(n, m, V)
    PROVE  Drzi(knjiga'[n], povrsina'[n], Duguje(n)')
<1> DEFINE K == knjiga[n]
           L == knjiga'[n]
           p == povrsina[n]
           C == Duguje(n)
           D == Duguje(n)'
<1>1. /\ L = K \cup V /\ povrsina'[n] = p /\ nedovrseni'[n] = nedovrseni[n]
      /\ paket[n] = {} /\ paket'[n] = V /\ faza[n] = "radi" /\ faza'[n] = "radi"
  BY DEF Primi, Odrzano, Osnova, TypeOK
<1>2. K \in Jednolike /\ L \in Jednolike /\ RedoviDrze(L, povrsina'[n])
  BY OsnovaPoslije DEF Odrzano
<1>3. RedoviDrze(L, p)  BY <1>1, <1>2
<1>4. /\ C = nedovrseni[n] \cup {z \in Zapis : Zadnja(K, z) \in paket[n]}
      /\ D = nedovrseni[n] \cup {z \in Zapis : Zadnja(L, z) \in V}
  BY <1>1 DEF Duguje
<1>5. Drzi(K, p, C)  BY DEF Odrzano
<1> HIDE DEF K, L, p, C, D
<1>6. ASSUME NEW y \in Zapis  PROVE Zadnja(L, y) = Zadnja(K, y) \/ y \in D
  <2>1. Zadnja(L, y) \in L \cup {Nema}  BY <1>2, ZadnjaCita DEF Jednolike, Knjige
  <2>2. CASE Zadnja(L, y) \in V  BY <1>4, <2>2
  <2>3. CASE Zadnja(L, y) \in K \cup {Nema}
    <3>1. L \in Knjige /\ K \subseteq L  BY <1>1, <1>2 DEF Jednolike
    <3> QED  BY <2>3, <3>1, ZadnjaIsta
  <2> QED  BY <1>1, <2>1, <2>2, <2>3
<1>7. C \subseteq D  BY <1>1, <1>4
<1>8. Drzi(L, p, D)
  <2>1. K \subseteq L  BY <1>1
  <2> QED  BY <1>2, <1>3, <1>5, <1>6, <1>7, <2>1, DrziKnjiga
<1> QED  BY <1>1, <1>8 DEF L, p, D

\* Deletions S of node n: newer than all it has, and their rows go.
Brise(n, S) ==
    /\ knjiga'[n] = knjiga[n] \cup S
    /\ S \in SUBSET Verzija
    /\ \A v \in S : ~v.ziva /\ \A w \in knjiga[n] : w.oznaka < v.oznaka
    /\ \A y \in Zapis : povrsina'[n][y] = IF y \in ZapisiU(S) THEN Nema ELSE povrsina[n][y]
    /\ nedovrseni'[n] = nedovrseni[n] /\ paket'[n] = paket[n]
    /\ faza[n] = "radi" /\ faza'[n] = "radi"

LEMMA OdrzanoBrise ==
    ASSUME BezPremjestaja, Odrzano, Osnova', NEW n \in Cvor, NEW S, Brise(n, S)
    PROVE  Drzi(knjiga'[n], povrsina'[n], Duguje(n)')
<1> DEFINE K == knjiga[n]
           L == knjiga'[n]
           p == povrsina[n]
           q == povrsina'[n]
           C == Duguje(n)
           D == Duguje(n)'
<1>1. /\ L = K \cup S /\ S \in SUBSET Verzija
      /\ \A v \in S : ~v.ziva /\ \A w \in K : w.oznaka < v.oznaka
      /\ \A y \in Zapis : q[y] = IF y \in ZapisiU(S) THEN Nema ELSE p[y]
  BY DEF Brise
<1>2. K \in Jednolike /\ L \in Jednolike /\ RedoviDrze(L, q)
  BY OsnovaPoslije DEF Odrzano
<1>3. /\ C = nedovrseni[n] \cup {z \in Zapis : Zadnja(K, z) \in paket[n]}
      /\ D = nedovrseni[n] \cup {z \in Zapis : Zadnja(L, z) \in paket[n]}
  BY DEF Brise, Duguje
<1>4. Drzi(K, p, C)  BY DEF Odrzano
<1> HIDE DEF K, L, p, q, C, D
<1>5. K \in SUBSET Verzija /\ L \in SUBSET Verzija /\ L \in Knjige /\ K \subseteq L
  BY <1>1, <1>2 DEF Jednolike, Knjige
<1>6. ASSUME NEW y \in Zapis
      PROVE  \/ Obrisana(L, y) /\ q[y] = Nema
             \/ q[y] = p[y] /\ Zadnja(L, y) = Zadnja(K, y)
  <2>1. CASE y \in ZapisiU(S)
    <3>1. PICK v \in S : v.zapis = y  BY <2>1 DEF ZapisiU
    <3>2. /\ Zadnja(L, y) \in L /\ Zadnja(L, y) # Nema /\ v.oznaka <= Zadnja(L, y).oznaka
      BY <1>1, <1>5, <3>1, ZadnjaCita
    <3>3. Zadnja(L, y) \notin K
      <4>1. \A w \in K : w.oznaka < v.oznaka  BY <1>1
      <4>2. v.oznaka \in Nat /\ Zadnja(L, y).oznaka \in Nat
        BY <1>1, <1>5, <3>2, PovrsinaPretpostavka DEF Verzija, Oznake
      <4> QED  BY <3>2, <4>1, <4>2
    <3>4. ~Zadnja(L, y).ziva  BY <1>1, <3>2, <3>3
    <3>5. q[y] = Nema  BY <1>1, <2>1
    <3> QED  BY <3>2, <3>4, <3>5 DEF Obrisana
  <2>2. CASE y \notin ZapisiU(S)
    <3>1. q[y] = p[y]  BY <1>1, <2>2
    <3>2. Zadnja(L, y) # Nema => Zadnja(L, y) \in L /\ Zadnja(L, y).zapis = y
      BY <1>5, ZadnjaCita
    <3>3. Zadnja(L, y) \in K \cup {Nema}  BY <1>1, <2>2, <3>2 DEF ZapisiU
    <3>4. Zadnja(L, y) = Zadnja(K, y)  BY <1>5, <3>3, ZadnjaIsta
    <3> QED  BY <3>1, <3>4
  <2> QED  BY <2>1, <2>2
<1>7. ASSUME NEW y \in Zapis
      PROVE  \/ Obrisana(L, y) /\ q[y] = Nema
             \/ /\ q[y] = p[y] /\ (y \in C => y \in D)
                /\ Zadnja(L, y) = Zadnja(K, y) \/ y \in D
  BY <1>3, <1>6
<1>8. Drzi(L, q, D)  BY <1>2, <1>4, <1>5, <1>7, DrziKnjiga
<1> QED  BY <1>8 DEF L, q, D

LEMMA ObrisiBrise ==
    ASSUME Osnova, NEW n \in Cvor, NEW z \in Zapis, Obrisi(n, z)
    PROVE  \E S : Brise(n, S)
<1> DEFINE p == povrsina[n]
           s == p[z].oslonci
           v == Nova(n, BrojNapisanih + 1, z, FALSE, s)
<1>1. /\ p \in Redovi /\ RedoviDrze(knjiga[n], p) /\ knjiga[n] \subseteq Napisano
  BY OsnovaCvora
<1>2. /\ faza[n] = "radi" /\ z \in NaPovrsini(p) /\ BrojNapisanih < ZadnjaVerzija
      /\ nedovrseni' = nedovrseni /\ paket' = paket /\ faza' = faza
  BY DEF Obrisi
<1>3. s \in Sadrzaji[z]
  <2>1. p[z] \in knjiga[n] /\ p[z].zapis = z  BY <1>1, <1>2 DEF RedoviDrze, NaPovrsini
  <2> QED  BY <1>1, <2>1 DEF Osnova
<1>4. v \in Verzija /\ v.zapis = z /\ ~v.ziva /\ \A w \in Napisano : w.oznaka < v.oznaka
  <2>1. ~v.ziva  BY DEF Nova
  <2> HIDE DEF s
  <2>2. FALSE \in BOOLEAN  OBVIOUS
  <2>3. NovaJe(v, z, s)  BY <1>2, <1>3, <2>2, NovaVerzija, Zenon
  <2> HIDE DEF v
  <2> QED  BY <2>1, <2>3 DEF NovaJe
<1>5. knjiga'[n] = knjiga[n] \cup {v}
  BY DEF Obrisi, Osnova, TypeOK
<1>6. \A y \in Zapis : povrsina'[n][y] = IF y = z THEN Nema ELSE p[y]
  BY DEF Obrisi, Osnova, TypeOK
<1> HIDE DEF v, p
<1>7. ZapisiU({v}) = {z}  BY <1>4 DEF ZapisiU
<1>8. Brise(n, {v})  BY <1>1, <1>2, <1>4, <1>5, <1>6, <1>7 DEF Brise, p
<1> QED  BY <1>8

LEMMA ObrisiSDjecomBrise ==
    ASSUME Osnova, Osnova', NEW n \in Cvor, NEW z \in Zapis, ObrisiSDjecom(n, z)
    PROVE  \E S : Brise(n, S)
<1> DEFINE p == povrsina[n]
           B == BrojNapisanih
           uKnjizi == {d \in Zapis \ NaPovrsini(p) :
                          LET v == Zadnja(knjiga[n], d) IN Ziva(v) /\ z \in v.oslonci}
           brisu == Djeca(p, z) \cup uKnjizi
           k == Cardinality(brisu)
           sadrzaj(d) == IF d \in NaPovrsini(p) THEN p[d].oslonci ELSE Zadnja(knjiga[n], d).oslonci
           q == [y \in Zapis |-> IF y \in brisu \cup {z} THEN Nema ELSE p[y]]
<1>1. /\ knjiga[n] \in SUBSET Verzija /\ knjiga[n] \subseteq Napisano
      /\ Napisano \in Knjige /\ \A v \in Napisano : v.oznaka <= B
  BY OsnovaCvora DEF BrojNapisanih
<1>2. /\ faza[n] = "radi" /\ z \in NaPovrsini(p)
      /\ nedovrseni' = nedovrseni /\ paket' = paket /\ faza' = faza
      /\ povrsina' = [povrsina EXCEPT ![n] = q]
  BY DEF ObrisiSDjecom
<1>3. PICK red \in [brisu -> 1 .. k] :
         knjiga' = [knjiga EXCEPT ![n] = @ \cup
              {Nova(n, B + red[d], d, FALSE, sadrzaj(d)) : d \in brisu}
              \cup {Nova(n, B + k + 1, z, FALSE, sadrzaj(z))}]
  BY DEF ObrisiSDjecom
<1> DEFINE nova(d) == Nova(n, B + red[d], d, FALSE, sadrzaj(d))
           nz == Nova(n, B + k + 1, z, FALSE, sadrzaj(z))
           S == {nova(d) : d \in brisu} \cup {nz}
<1>4. brisu \in SUBSET Zapis /\ k \in Nat /\ B \in Nat
  <2>1. brisu \in SUBSET Zapis  BY DEF Djeca, NaPovrsini
  <2>2. IsFiniteSet(Napisano)  BY <1>1, VerzijaKonacna, FS_Subset DEF Knjige
  <2> HIDE DEF brisu
  <2> QED  BY <2>1, <2>2, PovrsinaPretpostavka, FS_Subset, FS_CardinalityType DEF BrojNapisanih
<1>5. /\ \A d \in brisu : nova(d).zapis = d /\ ~nova(d).ziva /\ nova(d).oznaka = B + red[d]
      /\ nz.zapis = z /\ ~nz.ziva /\ nz.oznaka = B + k + 1
  BY DEF Nova
<1>6. \A d \in brisu : red[d] \in 1 .. k  BY <1>3
<1>7. knjiga'[n] = knjiga[n] \cup S
  <2> DEFINE A == {nova(d) : d \in brisu}
             N == {nz}
  <2>1. knjiga' = [knjiga EXCEPT ![n] = (@ \cup A) \cup N]  BY <1>3
  <2>2. S = A \cup N  OBVIOUS
  <2>3. knjiga \in [Cvor -> SUBSET Verzija]  BY DEF Osnova, TypeOK
  <2> HIDE DEF S, A, N
  <2>4. knjiga'[n] = (knjiga[n] \cup A) \cup N  BY <2>1, <2>3
  <2> QED  BY <2>2, <2>4
<1>8. \A y \in Zapis : povrsina'[n][y] = IF y \in brisu \cup {z} THEN Nema ELSE p[y]
  <2>1. povrsina'[n] = q  BY <1>2 DEF Osnova, TypeOK
  <2> HIDE DEF brisu, p
  <2> QED  BY <2>1
<1>9. S \in SUBSET Verzija
  <2>1. knjiga'[n] \in SUBSET Verzija  BY DEF Osnova, TypeOK
  <2> QED  BY <1>7, <2>1
<1> HIDE DEF brisu, k, B, nova, nz
<1>10. ZapisiU(S) = brisu \cup {z}
  <2>1. ZapisiU(S) \subseteq brisu \cup {z}  BY <1>5 DEF ZapisiU
  <2>2. \A d \in brisu : \E v \in S : v.zapis = d  BY <1>5
  <2>3. \E v \in S : v.zapis = z  BY <1>5
  <2> HIDE DEF S
  <2> QED  BY <2>1, <2>2, <2>3 DEF ZapisiU
<1>11. ASSUME NEW v \in S  PROVE ~v.ziva /\ \A w \in knjiga[n] : w.oznaka < v.oznaka
  <2>1. ~v.ziva /\ v.oznaka \in Nat /\ v.oznaka > B
    <3>1. CASE v = nz  BY <1>4, <1>5, <3>1
    <3>2. CASE v # nz
      <4>1. PICK d \in brisu : v = nova(d)  BY <3>2
      <4>2. red[d] \in 1 .. k  BY <1>6
      <4> QED  BY <1>4, <1>5, <4>1, <4>2
    <3> QED  BY <3>1, <3>2
  <2>2. ASSUME NEW w \in knjiga[n]  PROVE w.oznaka < v.oznaka
    <3>1. w.oznaka <= B  BY <1>1
    <3>2. w.oznaka \in Nat  BY <1>1, PovrsinaPretpostavka DEF Verzija, Oznake
    <3> HIDE DEF S
    <3> QED  BY <1>4, <2>1, <3>1, <3>2
  <2> QED  BY <2>1, <2>2
<1> HIDE DEF S
<1>12. Brise(n, S)  BY <1>2, <1>7, <1>8, <1>9, <1>10, <1>11 DEF Brise
<1> QED  BY <1>12

\* The user's own write: the record first owed, then written as a packet's
\* version would be.
LEMMA OdrzanoUpisi ==
    ASSUME BezPremjestaja, JedanOslonac, Odrzano, Osnova',
           NEW n \in Cvor, NEW z \in Zapis, NEW s \in Sadrzaji[z], Upisi(n, z, s)
    PROVE  Drzi(knjiga'[n], povrsina'[n], Duguje(n)')
<1> DEFINE v == Nova(n, BrojNapisanih + 1, z, TRUE, s)
           K == knjiga[n]
           L == K \cup {v}
           p == povrsina[n]
           C == Duguje(n)
           D == Duguje(n)'
           B == C \cup {z}
           red == [p EXCEPT ![z] = v]
           d == VratiDjecu(L, red, z)
<1>1. /\ v \in Verzija /\ v.zapis = z /\ v.ziva /\ v.oslonci = s
      /\ L \in Knjige /\ v \in L /\ Zadnja(L, z) = v /\ RedoviDrze(L, red)
  BY UpisZadnji DEF Odrzano
<1>2. /\ knjiga'[n] = L /\ s \subseteq NaPovrsini(p)
      /\ \/ ~ImaSpomenik(K, z) /\ povrsina'[n] = red /\ nedovrseni'[n] = nedovrseni[n]
         \/ povrsina'[n] = d.p /\ nedovrseni'[n] = nedovrseni[n] \cup d.ceka
      /\ paket'[n] = paket[n] /\ faza[n] = "radi" /\ faza'[n] = "radi"
  <2>1. TypeOK  BY DEF Odrzano, Osnova
  <2>2. /\ knjiga' = [knjiga EXCEPT ![n] = @ \cup {v}]
        /\ \/ /\ ~ImaSpomenik(K, z) /\ povrsina' = [povrsina EXCEPT ![n] = red]
              /\ nedovrseni' = nedovrseni
           \/ /\ povrsina' = [povrsina EXCEPT ![n] = d.p]
              /\ nedovrseni' = [nedovrseni EXCEPT ![n] = @ \cup d.ceka]
    BY DEF Upisi
  <2>3. s \subseteq NaPovrsini(p) /\ paket' = paket /\ faza' = faza /\ faza[n] = "radi"
    BY DEF Upisi
  <2> HIDE DEF v, red, d
  <2> QED  BY <2>1, <2>2, <2>3 DEF TypeOK
<1>3. K \in Jednolike /\ L \in Jednolike
  <2>1. K \in Jednolike /\ knjiga'[n] \in Jednolike  BY OsnovaPoslije DEF Odrzano
  <2> HIDE DEF L
  <2> QED  BY <1>2, <2>1
<1>4. p \in Redovi /\ RedoviDrze(K, p)  BY OsnovaCvora DEF Odrzano
<1>5. Drzi(K, p, C)  BY DEF Odrzano
<1>6. v # Nema  BY <1>1, PovrsinaPretpostavka
<1>7. /\ C = nedovrseni[n] \cup {y \in Zapis : Zadnja(K, y) \in paket[n]}
      /\ D = nedovrseni'[n] \cup {y \in Zapis : Zadnja(L, y) \in paket[n]}
  <2> HIDE DEF L
  <2> QED  BY <1>2 DEF Duguje
<1>8. ~ImaSpomenik(K, z) => ~ImaSpomenik(L, z)  BY <1>1 DEF ImaSpomenik
<1>9. K \subseteq L /\ L \ K \subseteq {v}  OBVIOUS
<1> HIDE DEF v, K, L, p, C, D, B, red, d
<1>10. ASSUME NEW y \in Zapis, y # z  PROVE Zadnja(L, y) = Zadnja(K, y)
  <2>1. L \in SUBSET Verzija  BY <1>1 DEF Knjige
  <2>2. Zadnja(L, y) # Nema => Zadnja(L, y) \in L /\ Zadnja(L, y).zapis = y
    BY <2>1, ZadnjaCita
  <2>3. Zadnja(L, y) \in K \cup {Nema}  BY <1>1, <1>9, <1>10, <2>2
  <2> QED  BY <1>1, <1>9, <2>3, ZadnjaIsta
<1>11. Drzi(L, p, B)
  <2>1. RedoviDrze(L, p)  BY <1>4, <1>9, RedoviDrzeVise
  <2>2. \A y \in Zapis : \/ Obrisana(L, y) /\ p[y] = Nema
                         \/ /\ p[y] = p[y] /\ (y \in C => y \in B)
                            /\ Zadnja(L, y) = Zadnja(K, y) \/ y \in B
    BY <1>10 DEF B
  <2> QED  BY <1>3, <1>5, <1>9, <2>1, <2>2, DrziKnjiga
<1>12. Ziva(Zadnja(L, z)) /\ Os(z) \subseteq NaPovrsini(p)
  <2>1. Os(z) = s  BY <1>1, <1>3 DEF Jednolike
  <2> QED  BY <1>1, <1>2, <1>6, <2>1 DEF Ziva
<1>13. red = SRedom(L, p, z)  BY <1>1 DEF SRedom, red
<1>14. Prosli(L, p, {}) /\ {} \in SUBSET Zapis  BY DEF Prosli
<1>15. B \ {z} \subseteq D \/ z \in D
  BY <1>2, <1>7, <1>10 DEF B
<1>16. B \ {z} \subseteq D
  <2> SUFFICES ASSUME NEW y \in C, y # z  PROVE y \in D
    BY DEF B
  <2>1. CASE y \in nedovrseni[n]  BY <1>2, <1>7, <2>1
  <2>2. CASE y \notin nedovrseni[n]
    <3>1. y \in Zapis /\ Zadnja(K, y) \in paket[n]  BY <1>7, <2>2
    <3>2. Zadnja(L, y) = Zadnja(K, y)  BY <1>10, <3>1
    <3> QED  BY <1>7, <3>1, <3>2
  <2> QED  BY <2>1, <2>2
<1>17. CASE ~ImaSpomenik(K, z) /\ povrsina'[n] = red
  <2>1. Drzi(L, red, B \ {z})
    BY <1>3, <1>4, <1>8, <1>11, <1>12, <1>13, <1>14, <1>17, DrziRed
  <2>2. Drzi(L, red, D)  BY <1>16, <2>1, DrziVise
  <2> QED  BY <1>2, <1>17, <2>2 DEF D
<1>18. CASE povrsina'[n] = d.p /\ nedovrseni'[n] = nedovrseni[n] \cup d.ceka
  <2>1. d = VratiDjecu(L, red, z)  BY DEF d
  <2>2. Drzi(L, d.p, (B \ {z}) \cup (d.ceka \ ({} \cup {z})))
    BY <1>3, <1>4, <1>11, <1>12, <1>13, <1>14, <2>1, DrziDjeca
  <2>3. (B \ {z}) \cup (d.ceka \ ({} \cup {z})) \subseteq D  BY <1>7, <1>16, <1>18
  <2>4. Drzi(L, d.p, D)  BY <2>2, <2>3, DrziVise
  <2> QED  BY <1>2, <1>18, <2>4 DEF D
<1> QED  BY <1>2, <1>17, <1>18

\* Every record node n is to try again is in the transaction that comes, with
\* its last version.
LEMMA DugujeDospjelo ==
    ASSUME Osnova, NEW n \in Cvor, Dospijeva(n)
    PROVE  /\ Duguje(n) \in SUBSET Zapis
           /\ nedovrseni[n] \subseteq Duguje(n)
           /\ \A z \in Duguje(n) : Zadnja(knjiga[n], z) \in Dospjelo(n)
<1> DEFINE K == knjiga[n]
<1>1. /\ K \in SUBSET Verzija /\ K \in Knjige /\ nedovrseni[n] \in SUBSET Zapis
      /\ nedovrseni[n] \subseteq ZapisiU(K)
      /\ paket[n] \in SUBSET Verzija /\ paket[n] \subseteq K
      /\ faza[n] \in {"radi", "ugasen", "obnova"}
      /\ faza[n] # "radi" => nedovrseni[n] = {} /\ paket[n] = {}
  BY OsnovaCvora
<1>2. faza[n] \in {"radi", "obnova"}  BY <1>1 DEF Dospijeva
<1>3. ZapisiU(K) \in SUBSET Zapis  BY <1>1 DEF ZapisiU, Verzija
<1>4. Duguje(n) \in SUBSET Zapis /\ nedovrseni[n] \subseteq Duguje(n)
  BY <1>1, <1>3 DEF Duguje
<1>5. ASSUME NEW z \in Duguje(n)  PROVE Zadnja(K, z) \in Dospjelo(n)
  <2>1. z \in Zapis  BY <1>4
  <2>2. CASE z \in nedovrseni[n]  BY <2>2 DEF Dospjelo, ZaPrimjenu
  <2>3. CASE z \notin nedovrseni[n] /\ faza[n] = "radi"
    <3>1. Zadnja(K, z) \in paket[n]  BY <2>3 DEF Duguje
    <3>2. Zadnja(K, z) # Nema  BY <1>1, <3>1, PovrsinaPretpostavka
    <3>3. Zadnja(K, z).zapis = z /\ \A w \in K : w.zapis = z => w.oznaka <= Zadnja(K, z).oznaka
      BY <1>1, <2>1, <3>2, ZadnjaCita
    <3> QED  BY <1>1, <2>3, <3>1, <3>3 DEF Dospjelo, ZaPrimjenu
  <2>4. CASE z \notin nedovrseni[n] /\ faza[n] = "obnova"
    <3> DEFINE V == {Zadnja(K, y) : y \in {v.zapis : v \in K}}
    <3>1. z \in {v.zapis : v \in K}  BY <2>4 DEF Duguje, ZapisiU
    <3>2. Zadnja(K, z) \in V  BY <3>1
    <3>3. Zadnja(K, z) # Nema /\ Zadnja(K, z).zapis = z
      BY <1>1, <2>1, <3>1, ZadnjaCita
    <3>4. \A w \in V : w \in K
      <4> SUFFICES ASSUME NEW v \in K  PROVE Zadnja(K, v.zapis) \in K
        OBVIOUS
      <4>1. v.zapis \in Zapis  BY <1>1 DEF Verzija
      <4> QED  BY <1>1, <4>1, ZadnjaCita
    <3>5. \A w \in V : w.zapis = z => w.oznaka <= Zadnja(K, z).oznaka
      BY <1>1, <2>1, <3>4, ZadnjaCita
    <3> HIDE DEF V
    <3>6. Zadnja(K, z) \in ZaPrimjenu(n, V)  BY <2>4, <3>2, <3>3, <3>5 DEF ZaPrimjenu
    <3>7. Dospjelo(n) = ZaPrimjenu(n, V)  BY <2>4 DEF Dospjelo, V
    <3> QED  BY <3>6, <3>7
  <2> QED  BY <1>2, <2>2, <2>3, <2>4
<1> QED  BY <1>4, <1>5

LEMMA OdrzanoApply ==
    ASSUME BezPremjestaja, JedanOslonac, Odrzano, NEW n \in Cvor, ApplyVersions(n)
    PROVE  Drzi(knjiga'[n], povrsina'[n], Duguje(n)')
<1> DEFINE K == knjiga[n]
           p == povrsina[n]
           V == Dospjelo(n)
           C == Duguje(n)
           N == nedovrseni[n]
           s == Prolazi(K, p, V)
<1>1. Osnova /\ Drzi(K, p, C)  BY DEF Odrzano
<1>2. K \in Jednolike /\ p \in Redovi /\ V \in SUBSET K
  BY <1>1, OsnovaJednolike, OsnovaCvora, DospjeloUKnjizi
<1>3. C \in SUBSET Zapis /\ N \subseteq C /\ \A z \in C : Zadnja(K, z) \in V
  <2>1. Dospijeva(n)  BY DEF ApplyVersions
  <2> QED  BY <1>1, <2>1, DugujeDospjelo
<1>4. /\ knjiga'[n] = K /\ povrsina'[n] = s.p
      /\ nedovrseni'[n] = ((N \cup s.ceka) \ s.proslo) \cup s.palo
      /\ paket'[n] = {} /\ faza'[n] = "radi"
  BY <1>1 DEF ApplyVersions, Osnova, TypeOK
<1>5. Duguje(n)' = ((N \cup s.ceka) \ s.proslo) \cup s.palo
  <2> HIDE DEF s, N
  <2> QED  BY <1>4 DEF Duguje
<1>6. s = Prolazi(K, p, V)  OBVIOUS
<1> HIDE DEF K, p, V, C, N, s
<1>7. /\ Drzi(K, s.p, ((C \cup s.ceka) \ s.proslo) \cup s.palo)
      /\ C \subseteq s.proslo \cup s.palo
  BY <1>1, <1>2, <1>3, <1>6, ProlaziUTijeku
<1>8. ((C \cup s.ceka) \ s.proslo) \cup s.palo \subseteq Duguje(n)'  BY <1>5, <1>7
<1>9. Drzi(K, s.p, Duguje(n)')  BY <1>7, <1>8, DrziVise
<1> QED  BY <1>4, <1>9

LEMMA OdrzanoZadrzi ==
    ASSUME Odrzano, NEW n \in Cvor, ZadrziNepotvrdjeno(n)
    PROVE  Drzi(knjiga'[n], povrsina'[n], Duguje(n)')
<1>1. Osnova /\ Drzi(knjiga[n], povrsina[n], Duguje(n))  BY DEF Odrzano
<1>2. /\ knjiga'[n] = knjiga[n] /\ povrsina'[n] = povrsina[n] /\ faza'[n] = "radi"
      /\ nedovrseni'[n] = nedovrseni[n] \cup {v.zapis : v \in Dospjelo(n)}
  BY <1>1 DEF ZadrziNepotvrdjeno, Osnova, TypeOK
<1>3. ASSUME NEW z \in Duguje(n)  PROVE z \in Duguje(n)'
  <2>1. Duguje(n) \in SUBSET Zapis /\ Zadnja(knjiga[n], z) \in Dospjelo(n)
    BY <1>1, DugujeDospjelo DEF ZadrziNepotvrdjeno
  <2>2. Dospjelo(n) \subseteq knjiga[n] /\ knjiga[n] \in SUBSET Verzija
    BY <1>1, DospjeloUKnjizi, OsnovaCvora
  <2>3. Zadnja(knjiga[n], z) # Nema  BY <2>1, <2>2, PovrsinaPretpostavka
  <2>4. Zadnja(knjiga[n], z).zapis = z  BY <2>1, <2>2, <2>3, ZadnjaCita
  <2>5. z \in nedovrseni'[n]  BY <1>2, <2>1, <2>4
  <2> QED  BY <1>2, <2>5 DEF Duguje
<1>4. Drzi(knjiga[n], povrsina[n], Duguje(n)')
  <2>1. Duguje(n) \subseteq Duguje(n)'  BY <1>3
  <2> HIDE DEF Duguje
  <2> QED  BY <1>1, <2>1, DrziVise
<1> QED  BY <1>2, <1>4

\* A crash owes everything.
LEMMA OdrzanoGasi ==
    ASSUME Odrzano, NEW n \in Cvor, Ugasi(n) \/ Pokreni(n)
    PROVE  Drzi(knjiga'[n], povrsina'[n], Duguje(n)')
<1>1. knjiga[n] \in Knjige /\ RedoviDrze(knjiga[n], povrsina[n])
  BY OsnovaCvora DEF Odrzano
<1>2. knjiga'[n] = knjiga[n] /\ povrsina'[n] = povrsina[n] /\ faza'[n] # "radi"
  BY DEF Ugasi, Pokreni, Odrzano, Osnova, TypeOK
<1>3. Duguje(n)' = ZapisiU(knjiga[n])  BY <1>2 DEF Duguje
<1>4. Drzi(knjiga[n], povrsina[n], ZapisiU(knjiga[n]))  BY <1>1, DrziSve
<1> QED  BY <1>2, <1>3, <1>4

LEMMA OdrzanoKorak == BezPremjestaja /\ JedanOslonac /\ Odrzano /\ [Next]_vars => Odrzano'
<1> SUFFICES ASSUME BezPremjestaja, JedanOslonac, Odrzano, [Next]_vars  PROVE Odrzano'
  OBVIOUS
<1>1. Osnova /\ TypeOK /\ Osnova'  BY OsnovaKorak DEF Odrzano, Osnova
<1> DEFINE Kraj(k) == Drzi(knjiga'[k], povrsina'[k], Duguje(k)')
<1>2. ASSUME NEW k \in Cvor, knjiga'[k] = knjiga[k], povrsina'[k] = povrsina[k],
             nedovrseni'[k] = nedovrseni[k], paket'[k] = paket[k], faza'[k] = faza[k]
      PROVE  Kraj(k)
  <2>1. Duguje(k)' = Duguje(k)  BY <1>2 DEF Duguje
  <2> HIDE DEF Duguje
  <2> QED  BY <1>2, <2>1 DEF Odrzano
<1>3. ASSUME NEW k \in Cvor, NEW z \in Zapis, Obrisi(k, z) \/ ObrisiSDjecom(k, z)  PROVE Kraj(k)
  <2>1. PICK S : Brise(k, S)  BY <1>1, <1>3, ObrisiBrise, ObrisiSDjecomBrise
  <2> QED  BY <1>1, <2>1, OdrzanoBrise
<1>4. \A k \in Cvor : Pise[k] \subseteq Zapis  BY PovrsinaPretpostavka
<1>5. ASSUME NEW n \in Cvor, NEW k \in Cvor,
             \/ \E z \in Pise[n] : \E s \in Sadrzaji[z] : Upisi(n, z, s)
             \/ \E z \in Pise[n] : Obrisi(n, z)
             \/ \E z \in Pise[n] : ObrisiSDjecom(n, z)
             \/ \E m \in Cvor \ {n} : \E V \in Paketi(n, m) : Primi(n, m, V)
             \/ ApplyVersions(n)
             \/ ZadrziNepotvrdjeno(n)
             \/ Ugasi(n)
             \/ Pokreni(n)
      PROVE  Kraj(k)
  <2>1. CASE k # n
    <3>1. /\ knjiga'[k] = knjiga[k] /\ povrsina'[k] = povrsina[k]
          /\ nedovrseni'[k] = nedovrseni[k] /\ paket'[k] = paket[k] /\ faza'[k] = faza[k]
      <4>1. CASE \E z \in Pise[n] : \E s \in Sadrzaji[z] : Upisi(n, z, s)
        BY <1>1, <2>1, <4>1 DEF Upisi, TypeOK
      <4>2. CASE \E z \in Pise[n] : Obrisi(n, z)
        BY <1>1, <2>1, <4>2 DEF Obrisi, TypeOK
      <4>3. CASE \E z \in Pise[n] : ObrisiSDjecom(n, z)
        <5>1. PICK z \in Pise[n] : ObrisiSDjecom(n, z)  BY <4>3
        <5>2. nedovrseni' = nedovrseni /\ paket' = paket /\ faza' = faza
          BY <5>1 DEF ObrisiSDjecom
        <5>3. \E S, q : /\ knjiga' = [knjiga EXCEPT ![n] = @ \cup S]
                        /\ povrsina' = [povrsina EXCEPT ![n] = q]
          BY <1>1, <1>4, <5>1, OblikBrisanja
        <5> QED  BY <1>1, <2>1, <5>2, <5>3 DEF TypeOK
      <4>4. CASE \E m \in Cvor \ {n} : \E V \in Paketi(n, m) : Primi(n, m, V)
        BY <1>1, <2>1, <4>4 DEF Primi, TypeOK
      <4>5. CASE ApplyVersions(n)
        <5>1. \E q, c : /\ povrsina' = [povrsina EXCEPT ![n] = q]
                        /\ nedovrseni' = [nedovrseni EXCEPT ![n] = c]
          BY <4>5 DEF ApplyVersions
        <5>2. /\ paket' = [paket EXCEPT ![n] = {}] /\ faza' = [faza EXCEPT ![n] = "radi"]
              /\ knjiga' = knjiga
          BY <4>5 DEF ApplyVersions
        <5> QED  BY <1>1, <2>1, <5>1, <5>2 DEF TypeOK
      <4>6. CASE ZadrziNepotvrdjeno(n)
        BY <1>1, <2>1, <4>6 DEF ZadrziNepotvrdjeno, TypeOK
      <4>7. CASE Ugasi(n) \/ Pokreni(n)
        BY <1>1, <2>1, <4>7 DEF Ugasi, Pokreni, TypeOK
      <4> QED  BY <1>5, <4>1, <4>2, <4>3, <4>4, <4>5, <4>6, <4>7
    <3> HIDE DEF Kraj
    <3> QED  BY <1>2, <3>1
  <2>2. CASE k = n
    <3>1. CASE \E z \in Pise[n] : \E s \in Sadrzaji[z] : Upisi(n, z, s)
      BY <1>1, <1>4, <2>2, <3>1, OdrzanoUpisi
    <3>2. CASE \E z \in Pise[n] : Obrisi(n, z) \/ ObrisiSDjecom(n, z)
      <4> HIDE DEF Kraj
      <4> QED  BY <1>3, <1>4, <2>2, <3>2
    <3>3. CASE \E m \in Cvor \ {n} : \E V \in Paketi(n, m) : Primi(n, m, V)
      BY <1>1, <2>2, <3>3, OdrzanoPrimi
    <3>4. CASE ApplyVersions(n)  BY <2>2, <3>4, OdrzanoApply
    <3>5. CASE ZadrziNepotvrdjeno(n)  BY <2>2, <3>5, OdrzanoZadrzi
    <3>6. CASE Ugasi(n) \/ Pokreni(n)  BY <2>2, <3>6, OdrzanoGasi
    <3> HIDE DEF Kraj
    <3> QED  BY <1>5, <3>1, <3>2, <3>3, <3>4, <3>5, <3>6
  <2> HIDE DEF Kraj
  <2> QED  BY <2>1, <2>2
<1>6. CASE UNCHANGED vars
  <2>1. \A k \in Cvor : Kraj(k)
    <3> HIDE DEF Kraj
    <3> QED  BY <1>2, <1>6 DEF vars
  <2> QED  BY <1>1, <2>1 DEF Odrzano
<1>7. CASE Next
  <2>1. PICK n \in Cvor :
           \/ \E z \in Pise[n] : \E s \in Sadrzaji[z] : Upisi(n, z, s)
           \/ \E z \in Pise[n] : Obrisi(n, z)
           \/ \E z \in Pise[n] : ObrisiSDjecom(n, z)
           \/ \E m \in Cvor \ {n} : \E V \in Paketi(n, m) : Primi(n, m, V)
           \/ ApplyVersions(n)
           \/ ZadrziNepotvrdjeno(n)
           \/ Ugasi(n)
           \/ Pokreni(n)
    BY <1>7, Zenon DEF Next
  <2>2. \A k \in Cvor : Kraj(k)
    <3> HIDE DEF Kraj
    <3> QED  BY <1>5, <2>1
  <2> QED  BY <1>1, <2>2 DEF Odrzano
<1> QED  BY <1>6, <1>7

\* What the promise says when nothing is owed but what waits: a row that is not
\* what the ledger says waits, or leans on what waits.
LEMMA SlikaKadDrzi ==
    ASSUME NEW n \in Cvor, knjiga[n] \in Jednolike,
           Drzi(knjiga[n], povrsina[n], nedovrseni[n]), NEW z \in Zapis
    PROVE  povrsina[n][z] # Slika(knjiga[n])[z] => CekaSOsloncima(n, z)
<1> DEFINE K == knjiga[n]
           p == povrsina[n]
           C == nedovrseni[n]
           q == Slika(K)
           Ceka(y) == CekaSOsloncima(n, y)
           T == {y \in Zapis : p[y] = q[y] \/ Ceka(y)}
<1>1. K \in SUBSET Verzija /\ Drzi(K, p, C)  BY DEF Jednolike, Knjige
<1>2. \A y \in Zapis :
         q[y] = IF Ziva(Zadnja(K, y)) /\ \A r \in Zadnja(K, y).oslonci : q[r] # Nema
                THEN Zadnja(K, y) ELSE Nema
  BY <1>1, SlikaJednako
<1>3. \A y \in Zapis :
         /\ y \in C => Ceka(y)
         /\ Ziva(Zadnja(K, y)) /\ (\E r \in Zadnja(K, y).oslonci : Ceka(r)) => Ceka(y)
  BY <1>1, CekaJednako
<1>4. \A y \in Zapis : Zadnja(K, y) # Nema => Zadnja(K, y).oslonci = Os(y)
  BY ZadnjaJednolike
<1> HIDE DEF K, p, C, q, Ceka
<1>5. ASSUME NEW y \in Zapis, Os(y) \subseteq T  PROVE y \in T
  <2> SUFFICES ASSUME ~Ceka(y)  PROVE p[y] = q[y]
    OBVIOUS
  <2>1. y \notin C  BY <1>3
  <2>2. CASE p[y] # Nema
    <3>1. p[y] = Zadnja(K, y) /\ p[y].ziva /\ p[y].oslonci \subseteq NaPovrsini(p)
      BY <1>1, <2>1, <2>2 DEF Drzi, RedZadnji, RedoviDrze
    <3>2. Ziva(Zadnja(K, y)) /\ Zadnja(K, y).oslonci = Os(y)  BY <1>4, <2>2, <3>1 DEF Ziva
    <3>3. \A r \in Os(y) : p[r] # Nema  BY <3>1, <3>2 DEF NaPovrsini
    <3>4. \A r \in Os(y) : ~Ceka(r)  BY <1>3, <3>2
    <3>5. \A r \in Os(y) : q[r] # Nema  BY <1>5, <3>3, <3>4
    <3> QED  BY <1>2, <3>1, <3>2, <3>5
  <2>3. CASE p[y] = Nema /\ ~Ziva(Zadnja(K, y))  BY <1>2, <2>3
  <2>4. CASE p[y] = Nema /\ Ziva(Zadnja(K, y))
    <3>1. Os(y) \cap Vracaju(K, p, C) # {}
      BY <1>1, <2>1, <2>4 DEF Drzi, NistaIzgubljeno
    <3>2. PICK r \in Os(y) : r \in Vracaju(K, p, C)  BY <3>1
    <3>3. r \in Zapis  BY OsTip
    <3>4. p[r] = Nema  BY <3>2, <3>3, VracajuZatvoren DEF Skriva
    <3>5. Zadnja(K, y).oslonci = Os(y)  BY <1>4, <2>4 DEF Ziva
    <3>6. ~Ceka(r)  BY <1>3, <2>4, <3>5
    <3>7. q[r] = Nema  BY <1>5, <3>4, <3>6
    <3> QED  BY <1>2, <2>4, <3>5, <3>7
  <2> QED  BY <2>2, <2>3, <2>4
<1>6. Zapis \subseteq T
  <2> HIDE DEF T
  <2> QED  BY <1>5, PoOsloncima
<1>7. p[z] # q[z] => Ceka(z)  BY <1>6
<1> QED  BY <1>7 DEF p, q, K, Ceka

LEMMA MirnoNeDuguje ==
    ASSUME Odrzano, NEW n \in Cvor, Mirno(n)
    PROVE  Drzi(knjiga[n], povrsina[n], nedovrseni[n])
<1>1. Duguje(n) = nedovrseni[n]  BY DEF Mirno, Duguje
<1> QED  BY <1>1 DEF Odrzano

\* In every reachable state, of any number of nodes and records, whatever came
\* and failed in whatever order: a row of a quiet node differs from what its
\* ledger says only while its record, or one it leans on, is to be tried again
\* (ApplyVersions, primijeniVerziju, vratiDjecu, makniDjecu, ObnoviPovrsinu, the
\* operations on registers).
THEOREM PovrsinaJeSlika ==
    BezPremjestaja /\ JedanOslonac => (Spec => []PovrsinaJeSlikaKnjige)
<1> SUFFICES ASSUME BezPremjestaja, JedanOslonac  PROVE Spec => []PovrsinaJeSlikaKnjige
  OBVIOUS
<1>1. Init => Odrzano  BY OdrzanoPocetak
<1>2. Odrzano /\ [Next]_vars => Odrzano'  BY OdrzanoKorak
<1>3. Odrzano => PovrsinaJeSlikaKnjige
  <2> SUFFICES ASSUME Odrzano, NEW n \in Cvor, Mirno(n), NEW z \in Zapis
               PROVE  povrsina[n][z] # Slika(knjiga[n])[z] => CekaSOsloncima(n, z)
    BY DEF PovrsinaJeSlikaKnjige
  <2>1. knjiga[n] \in Jednolike  BY OsnovaJednolike DEF Odrzano
  <2>2. Drzi(knjiga[n], povrsina[n], nedovrseni[n])  BY MirnoNeDuguje
  <2> QED  BY <2>1, <2>2, SlikaKadDrzi
<1> QED  BY <1>1, <1>2, <1>3, PTL DEF Spec

\* Rule 5 of apply_roditelji.go: two quiet nodes on which nothing waits show the
\* same surface when they have the same ledger.
THEOREM IstaPovrsinaDokazana ==
    BezPremjestaja /\ JedanOslonac => (Spec => []IstaPovrsina)
<1> SUFFICES ASSUME BezPremjestaja, JedanOslonac  PROVE Spec => []IstaPovrsina
  OBVIOUS
<1>1. Init => Odrzano  BY OdrzanoPocetak
<1>2. Odrzano /\ [Next]_vars => Odrzano'  BY OdrzanoKorak
<1>3. ASSUME Odrzano, NEW n \in Cvor, Mirno(n), nedovrseni[n] = {}
      PROVE  povrsina[n] = Slika(knjiga[n])
  <2>1. knjiga[n] \in Jednolike /\ knjiga[n] \in SUBSET Verzija /\ povrsina[n] \in Redovi
    BY <1>3, OsnovaJednolike, OsnovaCvora DEF Odrzano
  <2>2. Drzi(knjiga[n], povrsina[n], nedovrseni[n])  BY <1>3, MirnoNeDuguje
  <2> DEFINE T == {z \in Zapis : ~CekaSOsloncima(n, z)}
  <2>3. ASSUME NEW z \in Zapis, Os(z) \subseteq T  PROVE z \in T
    <3>1. Ziva(Zadnja(knjiga[n], z)) => Zadnja(knjiga[n], z).oslonci = Os(z)
      BY <2>1, ZadnjaJednolike DEF Ziva
    <3> QED  BY <1>3, <2>1, <2>3, <3>1, CekaJednako
  <2>4. Zapis \subseteq T
    <3> HIDE DEF T
    <3> QED  BY <2>3, PoOsloncima
  <2>5. \A z \in Zapis : povrsina[n][z] = Slika(knjiga[n])[z]
    BY <2>1, <2>2, <2>4, SlikaKadDrzi
  <2>6. Slika(knjiga[n]) \in Redovi  BY <2>1, SlikaJednako
  <2> QED  BY <2>1, <2>5, <2>6 DEF Redovi
<1>4. Odrzano => IstaPovrsina
  <2> SUFFICES ASSUME Odrzano, NEW n \in Cvor, NEW m \in Cvor,
                      Mirno(n), nedovrseni[n] = {}, Mirno(m), nedovrseni[m] = {},
                      knjiga[n] = knjiga[m]
               PROVE  povrsina[n] = povrsina[m]
    BY DEF IstaPovrsina
  <2>1. povrsina[n] = Slika(knjiga[n]) /\ povrsina[m] = Slika(knjiga[m])  BY <1>3
  <2> QED  BY <2>1
<1> QED  BY <1>1, <1>2, <1>4, PTL DEF Spec

-----------------------------------------------------------------------------
(* The start: what is still tried again when the passes end does not show *)

\* The last version of z is alive, and something it leans on is not on the
\* surface p.
Zapelo(K, p, z) == Ziva(Zadnja(K, z)) /\ ~(Os(z) \subseteq NaPovrsini(p))

LEMMA PrimijeniZapinje ==
    ASSUME NEW K \in Jednolike, NEW s \in Stanja, NEW v \in K, v = Zadnja(K, v.zapis),
           NEW t, t = PrimijeniVerziju(K, s, v)
    PROVE  /\ t \in Stanja
           /\ \/ t.palo = s.palo \cup {v.zapis} /\ t.p = s.p /\ Zapelo(K, s.p, v.zapis)
              \/ t.palo = s.palo /\ (Zapelo(K, s.p, v.zapis) => t.p = s.p)
<1> DEFINE z == v.zapis
           p == s.p
           red == [p EXCEPT ![z] = v]
           d == VratiDjecu(K, red, z)
<1>1. /\ K \in SUBSET Verzija /\ v \in Verzija /\ v # Nema
      /\ v = Zadnja(K, z) /\ v.oslonci = Os(z)
  BY PovrsinaPretpostavka DEF Jednolike, Knjige
<1>2. t \in Stanja  BY <1>1, PrimijeniTip
<1>3. \/ v.ziva /\ ~(v.oslonci \subseteq NaPovrsini(p)) /\ t.p = p /\ t.palo = s.palo \cup {z}
      \/ /\ t.palo = s.palo
         /\ t.p = p \/ ~v.ziva \/ v.oslonci \subseteq NaPovrsini(p)
  <2> HIDE DEF red, d, z
  <2> QED  BY <1>1 DEF PrimijeniVerziju, Stanja, z, red, d
<1>4. Zapelo(K, p, z) <=> v.ziva /\ ~(v.oslonci \subseteq NaPovrsini(p))
  BY <1>1 DEF Zapelo, Ziva
<1> HIDE DEF p, z
<1>5. \/ t.palo = s.palo \cup {z} /\ t.p = p /\ Zapelo(K, p, z)
      \/ t.palo = s.palo /\ (Zapelo(K, p, z) => t.p = p)
  BY <1>3, <1>4
<1> QED  BY <1>2, <1>5 DEF p, z

\* After a pass over V one of its records got through, or the surface is as it
\* was and what failed lacks something on it.
ProlazZapinje(K, s, V, t) ==
    /\ t \in Stanja /\ t.palo \subseteq ZapisiU(V)
    /\ \/ \E z \in ZapisiU(V) : z \notin t.palo
       \/ t.p = s.p /\ \A z \in t.palo : Zapelo(K, s.p, z)

LEMMA ProlazProlazi ==
    ASSUME NEW K \in Jednolike, NEW s \in Stanja, NEW V \in SUBSET K
    PROVE  ProlazZapinje(K, s, V, Prolaz(K, s, V))
<1> DEFINE N == ZadnjaVerzija
           Na(i) == {t \in Stanja :
                       /\ \A z \in t.palo : z \in ZapisiU(V) /\ Zadnja(K, z).oznaka <= i
                       /\ \/ \E z \in ZapisiU(V) : z \notin t.palo /\ Zadnja(K, z).oznaka <= i
                          \/ t.p = s.p /\ \A z \in t.palo : Zapelo(K, s.p, z)}
           X == [i \in 0 .. N |-> Na(i)]
           b == [s EXCEPT !.palo = {}]
<1>1. /\ K \in SUBSET Verzija /\ V \in SUBSET Verzija /\ N \in Nat
      /\ \A w \in K : w.oznaka \in 1 .. N
  BY PovrsinaPretpostavka DEF Jednolike, Knjige, Verzija, Oznake
<1>2. b \in Na(0)
  <2>1. b \in Stanja /\ b.p = s.p /\ b.palo = {}  BY DEF Stanja
  <2> HIDE DEF b
  <2> QED  BY <2>1
<1>3. \A z \in ZapisiU(V) : Zadnja(K, z).oznaka \in Nat
  <2> SUFFICES ASSUME NEW w \in V  PROVE Zadnja(K, w.zapis).oznaka \in Nat
    BY DEF ZapisiU
  <2>1. w.zapis \in Zapis  BY <1>1 DEF Verzija
  <2>2. Zadnja(K, w.zapis) \in K  BY <1>1, <2>1, ZadnjaCita
  <2> QED  BY <1>1, <2>2
<1>4. ASSUME NEW i \in 1 .. N, NEW t \in Na(i - 1)  PROVE t \in Na(i)
  <2>1. \A z \in ZapisiU(V) : Zadnja(K, z).oznaka <= i - 1 => Zadnja(K, z).oznaka <= i
    BY <1>1, <1>3
  <2> QED  BY <2>1
<1>5. ASSUME NEW i \in 1 .. N, NEW t \in Na(i - 1), NEW w, JeOznaka(K, V, i, w)
      PROVE  PrimijeniVerziju(K, t, w) \in Na(i)
  <2> DEFINE u == PrimijeniVerziju(K, t, w)
             z == w.zapis
  <2>1. w \in K /\ w = Zadnja(K, w.zapis) /\ w.oznaka = i /\ z \in ZapisiU(V)
    BY <1>5 DEF JeOznaka, ZapisiU
  <2>2. t \in Stanja  OBVIOUS
  <2>3. /\ u \in Stanja
        /\ \/ u.palo = t.palo \cup {z} /\ u.p = t.p /\ Zapelo(K, t.p, z)
           \/ u.palo = t.palo /\ (Zapelo(K, t.p, z) => u.p = t.p)
    BY <2>1, <2>2, PrimijeniZapinje
  <2>4. Zadnja(K, z).oznaka = i /\ i \in Nat  BY <2>1
  <2> HIDE DEF u, z
  <2>5. \A y \in t.palo : y \in ZapisiU(V) /\ Zadnja(K, y).oznaka <= i - 1  OBVIOUS
  <2>6. z \notin t.palo  BY <2>4, <2>5
  <2>7. \A y \in u.palo : y \in ZapisiU(V) /\ Zadnja(K, y).oznaka <= i
    <3>1. \A y \in t.palo : Zadnja(K, y).oznaka <= i  BY <1>3, <2>4, <2>5
    <3> QED  BY <2>1, <2>3, <2>4, <2>5, <3>1 DEF z
  <2>8. \/ \E y \in ZapisiU(V) : y \notin u.palo /\ Zadnja(K, y).oznaka <= i
        \/ u.p = s.p /\ \A y \in u.palo : Zapelo(K, s.p, y)
    <3>1. CASE u.palo = t.palo
      <4>1. z \in ZapisiU(V) /\ z \notin u.palo /\ Zadnja(K, z).oznaka <= i
        BY <2>1, <2>4, <2>6, <3>1 DEF z
      <4> QED  BY <4>1
    <3>2. CASE u.palo = t.palo \cup {z} /\ u.p = t.p /\ Zapelo(K, t.p, z)
      <4>1. CASE \E y \in ZapisiU(V) : y \notin t.palo /\ Zadnja(K, y).oznaka <= i - 1
        <5>1. PICK y \in ZapisiU(V) : y \notin t.palo /\ Zadnja(K, y).oznaka <= i - 1  BY <4>1
        <5>2. Zadnja(K, y).oznaka \in Nat  BY <1>3
        <5>3. y # z /\ Zadnja(K, y).oznaka <= i  BY <2>4, <5>1, <5>2
        <5> QED  BY <3>2, <5>1, <5>3
      <4>2. CASE t.p = s.p /\ \A y \in t.palo : Zapelo(K, s.p, y)  BY <3>2, <4>2
      <4> QED  BY <4>1, <4>2
    <3> QED  BY <2>3, <3>1, <3>2
  <2> QED  BY <2>3, <2>7, <2>8 DEF u
<1>6. Prolaz(K, s, V) \in Na(N)
  <2>0. \A i : Na(i) \in SUBSET Stanja  OBVIOUS
  <2> HIDE DEF Na, b, N
  <2>1. X \in [0 .. N -> SUBSET Stanja]  BY <2>0
  <2>2. \A i \in 0 .. N : X[i] = Na(i)  OBVIOUS
  <2>3. 0 \in 0 .. N /\ N \in 0 .. N /\ \A i \in 1 .. N : i \in 0 .. N /\ i - 1 \in 0 .. N
    BY <1>1
  <2>4. b \in X[0]  BY <1>2, <2>2, <2>3
  <2> HIDE DEF X
  <2>5. \A i \in 1 .. N : \A t \in X[i - 1] :
          /\ NemaOznake(K, V, i) => t \in X[i]
          /\ \A w : JeOznaka(K, V, i, w) => PrimijeniVerziju(K, t, w) \in X[i]
    BY <1>4, <1>5, <2>2, <2>3
  <2>6. Prolaz(K, s, V) \in X[N]  BY <1>1, <2>1, <2>4, <2>5, ProlazOcuva DEF N, b
  <2> QED  BY <2>2, <2>3, <2>6
<1> QED  BY <1>6 DEF ProlazZapinje

\* When all of V lacks something on the surface, a pass changes nothing.
LEMMA ProlazStoji ==
    ASSUME NEW K \in Jednolike, NEW s \in Stanja, NEW V \in SUBSET K,
           \A z \in ZapisiU(V) : Zapelo(K, s.p, z)
    PROVE  Prolaz(K, s, V).p = s.p
<1> DEFINE N == ZadnjaVerzija
           T == {t \in Stanja : t.p = s.p}
           X == [i \in 0 .. N |-> T]
           b == [s EXCEPT !.palo = {}]
<1>1. /\ K \in SUBSET Verzija /\ V \in SUBSET Verzija /\ N \in Nat
  BY PovrsinaPretpostavka DEF Jednolike, Knjige
<1>2. b \in T  BY DEF Stanja
<1>3. ASSUME NEW i \in 1 .. N, NEW t \in T, NEW w, JeOznaka(K, V, i, w)
      PROVE  PrimijeniVerziju(K, t, w) \in T
  <2> DEFINE u == PrimijeniVerziju(K, t, w)
  <2>1. w \in K /\ w = Zadnja(K, w.zapis) /\ w.zapis \in ZapisiU(V)
    BY <1>3 DEF JeOznaka, ZapisiU
  <2>2. t \in Stanja /\ t.p = s.p  OBVIOUS
  <2>3. /\ u \in Stanja
        /\ \/ u.palo = t.palo \cup {w.zapis} /\ u.p = t.p /\ Zapelo(K, t.p, w.zapis)
           \/ u.palo = t.palo /\ (Zapelo(K, t.p, w.zapis) => u.p = t.p)
    BY <2>1, <2>2, PrimijeniZapinje
  <2> HIDE DEF u
  <2>4. Zapelo(K, t.p, w.zapis)  BY <2>1, <2>2
  <2> QED  BY <2>2, <2>3, <2>4 DEF u
<1> HIDE DEF N, T
<1>4. T \in SUBSET Stanja  BY DEF T
<1>5. /\ X \in [0 .. N -> SUBSET Stanja] /\ \A i \in 0 .. N : X[i] = T
      /\ 0 \in 0 .. N /\ N \in 0 .. N /\ \A i \in 1 .. N : i \in 0 .. N /\ i - 1 \in 0 .. N
  BY <1>1, <1>4
<1> HIDE DEF X
<1>6. \A i \in 1 .. N : \A t \in X[i - 1] :
        /\ NemaOznake(K, V, i) => t \in X[i]
        /\ \A w : JeOznaka(K, V, i, w) => PrimijeniVerziju(K, t, w) \in X[i]
  BY <1>3, <1>5
<1>7. b \in X[0]  BY <1>2, <1>5
<1>8. Prolaz(K, s, V) \in X[N]  BY <1>1, <1>5, <1>6, <1>7, ProlazOcuva DEF N
<1> QED  BY <1>5, <1>8 DEF T

\* The passes end: each lets something through or changes nothing, and there
\* are as many as there are versions.
LEMMA ProlaziZapinju ==
    ASSUME NEW K \in Jednolike, NEW p \in Redovi, NEW V \in SUBSET K,
           NEW s, s = Prolazi(K, p, V)
    PROVE  \A z \in s.palo : Zapelo(K, s.p, z)
<1> DEFINE N == Cardinality(V)
           Stoji(t) == \A z \in t.palo : Zapelo(K, t.p, z)
           Na(i) == {t \in Stanja : /\ t.palo \subseteq ZapisiU(V)
                                    /\ Stoji(t) \/ Cardinality(t.palo) + i <= N}
           X == [i \in 0 .. N |-> Na(i)]
<1>1. /\ K \in SUBSET Verzija /\ V \in SUBSET Verzija /\ IsFiniteSet(V) /\ N \in Nat
  <2>1. K \in SUBSET Verzija /\ V \in SUBSET Verzija  BY DEF Jednolike, Knjige
  <2> QED  BY <2>1, ProlaziJednako
<1>2. IsFiniteSet(ZapisiU(V)) /\ Cardinality(ZapisiU(V)) <= N /\ Cardinality(ZapisiU(V)) \in Nat
  <2> DEFINE f == [v \in V |-> v.zapis]
  <2>1. f \in Surjection(V, ZapisiU(V))  BY DEF Surjection, ZapisiU
  <2> HIDE DEF f
  <2> QED  BY <1>1, <2>1, FS_Surjection, FS_CardinalityType
<1>3. PrviKorak(p, V) \in Na(0)
  <2> DEFINE b == PrviKorak(p, V)
  <2>1. b \in Stanja /\ b.palo = ZapisiU(V)
    BY <1>1 DEF PrviKorak, Stanja, Verzija, ZapisiU
  <2> HIDE DEF b
  <2>2. Cardinality(b.palo) + 0 <= N  BY <1>1, <1>2, <2>1
  <2>3. b \in Na(0)  BY <2>1, <2>2
  <2> QED  BY <2>3 DEF b
<1>4. ASSUME NEW i \in 1 .. N, NEW t \in Na(i - 1)  PROVE Ponovo(K, V, t) \in Na(i)
  <2> DEFINE U == {v \in V : v.zapis \in t.palo}
             u == Prolaz(K, t, U)
  <2>1. t \in Stanja /\ t.palo \subseteq ZapisiU(V)  OBVIOUS
  <2>2. U \in SUBSET K /\ ZapisiU(U) = t.palo
    <3>1. ZapisiU(U) \subseteq t.palo  BY DEF ZapisiU
    <3>2. t.palo \subseteq ZapisiU(U)  BY <2>1 DEF ZapisiU
    <3> QED  BY <3>1, <3>2
  <2>3. Stoji(t) \/ Cardinality(t.palo) + (i - 1) <= N  OBVIOUS
  <2> HIDE DEF U, N
  <2>4. ProlazZapinje(K, t, U, u)  BY <2>1, <2>2, ProlazProlazi
  <2> HIDE DEF u
  <2>5. /\ u \in Stanja /\ u.palo \subseteq t.palo
        /\ \/ \E z \in t.palo : z \notin u.palo
           \/ u.p = t.p /\ \A z \in u.palo : Zapelo(K, t.p, z)
    BY <2>2, <2>4 DEF ProlazZapinje
  <2>6. CASE Stoji(t)
    <3>1. \A z \in ZapisiU(U) : Zapelo(K, t.p, z)  BY <2>2, <2>6
    <3>2. u.p = t.p  BY <2>1, <2>2, <3>1, ProlazStoji DEF u
    <3>3. Stoji(u)  BY <2>5, <2>6, <3>2
    <3> HIDE DEF Stoji
    <3>4. u \in Na(i)  BY <2>1, <2>5, <3>3
    <3> QED  BY <3>4 DEF Ponovo, u, U
  <2>7. CASE u.p = t.p /\ \A z \in u.palo : Zapelo(K, t.p, z)
    <3>1. Stoji(u)  BY <2>7
    <3> HIDE DEF Stoji
    <3>2. u \in Na(i)  BY <2>1, <2>5, <3>1
    <3> QED  BY <3>2 DEF Ponovo, u, U
  <2>8. CASE ~Stoji(t) /\ \E z \in t.palo : z \notin u.palo
    <3>1. Cardinality(t.palo) + (i - 1) <= N  BY <2>3, <2>8
    <3>2. IsFiniteSet(t.palo)  BY <1>2, <2>1, FS_Subset
    <3>3. IsFiniteSet(u.palo) /\ Cardinality(u.palo) <= Cardinality(t.palo)
          /\ Cardinality(u.palo) # Cardinality(t.palo)
      BY <2>5, <2>8, <3>2, FS_Subset
    <3>4. Cardinality(u.palo) \in Nat /\ Cardinality(t.palo) \in Nat
      BY <3>2, <3>3, FS_CardinalityType
    <3>5. Cardinality(u.palo) + i <= N  BY <1>1, <3>1, <3>3, <3>4
    <3>6. u \in Na(i)
      <4> HIDE DEF Stoji
      <4> QED  BY <2>1, <2>5, <3>5
    <3> QED  BY <3>6 DEF Ponovo, u, U
  <2> QED  BY <2>5, <2>6, <2>7, <2>8
<1>5. \A i : Na(i) \in SUBSET Stanja  OBVIOUS
<1>6. s \in Na(N)
  <2> HIDE DEF Na, N
  <2>1. /\ X \in [0 .. N -> SUBSET Stanja] /\ \A i \in 0 .. N : X[i] = Na(i)
        /\ 0 \in 0 .. N /\ N \in 0 .. N /\ \A i \in 1 .. N : i \in 0 .. N /\ i - 1 \in 0 .. N
    BY <1>1, <1>5
  <2> HIDE DEF X
  <2>2. PrviKorak(p, V) \in X[0]  BY <1>3, <2>1
  <2>3. \A i \in 1 .. N : \A t \in X[i - 1] : Ponovo(K, V, t) \in X[i]  BY <1>4, <2>1
  <2>4. Prolazi(K, p, V) \in X[N]  BY <1>1, <2>1, <2>2, <2>3, ProlaziKoracima DEF N
  <2> QED  BY <2>1, <2>4
<1>7. Stoji(s)
  <2>1. CASE Cardinality(s.palo) + N <= N
    <3>1. s.palo \subseteq ZapisiU(V)  BY <1>6
    <3>2. IsFiniteSet(s.palo) /\ Cardinality(s.palo) \in Nat
      BY <1>2, <3>1, FS_Subset, FS_CardinalityType
    <3>3. Cardinality(s.palo) = 0
      <4> HIDE DEF N
      <4> QED  BY <1>1, <2>1, <3>2
    <3>4. s.palo = {}  BY <3>2, <3>3, FS_EmptySet
    <3> QED  BY <3>4
  <2> QED  BY <1>6, <2>1
<1> QED  BY <1>7

\* The promise, when all that is to be tried again lacks something on the
\* surface.
LEMMA SlikaKadZapelo ==
    ASSUME NEW K \in Jednolike, NEW p \in Redovi, NEW C, Drzi(K, p, C),
           \A z \in C : Zapelo(K, p, z)
    PROVE  p = Slika(K)
<1> DEFINE q == Slika(K)
           T == {y \in Zapis : p[y] = q[y]}
<1>1. K \in SUBSET Verzija  BY DEF Jednolike, Knjige
<1>2. /\ q \in Redovi
      /\ \A y \in Zapis :
         q[y] = IF Ziva(Zadnja(K, y)) /\ \A r \in Zadnja(K, y).oslonci : q[r] # Nema
                THEN Zadnja(K, y) ELSE Nema
  BY <1>1, SlikaJednako
<1>3. \A y \in Zapis : Ziva(Zadnja(K, y)) => Zadnja(K, y).oslonci = Os(y)
  BY ZadnjaJednolike DEF Ziva
<1> HIDE DEF q
<1>4. ASSUME NEW y \in Zapis, Os(y) \subseteq T  PROVE p[y] = q[y]
  <2>1. CASE p[y] # Nema
    <3>1. p[y] \in K /\ p[y].zapis = y /\ p[y].ziva /\ p[y].oslonci \subseteq NaPovrsini(p)
      BY <2>1 DEF Drzi, RedoviDrze
    <3>2. Os(y) \subseteq NaPovrsini(p)  BY <3>1 DEF Jednolike
    <3>3. y \notin C  BY <3>2 DEF Zapelo
    <3>4. p[y] = Zadnja(K, y)  BY <2>1, <3>3 DEF Drzi, RedZadnji
    <3>5. Ziva(Zadnja(K, y)) /\ Zadnja(K, y).oslonci = Os(y)  BY <1>3, <2>1, <3>1, <3>4 DEF Ziva
    <3>6. \A r \in Os(y) : q[r] # Nema  BY <1>4, <3>2 DEF NaPovrsini
    <3> QED  BY <1>2, <3>4, <3>5, <3>6
  <2>2. CASE p[y] = Nema /\ ~Ziva(Zadnja(K, y))  BY <1>2, <2>2
  <2>3. CASE p[y] = Nema /\ Ziva(Zadnja(K, y))
    <3>1. \E r \in Os(y) : r \in Zapis /\ p[r] = Nema
      <4>1. CASE y \in C
        <5>1. Os(y) \in SUBSET Zapis  BY OsTip
        <5> QED  BY <4>1, <5>1 DEF Zapelo, NaPovrsini
      <4>2. CASE y \notin C
        <5>1. Os(y) \cap Vracaju(K, p, C) # {}  BY <2>3, <4>2 DEF Drzi, NistaIzgubljeno
        <5>2. PICK r \in Os(y) : r \in Vracaju(K, p, C)  BY <5>1
        <5>3. r \in Zapis  BY OsTip
        <5> QED  BY <5>2, <5>3, VracajuZatvoren DEF Skriva
      <4> QED  BY <4>1, <4>2
    <3>2. \E r \in Os(y) : q[r] = Nema  BY <1>4, <3>1
    <3> QED  BY <1>2, <1>3, <2>3, <3>2
  <2> QED  BY <2>1, <2>2, <2>3
<1>5. Zapis \subseteq T
  <2>1. \A y \in Zapis : Os(y) \subseteq T => y \in T  BY <1>4
  <2> HIDE DEF T
  <2> QED  BY <2>1, PoOsloncima
<1>6. \A y \in Zapis : p[y] = q[y]  BY <1>5
<1> QED  BY <1>2, <1>6 DEF Redovi, q

LEMMA ObnovaSlika ==
    ASSUME BezPremjestaja, JedanOslonac, Odrzano, NEW n \in Cvor, ApplyVersions(n),
           faza[n] = "obnova"
    PROVE  povrsina'[n] = Slika(knjiga[n])
<1> DEFINE K == knjiga[n]
           p == povrsina[n]
           V == Dospjelo(n)
           C == Duguje(n)
           s == Prolazi(K, p, V)
<1>1. Osnova /\ Drzi(K, p, C)  BY DEF Odrzano
<1>2. K \in Jednolike /\ p \in Redovi /\ V \in SUBSET K
  BY <1>1, OsnovaJednolike, OsnovaCvora, DospjeloUKnjizi
<1>3. C \in SUBSET Zapis /\ \A z \in C : Zadnja(K, z) \in V
  <2>1. Dospijeva(n)  BY DEF ApplyVersions
  <2> QED  BY <1>1, <2>1, DugujeDospjelo
<1>4. povrsina'[n] = s.p /\ s \in Ocuvano(K, p)
  BY <1>1, OsnovaApply DEF Osnova, TypeOK
<1>5. C = ZapisiU(K)  BY DEF Duguje
<1>6. s = Prolazi(K, p, V)  OBVIOUS
<1> HIDE DEF K, p, V, C, s
<1>7. /\ Drzi(K, s.p, ((C \cup s.ceka) \ s.proslo) \cup s.palo)
      /\ C \subseteq s.proslo \cup s.palo
  BY <1>1, <1>2, <1>3, <1>6, ProlaziUTijeku
<1>8. s.ceka \subseteq C /\ s.p \in Redovi  BY <1>4, <1>5 DEF Ocuvano, Stanja
<1>9. ((C \cup s.ceka) \ s.proslo) \cup s.palo \subseteq s.palo  BY <1>7, <1>8
<1>10. Drzi(K, s.p, s.palo)  BY <1>7, <1>9, DrziVise
<1>11. \A z \in s.palo : Zapelo(K, s.p, z)  BY <1>2, <1>6, ProlaziZapinju
<1>12. s.p = Slika(K)  BY <1>2, <1>8, <1>10, <1>11, SlikaKadZapelo
<1> QED  BY <1>4, <1>12 DEF K

\* A start that passes leaves the surface the ledger says, although the list of
\* what waited was lost with the crash (ReplaySurface, ObnoviPovrsinu).
THEOREM ObnovaVracaSveDokazana ==
    BezPremjestaja /\ JedanOslonac => (Spec => ObnovaVracaSve)
<1> SUFFICES ASSUME BezPremjestaja, JedanOslonac  PROVE Spec => ObnovaVracaSve
  OBVIOUS
<1>1. Init => Odrzano  BY OdrzanoPocetak
<1>2. Odrzano /\ [Next]_vars => Odrzano'  BY OdrzanoKorak
<1>3. Odrzano /\ [Next]_vars =>
        [\A n \in Cvor : faza[n] = "obnova" /\ faza'[n] = "radi" /\ padova' = padova
            => povrsina'[n] = Slika(knjiga[n])]_vars
  <2> SUFFICES ASSUME Odrzano, Next, NEW n \in Cvor, faza[n] = "obnova", faza'[n] = "radi",
                      padova' = padova
               PROVE  povrsina'[n] = Slika(knjiga[n])
    OBVIOUS
  <2>1. TypeOK  BY DEF Odrzano, Osnova
  <2>2. PICK m \in Cvor :
           \/ \E z \in Pise[m] : \E s \in Sadrzaji[z] : Upisi(m, z, s)
           \/ \E z \in Pise[m] : Obrisi(m, z)
           \/ \E z \in Pise[m] : ObrisiSDjecom(m, z)
           \/ \E k \in Cvor \ {m} : \E V \in Paketi(m, k) : Primi(m, k, V)
           \/ ApplyVersions(m)
           \/ ZadrziNepotvrdjeno(m)
           \/ Ugasi(m)
           \/ Pokreni(m)
    BY Zenon DEF Next
  <2>3. CASE ApplyVersions(m)
    <3>1. faza' = [faza EXCEPT ![m] = "radi"]  BY <2>3 DEF ApplyVersions
    <3>2. m = n  BY <2>1, <3>1 DEF TypeOK
    <3> QED  BY <2>3, <3>2, ObnovaSlika
  <2>4. CASE ZadrziNepotvrdjeno(m)
    <3>1. padova' = padova + 1 /\ padova \in Int  BY <2>1, <2>4 DEF ZadrziNepotvrdjeno, TypeOK
    <3> QED  BY <3>1
  <2>5. CASE Ugasi(m) \/ Pokreni(m)
    <3>1. faza'[n] \in {faza[n], "ugasen", "obnova"}  BY <2>1, <2>5 DEF Ugasi, Pokreni, TypeOK
    <3> QED  BY <3>1
  <2>6. CASE \/ \E z \in Pise[m] : \E s \in Sadrzaji[z] : Upisi(m, z, s)
             \/ \E z \in Pise[m] : Obrisi(m, z)
             \/ \E z \in Pise[m] : ObrisiSDjecom(m, z)
             \/ \E k \in Cvor \ {m} : \E V \in Paketi(m, k) : Primi(m, k, V)
    <3>1. faza' = faza  BY <2>6 DEF Upisi, Obrisi, ObrisiSDjecom, Primi
    <3> QED  BY <3>1
  <2> QED  BY <2>2, <2>3, <2>4, <2>5, <2>6
<1> QED  BY <1>1, <1>2, <1>3, PTL DEF Spec, ObnovaVracaSve
=============================================================================
