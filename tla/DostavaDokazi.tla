---------------------------- MODULE DostavaDokazi ----------------------------
(***************************************************************************)
(* What the promise of Dostava is good for: under it no node ever has a    *)
(* silent gap, for any nodes and any number of versions.                   *)
(***************************************************************************)
EXTENDS Dostava, TLAPS

\* NemaTihePraznine alone is not inductive: a version a node holds before it is
\* written would pass over the ones written before it.
IInv ==
    /\ napisano \in Nat
    /\ ima \in [Cvor -> SUBSET Napisane]
    /\ rupa \in [Cvor -> SUBSET Verzije]
    /\ NemaTihePraznine

\* At the start every node holds a start of the sequence, which passes over
\* nothing.
LEMMA PocetnoBezPraznine ==
    ASSUME ZadnjaVerzija \in Nat
    PROVE  Init => IInv
<1> SUFFICES ASSUME Init PROVE IInv  OBVIOUS
<1>1. napisano \in Nat  BY DEF Init
<1>2. ima \in [Cvor -> SUBSET Napisane] /\ rupa \in [Cvor -> SUBSET Verzije]
  <2>1. \A k \in 0 .. napisano : 1 .. k \subseteq Napisane  BY <1>1 DEF Napisane
  <2> QED  BY <2>1 DEF Init
<1>3. NemaTihePraznine
  <2> SUFFICES ASSUME NEW n \in Cvor, NEW v \in Napisane \ ima[n], NEW w \in ima[n], v < w
               PROVE  FALSE
    BY DEF NemaTihePraznine, Preskocene
  <2>1. PICK k \in 0 .. napisano : ima[n] = 1 .. k  BY DEF Init
  <2> QED  BY <1>1, <2>1 DEF Napisane
<1> QED  BY <1>1, <1>2, <1>3 DEF IInv

\* No step of the promise leaves a silent gap.
LEMMA KorakBezPraznine ==
    ASSUME Autor \in Cvor, ZadnjaVerzija \in Nat, IInv, [Next]_vars
    PROVE  IInv'
<1>1. /\ napisano \in Nat /\ ima \in [Cvor -> SUBSET Napisane]
      /\ rupa \in [Cvor -> SUBSET Verzije]
      /\ \A n \in Cvor \ {Autor} : Preskocene(ima[n]) \subseteq rupa[n]
  BY DEF IInv, NemaTihePraznine
<1>2. CASE Napisi
  <2>1. napisano' = napisano + 1 /\ rupa' = rupa
        /\ ima' = [ima EXCEPT ![Autor] = @ \cup {napisano + 1}]
    BY <1>2 DEF Napisi
  <2>2. Napisane' = Napisane \cup {napisano + 1}  BY <1>1, <2>1 DEF Napisane
  <2>3. ima' \in [Cvor -> SUBSET Napisane']  BY <1>1, <2>1, <2>2
  <2>4. ASSUME NEW n \in Cvor \ {Autor}, NEW v \in Napisane' \ ima'[n],
               NEW w \in ima'[n], v < w
        PROVE  v \in rupa'[n]
    <3>1. ima'[n] = ima[n]  BY <1>1, <2>1
    <3>2. w \in Napisane  BY <1>1, <2>4, <3>1
    <3>3. v \in Napisane \ ima[n]
      BY <1>1, <2>2, <2>4, <3>1, <3>2 DEF Napisane
    <3> QED  BY <1>1, <2>1, <2>4, <3>1, <3>3 DEF Preskocene
  <2>5. NemaTihePraznine'  BY <2>4 DEF NemaTihePraznine, Preskocene
  <2> QED  BY <1>1, <2>1, <2>3, <2>5 DEF IInv, Verzije
<1>3. ASSUME NEW n \in Cvor \ {Autor}, Primi(n)  PROVE IInv'
  <2>1. PICK V \in SUBSET Napisane :
            /\ Preskocene(ima[n] \cup V) \subseteq rupa[n]
            /\ ima' = [ima EXCEPT ![n] = @ \cup V]
    BY <1>3 DEF Primi
  <2>2. UNCHANGED <<napisano, rupa>> /\ Napisane' = Napisane
    BY <1>3 DEF Primi, Napisane
  <2>3. ima' \in [Cvor -> SUBSET Napisane']  BY <1>1, <2>1, <2>2
  <2>4. ASSUME NEW c \in Cvor \ {Autor}  PROVE Preskocene(ima[c])' \subseteq rupa'[c]
    <3>1. CASE c = n  BY <1>1, <2>1, <2>2, <3>1 DEF Preskocene
    <3>2. CASE c # n  BY <1>1, <2>1, <2>2, <3>2 DEF Preskocene
    <3> QED  BY <3>1, <3>2
  <2> QED  BY <1>1, <2>2, <2>3, <2>4 DEF IInv, NemaTihePraznine, Verzije
<1>4. ASSUME NEW n \in Cvor \ {Autor}, Zabiljezi(n)  PROVE IInv'
  <2>1. PICK R \in SUBSET Verzije :
            /\ (rupa[n] \ R) \cap Napisane \subseteq ima[n]
            /\ rupa' = [rupa EXCEPT ![n] = R]
    BY <1>4 DEF Zabiljezi
  <2>2. UNCHANGED <<napisano, ima>> /\ Napisane' = Napisane
    BY <1>4 DEF Zabiljezi, Napisane
  <2>3. rupa' \in [Cvor -> SUBSET Verzije]  BY <1>1, <2>1
  <2>4. ASSUME NEW c \in Cvor \ {Autor}  PROVE Preskocene(ima[c])' \subseteq rupa'[c]
    <3>1. Preskocene(ima[c])' = Preskocene(ima[c])  BY <2>2 DEF Preskocene
    <3>2. CASE c = n
      <4>1. rupa'[n] = R  BY <1>1, <2>1
      <4>2. Preskocene(ima[n]) \subseteq rupa[n]  BY <1>1
      <4>3. Preskocene(ima[n]) \subseteq Napisane \ ima[n]  BY DEF Preskocene
      <4> QED  BY <2>1, <3>1, <3>2, <4>1, <4>2, <4>3
    <3>3. CASE c # n
      <4>1. rupa'[c] = rupa[c]  BY <1>1, <2>1, <3>3
      <4> QED  BY <1>1, <3>1, <4>1
    <3> QED  BY <3>2, <3>3
  <2> QED  BY <1>1, <2>2, <2>3, <2>4 DEF IInv, NemaTihePraznine, Verzije
<1>5. ASSUME NEW n \in Cvor \ {Autor}, Pretplati(n)  PROVE IInv'
  BY <1>1, <1>5 DEF Pretplati, IInv, NemaTihePraznine, Preskocene, Napisane, Verzije
<1>6. ASSUME NEW n \in Cvor \ {Autor}, Obrisi(n)  PROVE IInv'
  <2>1. /\ ima' = [ima EXCEPT ![n] = {}] /\ rupa' = [rupa EXCEPT ![n] = {}]
        /\ UNCHANGED napisano /\ Napisane' = Napisane
    BY <1>6 DEF Obrisi, Napisane
  <2>2. ima' \in [Cvor -> SUBSET Napisane'] /\ rupa' \in [Cvor -> SUBSET Verzije]
    BY <1>1, <2>1
  <2>3. ASSUME NEW c \in Cvor \ {Autor}  PROVE Preskocene(ima[c])' \subseteq rupa'[c]
    <3>1. CASE c = n
      <4>1. ima'[n] = {}  BY <1>1, <2>1
      <4> QED  BY <3>1, <4>1 DEF Preskocene
    <3>2. CASE c # n
      <4>1. ima'[c] = ima[c] /\ rupa'[c] = rupa[c]  BY <1>1, <2>1, <3>2
      <4> QED  BY <1>1, <2>1, <4>1 DEF Preskocene
    <3> QED  BY <3>1, <3>2
  <2> QED  BY <1>1, <2>1, <2>2, <2>3 DEF IInv, NemaTihePraznine, Verzije
<1>7. CASE UNCHANGED vars
  BY <1>1, <1>7 DEF vars, IInv, NemaTihePraznine, Preskocene, Napisane, Verzije
<1> QED  BY <1>2, <1>3, <1>4, <1>5, <1>6, <1>7 DEF Next

\* Whatever keeps the promise of Dostava has no silent gap: what was written
\* below the last version a node holds is held or known to be missing.
THEOREM BezTihePraznineStalno ==
    ASSUME Autor \in Cvor, ZadnjaVerzija \in Nat
    PROVE  Spec => []NemaTihePraznine
<1>1. IInv => NemaTihePraznine  BY DEF IInv
<1> QED  BY <1>1, PocetnoBezPraznine, KorakBezPraznine, PTL DEF Spec
=============================================================================
