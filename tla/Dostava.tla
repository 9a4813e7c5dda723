------------------------------- MODULE Dostava -------------------------------
(***************************************************************************)
(* What the exchange of one ledger key promises, without talks, locks,     *)
(* deltas, rules and restarts: an author writes versions one after another *)
(* and every other node holds some of them. What a node holds grows in any *)
(* pieces and any order, but it never passes over a version without        *)
(* knowing it: the node's record of gaps grows first. What is written and  *)
(* not held is never forgotten, and nothing held is lost, except with a    *)
(* channel the user no longer follows, whole.                              *)
(*                                                                         *)
(* The promise is the invariant of internal/peers/rupe.go and the order of *)
(* the durable steps in upis.go; Razmjena is shown to implement it.        *)
(***************************************************************************)
EXTENDS Integers

CONSTANTS
    Cvor,           \* nodes
    Autor,          \* the author of the key
    ZadnjaVerzija   \* bound: the author writes versions 1 .. ZadnjaVerzija

VARIABLES
    napisano,       \* how many versions the author has written
    ima,            \* ima[n]: the versions n holds
    rupa,           \* rupa[n]: the versions n knows it may lack
    prati           \* prati[n]: n follows the channel

vars == <<napisano, ima, rupa, prati>>

Verzije == 1 .. ZadnjaVerzija
Napisane == 1 .. napisano

\* The written versions a node that holds S passed over.
Preskocene(S) == {v \in Napisane \ S : \E w \in S : v < w}

Init ==
    /\ napisano \in 0 .. ZadnjaVerzija
    /\ ima \in [Cvor -> {1 .. k : k \in 0 .. napisano}]
    /\ ima[Autor] = Napisane
    /\ rupa = [n \in Cvor |-> {}]
    /\ prati = [n \in Cvor |-> TRUE]

Napisi ==
    /\ napisano < ZadnjaVerzija
    /\ napisano' = napisano + 1
    /\ ima' = [ima EXCEPT ![Autor] = @ \cup {napisano + 1}]
    /\ UNCHANGED <<rupa, prati>>

\* Some versions arrive; what they pass over is known to lack.
Primi(n) ==
    /\ \E V \in SUBSET Napisane :
          /\ Preskocene(ima[n] \cup V) \subseteq rupa[n]
          /\ ima' = [ima EXCEPT ![n] = @ \cup V]
    /\ UNCHANGED <<napisano, rupa, prati>>

\* The record of gaps changes; what is written and not held stays in it.
Zabiljezi(n) ==
    /\ \E R \in SUBSET Verzije :
          /\ (rupa[n] \ R) \cap Napisane \subseteq ima[n]
          /\ rupa' = [rupa EXCEPT ![n] = R]
    /\ UNCHANGED <<napisano, ima, prati>>

Pretplati(n) ==
    /\ prati' = [prati EXCEPT ![n] = ~@]
    /\ UNCHANGED <<napisano, ima, rupa>>

Obrisi(n) ==
    /\ ~prati[n]
    /\ ima' = [ima EXCEPT ![n] = {}]
    /\ rupa' = [rupa EXCEPT ![n] = {}]
    /\ UNCHANGED <<napisano, prati>>

Next ==
    \/ Napisi
    \/ \E n \in Cvor \ {Autor} : Primi(n) \/ Zabiljezi(n) \/ Pretplati(n) \/ Obrisi(n)

Spec == Init /\ [][Next]_vars

\* No node has a silent gap.
NemaTihePraznine == \A n \in Cvor \ {Autor} : Preskocene(ima[n]) \subseteq rupa[n]
=============================================================================
