-------------------------- MODULE RazmjenaDostava ---------------------------
(***************************************************************************)
(* The exchange of Razmjena as an implementation of Dostava. What a node   *)
(* knows it may lack is what either range of its durable record holds;     *)
(* talks, locks, what is kept in memory and the fences are hidden.         *)
(***************************************************************************)
EXTENDS Razmjena

\* The versions the record of n holds: refused or asked for, not what lies
\* between the two ranges.
Zabiljezene(k) == Verzije \cap (Clanovi(k.odbijeno) \cup Clanovi(k.trazi))

Promet == INSTANCE Dostava WITH
    napisano <- Granica(knjiga[Autor]),
    ima <- knjiga,
    rupa <- [n \in Cvor |-> Zabiljezene(rupe[n])]

\* The exchange delivers (rupe.go:21, upis.go:139): versions pass over nothing
\* that is not in the durable record at that moment, no step of a write, change
\* of rule, failure or restart takes a missing version out of it, and only the
\* deletion of a channel that is not followed takes versions away.
DostavaSeDrzi == Promet!Spec
=============================================================================
