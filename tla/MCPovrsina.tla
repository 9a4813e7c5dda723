----------------------------- MODULE MCPovrsina -----------------------------
EXTENDS Povrsina, TLC

CONSTANTS a, b, d, e

\* a and b lean on nothing, d on both of them, e on d.
Stablo == (a :> {{}}) @@ (b :> {{}}) @@ (d :> {{a, b}}) @@ (e :> {{d}})

\* a and b lean on nothing, d on a, e on d and b: JedanOslonac.
Niz == (a :> {{}}) @@ (b :> {{}}) @@ (d :> {{a}}) @@ (e :> {{b, d}})

\* d leans on a or on b, and may be moved from one to the other.
Premjestaj == (a :> {{}}) @@ (b :> {{}}) @@ (d :> {{a}, {b}})

V(o, n, z) == [oznaka |-> o, autor |-> n, zapis |-> z, ziva |-> TRUE, oslonci |-> {}]
AiB == {V(1, 1, a), V(2, 1, b)}
SamoA == {V(1, 1, a)}

PiseNiz == (1 :> {a, d}) @@ (2 :> {a, b, d, e})
PiseTroje == (1 :> {a}) @@ (2 :> {d, e}) @@ (3 :> {b})
PisePremjestaj == (1 :> {d}) @@ (2 :> {a, b})
=============================================================================
