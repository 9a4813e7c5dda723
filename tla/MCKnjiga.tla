------------------------------ MODULE MCKnjiga ------------------------------
EXTENDS Knjiga

CONSTANTS ja, d, z, p, q, k, nema

V(o, zap, kan, a, dob) ==
    [oznaka |-> o, zapis |-> zap, autor |-> d, kanal |-> kan, arh |-> a,
     dobra |-> dob]

Upisi1 == {<<z, k>>, <<z, "">>}

\* Of record z: living versions before and after its deletions, in the channel
\* and in the common one, a deletion from the future, a malformed label.
Z3 == V(3, z, k, FALSE, TRUE)
Z5x == V(5, z, k, TRUE, TRUE)
Z6 == V(6, z, "", FALSE, TRUE)
Z7x == V(7, z, k, TRUE, TRUE)
Z8 == V(8, z, k, FALSE, TRUE)
Z10x == V(10, z, k, TRUE, TRUE)
Z11 == V(11, z, k, FALSE, FALSE)

\* Forecasts p and index entries q.
P3 == V(3, p, "", FALSE, TRUE)
P5 == V(5, p, "", FALSE, TRUE)
Q4 == V(4, q, "", FALSE, TRUE)
Q6 == V(6, q, "", FALSE, TRUE)
Q9 == V(9, q, k, FALSE, TRUE)
Q11 == V(11, q, "", FALSE, FALSE)

Svjetovi3 ==
    {{Z3, Z5x, Z11}, {Z3, Z5x, Q9}, {Z5x, Z6, Z8}, {Z5x, Z6, Z10x},
     {Z3, Z7x, Z8}, {Z3, Z7x, Q9}, {Z6, Z7x, Z11}, {Z7x, Z8, Z10x},
     {P3, P5, Q6}, {P5, Q4, Q11}, {Q4, Q6, Q11}}
=============================================================================
