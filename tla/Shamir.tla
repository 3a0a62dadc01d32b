------------------------------- MODULE Shamir -------------------------------
(***************************************************************************)
(* Shamir's secret sharing over GF(256) (crates/ostrich-kra/src/shamir.rs):*)
(* one byte of the secret, since bytes are shared independently.           *)
(*                                                                         *)
(* An unsigned integer is the set of the positions of its one bits: xor is *)
(* the symmetric difference, and a shift drops what leaves the width.      *)
(***************************************************************************)
EXTENDS Naturals, Sequences
LOCAL INSTANCE FiniteSetsExt
LOCAL INSTANCE SequencesExt

Byte == SUBSET (0..7)

\* The bits of a number below 256.
Bits(n) == { k \in 0..7 : (n \div 2^k) % 2 = 1 }

Shl(a, k, width) == { i + k : i \in a } \intersect 0..(width - 1)

BitLength(a) == IF a = {} THEN 0 ELSE Max(a) + 1

gf_add(a, b) == SymDiff(a, b)
gf_sub(a, b) == SymDiff(a, b)

\* The step of gf_mul without the reduction: the product loses its high bits.
double_unreduced(a) == Shl(a, 1, 8)

\* The step of gf_mul: a <<= 1 and, if a bit was lost, a ^= 0x1B.
double(a) == gf_add(Shl(a, 1, 8), IF 7 \in a THEN Bits(27) ELSE {})

gf_mul(a, b) ==
    LET step(acc, i) == [result |-> IF i \in b THEN gf_add(acc.result, acc.a) ELSE acc.result,
                         a |-> double(acc.a)]
    IN  FoldLeft(step, [result |-> {}, a |-> a], [k \in 1..8 |-> k - 1]).result

\* The product of two polynomials in 16 bits.
gf_mul_u16(a, b) ==
    FoldSet(LAMBDA i, acc : SymDiff(acc, Shl(a, i, 16)), {}, b)

\* Their quotient: the leading term of the remainder is removed until its
\* length is below that of the divisor.
RECURSIVE Quotient(_, _)
Quotient(remainder, b) ==
    LET shift == BitLength(remainder) - BitLength(b)
    IN  IF BitLength(remainder) < BitLength(b) THEN {}
        ELSE SymDiff({shift}, Quotient(SymDiff(remainder, Shl(b, shift, 16)), b))

gf_div_u16(a, b) == IF b = {} THEN {} ELSE Quotient(a, b)

\* The loop of the extended Euclidean algorithm.
RECURSIVE Euclid(_, _, _, _)
Euclid(t, newt, r, newr) ==
    LET q == gf_div_u16(r, newr)
    IN  IF newr = {} THEN t
        ELSE Euclid(newt, SymDiff(t, gf_mul_u16(q, newt)), newr, SymDiff(r, gf_mul_u16(q, newr)))

\* 0x11B is the polynomial of the field.
gf_inv(a) == IF a = {} THEN {} ELSE Euclid({}, {0}, {0, 1, 3, 4, 8}, a) \intersect 0..7

\* What gf_div takes for granted, for every byte but zero.
FieldInverses == \A a \in Byte \ {{}} : gf_mul(a, gf_inv(a)) = {0}

\* Defined for b # {} only: the code panics otherwise.
gf_div(a, b) == gf_mul(a, gf_inv(b))

evaluate_polynomial(coefficients, x) ==
    LET step(acc, coef) == [result |-> gf_add(acc.result, gf_mul(coef, acc.power)),
                            power |-> gf_mul(acc.power, x)]
    IN  FoldLeft(step, [result |-> {}, power |-> {0}], coefficients).result

\* The product of gf_sub(from, x_j) over the points j # i.
DifferenceProduct(points, i, from) ==
    FoldSet(LAMBDA j, acc : gf_mul(acc, gf_sub(from, points[j][1])), {0},
            DOMAIN points \ {i})

lagrange_interpolate(points, x) ==
    LET basis(i) == gf_div(DifferenceProduct(points, i, x),
                           DifferenceProduct(points, i, points[i][1]))
    IN  FoldSet(LAMBDA i, acc : gf_add(acc, gf_mul(points[i][2], basis(i))), {}, DOMAIN points)

\* The share of index i, for the secret and the random coefficients.
split(secret, coefs, i) == evaluate_polynomial(<<secret>> \o coefs, Bits(i))

\* From shares <<index, value>>, the first threshold of them.
reconstruct(shares, threshold) ==
    lagrange_interpolate([k \in 1..threshold |-> <<Bits(shares[k][1]), shares[k][2]>>], {})
=============================================================================
