---------------------------- MODULE LogHistogram ----------------------------
(***************************************************************************)
(* LogHistogram<SUB> of src/src/discovery.rs: a bucket per eighth (SUB) of *)
(* each power-of-two band, exact count, minimum and maximum, and quantiles *)
(* estimated by the lower edge of the bucket in which the rank falls.      *)
(*                                                                         *)
(* Buckets that were never incremented are absent from the function.  The  *)
(* mean, which only the report prints, is left out.                        *)
(***************************************************************************)
EXTENDS Integers, FiniteSetsExt, Functions

CONSTANTS SUB,     \* const generic SUB: buckets per band
          Width    \* bits of a value (u64 in the code)

\* 1 << n, a value of one bit.
Pow2[n \in Nat] == IF n = 0 THEN 1 ELSE 2 * Pow2[n - 1]

\* SUB is a power of two: "use the next log2(SUB) bits".
ASSUME HistogramAssumption ==
    Width \in Nat \ {0} /\ \E n \in 0 .. Width : SUB = Pow2[n]

\* 64 - leading_zeros: Pow2[band - 1] <= value < Pow2[band].
Band(value) == CHOOSE b \in 1 .. Width : Pow2[b - 1] <= value /\ value < Pow2[b]

\* Mutant: the position inside the band is not counted.
IndexBandOnly(value) ==
    IF value = 0 THEN 0 ELSE (Band(value) - 1) * SUB

Index(value) ==
    IF value = 0 THEN 0
    ELSE LET base == Pow2[Band(value) - 1]
             sub  == ((value - base) * SUB) \div base
         IN  (Band(value) - 1) * SUB + Min({sub, SUB - 1})

\* The product wraps at the width of a u64.
BucketLower(idx) ==
    LET base == Pow2[idx \div SUB]
        sub  == idx % SUB
    IN  IF idx = 0 THEN 0
        ELSE base + ((sub * base) % Pow2[Width]) \div SUB

\* A value in whose bucket the product does not wrap.
Fits(value) == value < Pow2[Width] /\ value * SUB < 2 * Pow2[Width]

Empty == [buckets |-> << >>, count |-> 0, min |-> Pow2[Width] - 1, max |-> 0]

Bucket(h, i) == IF i \in DOMAIN h.buckets THEN h.buckets[i] ELSE 0

RecordGap(h, value) ==
    [buckets |-> [i \in DOMAIN h.buckets \cup {Index(value)} |->
                     Bucket(h, i) + (IF i = Index(value) THEN 1 ELSE 0)],
     count   |-> h.count + 1,
     min     |-> Min({h.min, value}),
     max     |-> Max({h.max, value})]

\* The number of recorded values in the buckets up to i.
UpTo(h, i) ==
    SumFunctionOnSet(h.buckets, {j \in DOMAIN h.buckets : j <= i})

\* max(1, min(ceil(num/den * count), count)): the rank asked for.
Rank(h, num, den) ==
    Min({Max({1, (num * h.count + den - 1) \div den}), h.count})

Clamp(x, lo, hi) == Min({Max({x, lo}), hi})

\* quantile(num / den).
Quantile(h, num, den) ==
    LET reached == {i \in DOMAIN h.buckets : UpTo(h, i) >= Rank(h, num, den)}
    IN  IF h.count = 0 THEN 0
        ELSE Clamp(BucketLower(Min(reached)), h.min, h.max)
=============================================================================
