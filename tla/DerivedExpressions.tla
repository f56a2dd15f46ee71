-------------------------- MODULE DerivedExpressions --------------------------
(***************************************************************************)
(* The expression language of derived items: src/interp/derive.rs.         *)
(*                                                                         *)
(* One engine, two tables of functions.  When an item is saved its         *)
(* expression runs over Kinded values, which only say what a value would   *)
(* be; when it is read it runs over the picks.  Whether the tables agree   *)
(* is checked here for every expression: a program for a stack machine     *)
(* that pushes operands and applies functions, where an operand is only    *)
(* what saving infers of it and what reading gets.                         *)
(***************************************************************************)
EXTENDS Naturals, Sequences

CONSTANT MaxPending   \* bound: operands that wait for their function

ASSUME PendingAssumption == MaxPending \in Nat

VARIABLE pending      \* [inferred, read, loose] of each waiting operand

(***************************************************************************)
(* What saving infers: a Kinded, per contributor or single, a plain        *)
(* number, true/false, or an error.                                        *)
(***************************************************************************)

Kinds == {"layer", "attribute"}

PerUser(k) == [form |-> "perUser", kind |-> k]
Single(k) == [form |-> "single", kind |-> k]
Number == [form |-> "number", kind |-> "attribute"]
Truth == [form |-> "truth", kind |-> "attribute"]
Refused == [form |-> "refused", kind |-> "attribute"]

Inferables == {PerUser(k) : k \in Kinds} \union {Single(k) : k \in Kinds}
                 \union {Number, Truth, Refused}

\* What reading gets: a UserArray, an f64, a bool, or an error or a panic.
Readables == {"perUser", "number", "truth", "refused"}

Kinded(t) == t.form \in {"perUser", "single"}
Spread(a, b) == "perUser" \in {a.form, b.form}
Valued(t) == Kinded(t) \/ t = Number
KindedOf(perUser, k) == IF perUser THEN PerUser(k) ELSE Single(k)

(***************************************************************************)
(* The functions, by the table each engine has of them.                    *)
(***************************************************************************)

\* count, std, nmad; median, mean, min, max of one argument.
InferredReduction(keepsKind, a) ==
    IF Kinded(a) THEN Single(IF keepsKind THEN a.kind ELSE "attribute") ELSE Refused
ReadReduction(a) == IF a = "perUser" THEN "number" ELSE "refused"

InferredPercentile(a, p) ==
    IF Kinded(a) /\ p = Number THEN Single(a.kind) ELSE Refused
ReadPercentile(a, p) ==
    IF a = "perUser" /\ p = "number" THEN "number" ELSE "refused"

InferredConcatenate(a, b) ==
    IF Kinded(a) /\ Kinded(b) THEN PerUser(a.kind) ELSE Refused
ReadConcatenate(a, b) ==
    IF a = "perUser" /\ b = "perUser" THEN "perUser" ELSE "refused"

\* shallowest, deepest: element by element.
InferredShallowest(a, b) ==
    CASE Kinded(a) /\ Valued(b) -> KindedOf(Spread(a, b), a.kind)
      [] a = Number /\ Valued(b) -> b
      [] OTHER -> Refused
ReadElementwise(a, b) ==
    CASE {a, b} = {"number"} -> "number"
      [] "perUser" \in {a, b} /\ {a, b} \subseteq {"perUser", "number"} -> "perUser"
      [] OTHER -> "refused"

\* Seeded fault: no clamp of a single value when reading.
ReadClampOfLayers(a, lo, hi, ordered) ==
    IF ordered /\ {lo, hi} = {"number"} /\ a = "perUser" THEN a ELSE "refused"

\* clamp: a layer or a single value, between single bounds.  f64::clamp
\* panics if a bound is NaN or the lower one is above the upper: the bounds are
\* ordered if they are neither, or if there is only NaN to clamp.  Saving runs
\* it too when all three are plain numbers.
InferredClamp(a, lo, hi, ordered) ==
    CASE {a, lo, hi} = {Number} -> IF ordered THEN Number ELSE Refused
      [] Kinded(a) /\ \A bound \in {lo, hi} : Valued(bound) /\ bound.form # "perUser" -> a
      [] OTHER -> Refused
ReadClamp(a, lo, hi, ordered) ==
    IF ordered /\ {lo, hi} = {"number"} /\ a \in {"perUser", "number"} THEN a ELSE "refused"

\* where: a mask per contributor, or one truth; branches broadcast.
InferredWhere(c, a, b) ==
    LET chosen == KindedOf(c.form = "perUser" \/ Spread(a, b),
                           IF Kinded(a) THEN a.kind ELSE b.kind)
    IN CASE c.form \notin {"perUser", "truth"} \/ ~Valued(a) \/ ~Valued(b) -> Refused
         [] c = Truth /\ a = Number /\ b = Number -> Number
         [] OTHER -> chosen
ReadWhere(c, a, b) ==
    CASE c = "perUser" /\ {a, b} \subseteq {"perUser", "number"} -> "perUser"
      [] c = "truth" -> ReadElementwise(a, b)
      [] OTHER -> "refused"

\* min, max of two arguments, abs and is_nan: Rhai's own for numbers; only
\* abs has a form for layers.
InferredLeast(a, b) ==
    IF Valued(a) /\ Valued(b) /\ ~Spread(a, b)
    THEN IF Kinded(b) THEN b ELSE a
    ELSE Refused
ReadLeast(a, b) == IF {a, b} = {"number"} THEN "number" ELSE "refused"

InferredAbs(a) == IF Valued(a) THEN a ELSE Refused
ReadAbs(a) == IF a \in {"perUser", "number"} THEN a ELSE "refused"

InferredIsNan(a) == IF Valued(a) /\ a.form # "perUser" THEN Truth ELSE Refused
ReadIsNan(a) == IF a = "number" THEN "truth" ELSE "refused"

\* only, without: with a name, or a list of names.
InferredOnly(a) == IF a.form = "perUser" THEN a ELSE Refused
ReadOnly(a) == IF a = "perUser" THEN a ELSE "refused"

\* + keeps a position a position, and - makes a distance of two of them.
InferredSum(a, b) ==
    CASE a = Number /\ b = Number -> Number
      [] Valued(a) /\ Valued(b) /\ (Kinded(a) \/ Kinded(b)) ->
           KindedOf(Spread(a, b),
                    IF "layer" \in {a.kind, b.kind} THEN "layer" ELSE "attribute")
      [] OTHER -> Refused
InferredDifference(a, b) ==
    IF Kinded(a) /\ Kinded(b) /\ a.kind = "layer" /\ b.kind = "layer"
    THEN KindedOf(Spread(a, b), "attribute")
    ELSE InferredSum(a, b)

\* * and /: a plain number scales; two derived values are something else.
InferredProduct(a, b) ==
    CASE a = Number /\ Valued(b) -> b
      [] b = Number /\ Valued(a) -> a
      [] Kinded(a) /\ Kinded(b) -> KindedOf(Spread(a, b), "attribute")
      [] OTHER -> Refused

\* The six comparisons.  Of what has no comparison Rhai makes a truth of its
\* own, except that a Kinded, or a layer, refuses what is not a number.
InferredComparison(a, b) ==
    CASE a = Refused \/ b = Refused -> Refused
      [] (Kinded(a) /\ Valued(b)) \/ (Valued(a) /\ Kinded(b)) ->
           IF Spread(a, b) THEN PerUser("attribute") ELSE Truth
      [] {a, b} \subseteq {Number, Truth} -> Truth
      [] OTHER -> Refused
ReadComparison(a, b) ==
    CASE a = "refused" \/ b = "refused" -> "refused"
      [] "perUser" \in {a, b} ->
           IF {a, b} \subseteq {"perUser", "number"} THEN "perUser" ELSE "refused"
      [] OTHER -> "truth"

(***************************************************************************)
(* Operands and their application.                                         *)
(***************************************************************************)

Operand(inferred, read, loose) == [inferred |-> inferred, read |-> read, loose |-> loose]

Operands == [inferred : Inferables, read : Readables, loose : BOOLEAN]

\* A layer, a derived item of either kind, a number, NaN (a constant of
\* the engine that infers, a number of the other), true or false.
Leaves ==
    {Operand(PerUser("layer"), "perUser", FALSE)}
      \union {Operand(Single(k), "number", FALSE) : k \in Kinds}
      \union {Operand(Number, "number", FALSE)}
      \union {Operand(Single("attribute"), "number", FALSE)}
      \union {Operand(Truth, "truth", FALSE)}

\* The two sides say the same of an operand's shape.
Alike(o) ==
    \/ o.inferred.form = "perUser" /\ o.read = "perUser"
    \/ o.inferred.form \in {"single", "number"} /\ o.read = "number"
    \/ o.inferred.form = "truth" /\ o.read = "truth"

\* The forms whose tables differ: a reduction, or a concatenation, of a
\* value that is single already.  With them a clamp whose bounds are out of
\* order when it is read makes an expression loose, and an if of two shapes.
SingleReduced(a) == a.inferred.form = "single"
SingleJoined(a, b) == {a.inferred.form, b.inferred.form} # {"perUser"}

Unary(a) ==
    {Operand(InferredReduction(keeps, a.inferred), ReadReduction(a.read),
             a.loose \/ SingleReduced(a)) : keeps \in BOOLEAN}
      \union {Operand(InferredAbs(a.inferred), ReadAbs(a.read), a.loose),
              Operand(InferredIsNan(a.inferred), ReadIsNan(a.read), a.loose),
              Operand(InferredOnly(a.inferred), ReadOnly(a.read), a.loose)}

Binary(a, b) ==
    LET of(inferred, read) == Operand(inferred, read, a.loose \/ b.loose)
        elementwise == ReadElementwise(a.read, b.read)
    IN {Operand(InferredPercentile(a.inferred, b.inferred), ReadPercentile(a.read, b.read),
                a.loose \/ b.loose \/ SingleReduced(a)),
        Operand(InferredConcatenate(a.inferred, b.inferred), ReadConcatenate(a.read, b.read),
                a.loose \/ b.loose \/ SingleJoined(a, b)),
        of(InferredShallowest(a.inferred, b.inferred), elementwise),
        of(InferredSum(a.inferred, b.inferred), elementwise),
        of(InferredDifference(a.inferred, b.inferred), elementwise),
        of(InferredProduct(a.inferred, b.inferred), elementwise),
        of(InferredLeast(a.inferred, b.inferred), ReadLeast(a.read, b.read)),
        of(InferredComparison(a.inferred, b.inferred), ReadComparison(a.read, b.read))}

\* The values of a clamp are not those saving saw, so neither is their order.
Ternary(a, b, c) ==
    LET loose == a.loose \/ b.loose \/ c.loose
    IN {Operand(InferredClamp(a.inferred, b.inferred, c.inferred, saving),
                ReadClamp(a.read, b.read, c.read, reading),
                loose \/ ~reading) : saving, reading \in BOOLEAN}
         \union {Operand(InferredWhere(a.inferred, b.inferred, c.inferred),
                         ReadWhere(a.read, b.read, c.read), loose)}

\* if c {a} else {b}: one branch is run.  A comparison that depends on the
\* picks is true when inferring, so the branch that is read may be the one
\* saving never looked at.
Branching(c, a, b) ==
    LET runs(c1, c2) == Operand(IF c.inferred = Truth THEN c1.inferred ELSE Refused,
                                IF c.read = "truth" THEN c2.read ELSE "refused",
                                c.loose \/ a.loose \/ b.loose \/ ~Alike(a) \/ ~Alike(b)
                                  \/ a.read # b.read)
    IN {runs(a, a), runs(b, b), runs(a, b)}

Below(n) == SubSeq(pending, 1, Len(pending) - n)
Top(n) == pending[Len(pending) - n]

Push == Len(pending) < MaxPending /\ \E leaf \in Leaves : pending' = Append(pending, leaf)

Apply ==
    \/ Len(pending) >= 1 /\ \E o \in Unary(Top(0)) : pending' = Append(Below(1), o)
    \/ Len(pending) >= 2 /\ \E o \in Binary(Top(1), Top(0)) : pending' = Append(Below(2), o)
    \/ Len(pending) >= 3 /\ \E o \in Ternary(Top(2), Top(1), Top(0)) :
                              pending' = Append(Below(3), o)
    \/ Len(pending) >= 3 /\ \E o \in Branching(Top(2), Top(1), Top(0)) :
                              pending' = Append(Below(3), o)

ExpressionInit == pending = <<>>
ExpressionNext == Push \/ Apply
ExpressionSpec == ExpressionInit /\ [][ExpressionNext]_pending

(***************************************************************************)
(* What saving and reading promise.                                        *)
(***************************************************************************)

\* infer_kind has a kind for it, and the item is saved; evaluate_at has a
\* number for it at every position.
Infers(o) == o.inferred.form \in {"single", "number", "truth"}
Evaluates(o) == o.read = "number"

ExpressionTypeOK == pending \in Seq(Operands)

\* What is saved as a value can be read: of expressions that only reduce and
\* concatenate layers, whose if-branches have one shape, and whose clamps have
\* bounds in order where they are read (what saving never looks at: a bound
\* reduced from a layer nobody picked there is NaN, and panics), every one that
\* infers a kind other than true/false evaluates to a number - however the
\* functions are nested, and with an item's value, a layer or a plain number
\* wherever one may stand.
SavedIsReadable ==
    \A i \in DOMAIN pending :
        LET o == pending[i] IN
            ~o.loose /\ Infers(o) /\ o.inferred # Truth => Evaluates(o)

\* Inference and evaluation "accept the same expressions" (the test of that
\* name in derive.rs): also one that reduces what is single already, or clamps
\* between bounds that are out of order.
EverySavedIsReadable ==
    \A i \in DOMAIN pending :
        LET o == pending[i] IN Infers(o) /\ o.inferred # Truth => Evaluates(o)
=============================================================================
