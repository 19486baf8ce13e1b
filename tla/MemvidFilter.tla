---------------------------- MODULE MemvidFilter -----------------------------
(***************************************************************************)
(* The search filter of store.rs and the way it reaches memvid-core.       *)
(*                                                                         *)
(* A JSON value is [type, num].  An int is its value, a float twice its    *)
(* value (so that an odd num has a fraction), a bool 0 or 1, and string    *)
(* number k is the text of k.  serde_json keeps an integer from i64::MIN   *)
(* to u64::MAX as an integer.  Both widths are scaled down: an i64 has     *)
(* Width bits and an f64 a mantissa of Mantissa bits.                      *)
(* ACL contexts and snippet sizes, the same for every search of a store,   *)
(* are left out.                                                           *)
(***************************************************************************)
EXTENDS Integers, Sequences

CONSTANTS
    Width,         \* bits of an i64
    Mantissa,      \* bits of the mantissa of an f64
    MaxSamples     \* MAX_SAMPLES

ASSUME WidthAssumption ==
    Width \in Nat /\ Mantissa \in Nat /\ 1 < Mantissa /\ Mantissa < Width - 1
ASSUME SamplesAssumption == MaxSamples \in Nat

Pow2[k \in 0..Width] == IF k = 0 THEN 1 ELSE 2 * Pow2[k - 1]

MinI64 == -Pow2[Width - 1]
MaxI64 == Pow2[Width - 1] - 1

None == [type |-> "none", num |-> 0]

Int64(n) == [type |-> "int", num |-> n]

Strings == {"uri", "scope", "cursor"}
Keys    == Strings \cup {"as_of_frame", "as_of_ts", "no_sketch"}

------------------------------------------------------------------------------
(* The f64 nearest to a non-negative integer, ties to the even mantissa.   *)
AsF64(n) ==
    LET ulp  == CHOOSE u \in {Pow2[k] : k \in 0..Width} :
                    /\ n <= u * Pow2[Mantissa]
                    /\ \A k \in 0..Width : n <= Pow2[k] * Pow2[Mantissa] => u <= Pow2[k]
        down == n \div ulp
        rest == n % ulp
    IN  IF 2 * rest < ulp \/ (2 * rest = ulp /\ down % 2 = 0)
        THEN down * ulp ELSE (down + 1) * ulp

(* An integral float in the range of the bounds as floats; the cast to i64 *)
(* saturates.  twice is twice its value.                                   *)
FromFloat(twice) ==
    IF twice % 2 = 0 /\ 2 * MinI64 <= twice /\ twice <= 2 * AsF64(MaxI64)
    THEN Int64(IF twice \div 2 > MaxI64 THEN MaxI64 ELSE twice \div 2)
    ELSE None

AsOfTs(v) ==
    CASE v.type = "int" /\ v.num <= MaxI64 -> v
      [] v.type = "int" /\ v.num > MaxI64  -> FromFloat(2 * AsF64(v.num))
      [] v.type = "float"                  -> FromFloat(v.num)
      [] OTHER                             -> None

JsonAsString(v) == [type |-> "string", num |-> v.num]

(* What a clause eq(key, v) sets its key to; None if it is not supported.  *)
Converted(key, v) ==
    CASE key \in Strings                                             -> JsonAsString(v)
      [] key = "as_of_frame" /\ v.type = "int" /\ v.num >= 0         -> v
      [] key = "as_of_ts"                                            -> AsOfTs(v)
      [] key = "no_sketch" /\ v.type = "bool"                        -> v
      [] OTHER                                                       -> None

------------------------------------------------------------------------------
(* A filter maps each key to what it is restricted to; invalid counts the  *)
(* reasons why it cannot be applied.                                       *)

Default == [key \in Keys \cup {"invalid"} |-> IF key = "invalid" THEN 0 ELSE None]

Unsupported == [Default EXCEPT !.invalid = 1]

Eq(key, v) ==
    IF Converted(key, v) = None THEN Unsupported
    ELSE [Default EXCEPT ![key] = Converted(key, v)]

Gt(key) == Unsupported
Lt(key) == Unsupported

(* Mutant of Merge: the reasons of the right operand are lost.             *)
MergeLosingReasons(f, g) ==
    [key \in Keys \cup {"invalid"} |->
        IF key = "invalid" THEN f.invalid
        ELSE IF g[key] # None THEN g[key] ELSE f[key]]

(* The right operand wins where both restrict a key.                       *)
Merge(f, g) ==
    [key \in Keys \cup {"invalid"} |->
        IF key = "invalid" THEN f.invalid + g.invalid
        ELSE IF g[key] # None THEN g[key] ELSE f[key]]

And(f, g) == Merge(f, g)

Or(f, g) == Unsupported

IsValid(f) == f.invalid = 0

------------------------------------------------------------------------------
TopK(samples) == IF samples < MaxSamples THEN samples ELSE MaxSamples

(* Mutant of ApplyTo: the keys that restrict no frames are forgotten.      *)
ApplyToOfRestrictions(f, request) ==
    [key \in DOMAIN request |->
        IF key \in Keys \ {"cursor", "no_sketch"} /\ f[key] # None THEN f[key] ELSE request[key]]

(* What the filter restricts takes the place of what the request has.      *)
ApplyTo(f, request) ==
    [key \in DOMAIN request |-> IF key \in Keys /\ f[key] # None THEN f[key] ELSE request[key]]

(* build_search_request: what the lexical path sends to memvid-core.       *)
LexRequest(f, samples) ==
    ApplyTo(f, [key \in Keys \cup {"top_k"} |->
                   IF key = "top_k" THEN TopK(samples)
                   ELSE IF key = "no_sketch" THEN [type |-> "bool", num |-> 0] ELSE None])

EnsureVecFilterSupported(f) ==
    f.uri = None /\ f.as_of_frame = None /\ f.as_of_ts = None

(* Mutant of VecRequest: the scope is lost as well.                        *)
VecRequestOfQueryOnly(f, samples) ==
    [key \in Keys \cup {"top_k"} |-> IF key = "top_k" THEN TopK(samples) ELSE None]

(* vec_search passes the scope on and nothing else of the filter: cursor   *)
(* and no_sketch, which EnsureVecFilterSupported lets pass, are dropped.   *)
VecRequest(f, samples) ==
    [key \in Keys \cup {"top_k"} |->
        IF key = "top_k" THEN TopK(samples)
        ELSE IF key = "scope" THEN f.scope ELSE None]

------------------------------------------------------------------------------
(* The filters a caller can build: a sequence of clauses, each joined to   *)
(* what the clauses before it gave.  No clause is no filter.               *)

Leaf(c) ==
    CASE c.op = "eq" -> Eq(c.key, c.value)
      [] c.op = "gt" -> Gt(c.key)
      [] c.op = "lt" -> Lt(c.key)

Join(f, c) ==
    CASE c.how = "and"    -> And(f, Leaf(c))
      [] c.how = "before" -> And(Leaf(c), f)
      [] c.how = "or"     -> Or(f, Leaf(c))

Filter(clauses) ==
    LET joined[n \in 0..Len(clauses)] ==
            IF n = 0 THEN Default
            ELSE IF n = 1 THEN Leaf(clauses[1])
            ELSE Join(joined[n - 1], clauses[n])
    IN  joined[Len(clauses)]

(* The same clauses from left to right.                                    *)
InOrder(clauses) ==
    LET ordered[n \in 0..Len(clauses)] ==
            IF n = 0 THEN <<>>
            ELSE IF clauses[n].how = "before" THEN <<clauses[n]>> \o ordered[n - 1]
            ELSE Append(ordered[n - 1], clauses[n])
    IN  ordered[Len(clauses)]

(* What restricts a key: its last clause.                                  *)
Effective(clauses) ==
    LET ordered == InOrder(clauses)
        last == {i \in 1..Len(ordered) :
                    \A j \in i + 1..Len(ordered) : ordered[j].key # ordered[i].key}
    IN  {[key |-> ordered[i].key, value |-> ordered[i].value] : i \in last}

------------------------------------------------------------------------------
(* The values the table of MemvidFilter and the comments of its functions  *)
(* allow, in the numbers that were asked for.                              *)

Twice(v) == IF v.type = "float" THEN v.num ELSE 2 * v.num

Numeric(v) == v.type \in {"int", "float"}

(* A number just above the largest i64 is read as it is: half the distance *)
(* of two floats there, as such a number is rounded to a float first.      *)
IntegralI64(v) ==
    /\ Numeric(v)
    /\ Twice(v) % 2 = 0
    /\ Twice(v) >= -Pow2[Width]
    /\ Twice(v) <= Pow2[Width] + (IF v.type = "int" THEN Pow2[Width - Mantissa] ELSE 0)

Supported(c) ==
    /\ c.op = "eq" /\ c.how # "or"
    /\ \/ c.key \in Strings
       \/ c.key = "as_of_frame" /\ c.value.type = "int" /\ c.value.num >= 0
       \/ c.key = "as_of_ts" /\ IntegralI64(c.value)
       \/ c.key = "no_sketch" /\ c.value.type = "bool"
==============================================================================
