-------------------------------- MODULE BigInts --------------------------------
(***************************************************************************)
(* Integers that go between Rust and JavaScript as BigInts: the            *)
(* conversions of Rust's integers, BigInt (bindgen_runtime/js_values) and  *)
(* JsBigInt (js_values), both in a file bigint.rs, of                      *)
(* src/vendor-crates/napi/src.                                             *)
(*                                                                         *)
(* A word has Base values in place of 2^64; an i64 and a u64 are one word, *)
(* an i128 and a u128 are two.                                             *)
(***************************************************************************)
EXTENDS Integers, Sequences, FiniteSets

CONSTANTS
  Base,            \* values of a word
  MaxMagnitude,    \* bound: numbers of JavaScript, beyond two words
  OverflowChecks   \* whether the build panics on overflow

ASSUME BaseAssumption == Base \in Nat /\ Base > 1 /\ Base % 2 = 0 /\ MaxMagnitude \in Nat

VARIABLES
  place,    \* where the number is: "rust", "js", "read", or "panicked"
  source,   \* the Rust type it came as, "js" if JavaScript made it
  number,   \* the number
  arrived,  \* what JavaScript has for it
  getter,   \* how it was read back, [type, name]
  answer    \* what that gave: [signed, val, flag]

bigIntVars == <<place, source, number, arrived, getter, answer>>

Half == Base \div 2
I64 == (-Half)..(Half - 1)
U64 == 0..(Base - 1)
I128 == (-(Base * Half))..(Base * Half - 1)
U128 == 0..(Base * Base - 1)
Numbers == (-MaxMagnitude)..MaxMagnitude

Magnitude(n) == IF n < 0 THEN -n ELSE n

\* Casts: to an unsigned number of m values, and to the signed one.
AsUnsigned(n, m) == n % m
AsSigned(n, m) == IF n % m >= m \div 2 THEN (n % m) - m ELSE n % m

\* The value of the first two words.
Two(words) == IF Len(words) = 1 THEN words[1] ELSE words[1] + Base * words[2]

\* (-1)^sign_bit (words[0] * (2^64)^0 + words[1] * (2^64)^1 + ...): napi_create_bigint_words, which
\* is given one word or two.
FromWords(sign, words) == IF sign THEN -Two(words) ELSE Two(words)

\* The words of an integer that has two.
TwoWords(n) == <<n % Base, (n \div Base) % Base>>

\* As many words as a number has: none for 0.
WordsOf[n \in Nat] == IF n = 0 THEN << >> ELSE <<n % Base>> \o WordsOf[n \div Base]

-----------------------------------------------------------------------------
\* (Mutant) the words of a u128 are those of an i128.
U128Signed(n) == LET v == AsSigned(n, Base * Base) IN
                 [sign |-> v < 0, words |-> TwoWords(AsUnsigned(v, Base * Base))]

\* From<u128>, and u128's to_napi_value
FromU128(n) == [sign |-> FALSE, words |-> TwoWords(n)]

\* From<u64>; a u64 and a usize go through napi_create_bigint_uint64.
FromU64(n) == [sign |-> FALSE, words |-> <<n>>]

\* From<i64>: the word is the cast.
FromI64(n) == [sign |-> n < 0, words |-> <<AsUnsigned(n, Base)>>]

\* From<i128>: the words are those of the negated value, which the least one does not have.
FromI128(n) == [sign |-> n < 0, words |-> TwoWords(AsUnsigned(Magnitude(n), Base * Base))]

\* i128's to_napi_value: the words are those of the value, and 0 has a sign.
I128ToNapi(n) == [sign |-> n <= 0, words |-> TwoWords(AsUnsigned(n, Base * Base))]

Sends(type, n) ==
  CASE type = "u64" -> FromU64(n)
    [] type = "u128" -> FromU128(n)
    [] type = "i64" -> FromI64(n)
    [] type = "i128" -> I128ToNapi(n)
    [] type = "i128 as BigInt" -> FromI128(n)

Domain(type) ==
  CASE type = "u64" -> U64 [] type = "u128" -> U128
    [] type \in {"i64", "i64n"} -> I64 [] type \in {"i128", "i128 as BigInt"} -> I128

IntTypes == {"u64", "u128", "i64", "i64n", "i128", "i128 as BigInt"}

\* ToNapiValue.  An i64n and an isize go through napi_create_bigint_int64, as they are.
NumberToJs ==
  /\ place = "rust"
  /\ IF source = "i64n" THEN place' = "js" /\ arrived' = number
     ELSE IF source = "i128 as BigInt" /\ number = -(Base * Half) /\ OverflowChecks
       THEN place' = "panicked" /\ UNCHANGED arrived
     ELSE LET b == Sends(source, number) IN place' = "js" /\ arrived' = FromWords(b.sign, b.words)
  /\ UNCHANGED <<source, number, getter, answer>>

-----------------------------------------------------------------------------
\* BigInt::from_napi_value; 0 has one word.
FromNapi(n) ==
  [sign |-> n < 0, words |-> IF n = 0 THEN <<0>> ELSE WordsOf[Magnitude(n)]]

Answer(signed, val, flag) == [signed |-> signed, val |-> val, flag |-> flag]

\* BigInt::get_u64: (signed, value, lossless)
GetU64(b) == Answer(b.sign, b.words[1], ~b.sign /\ Len(b.words) = 1)

\* BigInt::get_i64: (value, lossless); the sign is not asked.
GetI64(b) == Answer(FALSE, AsSigned(b.words[1], Base), Len(b.words) = 1)

\* BigInt::get_i128: (value, lossless); the sign is asked if there are two words, and the flag says
\* that there are more.
GetI128(b) ==
  IF Len(b.words) = 1 THEN Answer(FALSE, b.words[1], FALSE)
  ELSE LET val == AsSigned(Two(b.words), Base * Base) IN
       Answer(FALSE, IF b.sign THEN AsSigned(-val, Base * Base) ELSE val, Len(b.words) > 2)

\* Where GetI128's negation overflows.
NegatesLeast(b) ==
  b.sign /\ Len(b.words) > 1 /\ AsSigned(Two(b.words), Base * Base) = -(Base * Half)

\* BigInt::get_u128: (signed, value, lossless); the flag says that there are more than two words.
GetU128(b) == Answer(b.sign, Two(b.words), Len(b.words) > 2)

ReadBigInt(name) ==
  LET b == FromNapi(arrived) IN
  /\ place = "js"
  /\ getter' = [type |-> "BigInt", name |-> name]
  /\ IF name = "get_i128" /\ NegatesLeast(b) /\ OverflowChecks
       THEN place' = "panicked" /\ UNCHANGED answer
       ELSE /\ place' = "read"
            /\ answer' = CASE name = "get_u64" -> GetU64(b) [] name = "get_i64" -> GetI64(b)
                           [] name = "get_u128" -> GetU128(b) [] name = "get_i128" -> GetI128(b)
  /\ UNCHANGED <<source, number, arrived>>

-----------------------------------------------------------------------------
\* JsBigInt::get_words: a missing word counts as 0.
JsTwo(n) == AsUnsigned(Magnitude(n), Base * Base)

\* JsBigInt::get_i128: (value, loss); overflowing_neg.
JsGetI128(n) ==
  LET val == AsSigned(JsTwo(n), Base * Base)
      overflow == n < 0 /\ val = -(Base * Half) IN
  Answer(FALSE, IF n < 0 THEN AsSigned(-val, Base * Base) ELSE val,
         overflow \/ Magnitude(n) >= Base * Base)

\* JsBigInt::get_u128: (signed, value, loss)
JsGetU128(n) == Answer(n < 0, JsTwo(n), Magnitude(n) >= Base * Base)

\* JsBigInt::get_i64, get_u64, TryFrom: napi_get_value_bigint_int64 and _uint64, (value, lossless).
JsGet64(name, n) ==
  LET val == IF name = "get_i64" THEN AsSigned(n, Base) ELSE AsUnsigned(n, Base) IN
  Answer(FALSE, val, val = n)

ReadJsBigInt(name) ==
  /\ place = "js"
  /\ getter' = [type |-> "JsBigInt", name |-> name]
  /\ place' = "read"
  /\ answer' = CASE name = "get_i128" -> JsGetI128(arrived)
                 [] name = "get_u128" -> JsGetU128(arrived)
                 [] OTHER -> JsGet64(name, arrived)
  /\ UNCHANGED <<source, number, arrived>>

NumbersStart(type, n) ==
  /\ source = type /\ number = n /\ arrived = n
  /\ place = IF type = "js" THEN "js" ELSE "rust"
  /\ getter = [type |-> "none", name |-> "none"]
  /\ answer = Answer(FALSE, 0, FALSE)

NumbersInit ==
  \/ \E type \in IntTypes : \E n \in Domain(type) : NumbersStart(type, n)
  \/ \E n \in Numbers : NumbersStart("js", n)

NumbersNext ==
  \/ NumberToJs
  \/ \E name \in {"get_u64", "get_i64", "get_u128", "get_i128"} :
       ReadBigInt(name) \/ ReadJsBigInt(name)

NumbersSpec == NumbersInit /\ [][NumbersNext]_bigIntVars

-----------------------------------------------------------------------------
Exact == IF answer.signed THEN -answer.val ELSE answer.val

\* A number arrives as it was; what is negative and goes by From<i64> or i128's to_napi_value is
\* left to SignedArrives.
NumbersArrive ==
  place # "rust" /\ (source \in {"i64", "i128"} => number >= 0) =>
    arrived = number \/ place = "panicked"

\* The getters of 128 unsigned bits give what two words hold, BigInt::get_u64 is exact when it says
\* "lossless", and JsBigInt's getters of 64 bits say so exactly when they are.
UnsignedIsTold ==
  place = "read" =>
    /\ getter.name = "get_u128" /\ Magnitude(arrived) < Base * Base => Exact = arrived
    /\ getter = [type |-> "BigInt", name |-> "get_u64"] /\ answer.flag => Exact = arrived
    /\ getter.type = "JsBigInt" /\ getter.name \in {"get_i64", "get_u64"} =>
         answer.flag = (Exact = arrived)

\* The getters of 128 signed bits give every number an i128 has, but that BigInt::get_i128 does not
\* ask the sign of a number of one word.
I128IsRead ==
  place = "read" /\ getter.name = "get_i128" /\ arrived \in I128 =>
    answer.val = arrived \/ (getter.type = "BigInt" /\ arrived \in (1 - Base)..(-1))

\* Numbers cross in both directions without a change that nobody is told of; excepted by name are
\* the negative numbers above, and BigInt::get_i64 and the flags of 128 bits, of which nothing is
\* said.
NumbersSurvive == NumbersArrive /\ UnsignedIsTold /\ I128IsRead

\* What lines 22 to 24 of bindgen_runtime/js_values/bigint.rs give a BigInt as: a sign and the
\* magnitude in its words.  From<i64> and i128's to_napi_value store two's complement there with
\* the sign beside it, so a negative number of width w arrives as -(w + number).
SignedArrives == place = "js" /\ source \in {"i64", "i128"} => arrived = number
=============================================================================
