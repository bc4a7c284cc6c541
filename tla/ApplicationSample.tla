-------------------------- MODULE ApplicationSample --------------------------
(***************************************************************************)
(* The struct riff::ApplicationSample: its construction, its copies, and   *)
(* the text form that operator<< writes and operator>> reads.              *)
(*                                                                         *)
(* Doubles are integers here.  A text is a sequence of the tokens that     *)
(* operator>> tells apart: the brackets, the colon that ends a field's     *)
(* name, and numbers.                                                      *)
(***************************************************************************)
EXTENDS Integers, SequencesExt, FiniteSetsExt

CONSTANTS
  MaxCustomFields,  \* RIFF_MAX_CUSTOM_FIELDS
  PrintLimit        \* a power of ten: the integers below it are printed in
                    \* full; 10^6 with the ostream's default of 6 digits

ASSUME SampleAssumption ==
  /\ MaxCustomFields \in Nat
  /\ PrintLimit \in Nat /\ PrintLimit > 1

\* customFields[i] of the code is customFields[i + 1] here.
Fields == 1 .. MaxCustomFields

Sample == [inconsistent : BOOLEAN, loadPercentage : Int, throughput : Int,
           latency : Int, numTasks : Int, customFields : [Fields -> Int]]

\* The default constructor.
EmptySample ==
  [inconsistent |-> FALSE, loadPercentage |-> 0, throughput |-> 0,
   latency |-> 0, numTasks |-> 0, customFields |-> [j \in Fields |-> 0]]

\* The copy constructor, swap() and operator=.
Copy(s) == [f \in DOMAIN s |-> s[f]]

-----------------------------------------------------------------------------
(* Text *)

Mark(c)   == [kind |-> c, value |-> 0]
Number(x) == [kind |-> "number", value |-> x]

\* x, from 0 to below 10^4 * PrintLimit, as it is read back from its printed
\* form: rounded to the printed digits, a tie to the even one.
Printed(x) ==
  LET unit  == Min({u \in {1, 10, 100, 1000, 10000} : x < u * PrintLimit})
      below == x \div unit
      rest  == 2 * (x % unit)
      up    == rest > unit \/ (rest = unit /\ below % 2 = 1)
  IN  (IF up THEN below + 1 ELSE below) * unit

\* The values in the order of operator<<.
Values(s) ==
  <<IF s.inconsistent THEN 1 ELSE 0, s.loadPercentage, s.throughput,
    s.latency, s.numTasks>> \o s.customFields

\* Mutant: latency and throughput are read in the wrong order.
FromValues_Swapped(v) ==
  [inconsistent |-> v[1] = 1, loadPercentage |-> v[2], throughput |-> v[4],
   latency |-> v[3], numTasks |-> v[5],
   customFields |-> [j \in Fields |-> v[5 + j]]]

\* The fields that operator>> fills, in its order.
FromValues(v) ==
  [inconsistent |-> v[1] = 1, loadPercentage |-> v[2], throughput |-> v[3],
   latency |-> v[4], numTasks |-> v[5],
   customFields |-> [j \in Fields |-> v[5 + j]]]

\* operator<<, by a program whose samples have the given values.
Write(values) ==
  LET field(x) == <<Mark(":"), Number(Printed(x))>>
  IN  <<Mark("[")>>
      \o FlattenSeq([k \in DOMAIN values |-> field(values[k])])
      \o <<Mark("]")>>

\* istream::ignore(max, c): what follows the next c, nothing if there is none.
Ignore(text, c) ==
  LET k == SelectInSeq(text, LAMBDA token : token.kind = c)
  IN  IF k = 0 THEN << >> ELSE SubSeq(text, k + 1, Len(text))

\* Skips to the next colon and reads a number into the k-th field; at the end
\* of the text the field keeps its value.
ReadField(is, k) ==
  LET rest == Ignore(is.text, ":")
  IN  IF rest = << >> THEN [is EXCEPT !.text = rest]
      ELSE [text |-> Tail(rest),
            values |-> [is.values EXCEPT ![k] = Head(rest).value]]

\* operator>> into s: the text that is left and the new value of s.
Read(text, s) ==
  LET values == Values(s)
      reads[k \in 0 .. Len(values)] ==
        IF k = 0 THEN [text |-> Ignore(text, "["), values |-> values]
        ELSE ReadField(reads[k - 1], k)
      end == reads[Len(values)]
  IN  [text |-> Ignore(end.text, "]"), sample |-> FromValues(end.values)]
=============================================================================
