----------------------------- MODULE WireProofs -----------------------------
(* Proofs about Wire, for any names, values, numbers of arguments, sizes   *)
(* of the buffer and number of values of a byte.                           *)
EXTENDS Wire, SequenceTheorems, WellFoundedInduction, TLAPS

-----------------------------------------------------------------------------
(* The layout of the message.                                              *)

HeadLen   == Len(call.name) + 1 + Width
ArgLen(a) == Len(a.name) + 1 + Width + Len(a.value)

(* The byte at k is what the composer wrote, unless it was overwritten.    *)
Kept(k) == pc \in {"compose", "read", "refused"} \/ Overwritten(k) \notin 1 .. Width
Holds(k, b) == k \in 1 .. Len(text) /\ (Kept(k) => text[k] = b)
HoldsWord(k, n) == Holds(k, n % Base) /\ Holds(k + 1, n \div Base)

HeadLaid ==
  /\ \A j \in 1 .. Len(call.name) : Holds(j, call.name[j])
  /\ Holds(Len(call.name) + 1, 0)
  /\ HoldsWord(Len(call.name) + 2, IF call.type = "SPAWN" THEN call.pid ELSE Len(call.args))

ArgLaid(i) ==
  LET a == call.args[i] IN
  /\ \A j \in 1 .. Len(a.name) : Holds(at[i] + j, a.name[j])
  /\ Holds(at[i] + Len(a.name) + 1, 0)
  /\ HoldsWord(at[i] + Len(a.name) + 2, Len(a.value))
  /\ \A j \in 1 .. Len(a.value) : Holds(ValueFrom(i) + j, a.value[j])

(* Where argument i begins, or the text ends.                              *)
Beginning(i) == IF i = 1 THEN HeadLen ELSE at[i - 1] + ArgLen(call.args[i - 1])

Layout ==
  /\ HeadLaid
  /\ Len(at) <= Len(call.args)
  /\ call.type = "SPAWN" => at = <<>>
  /\ pc # "compose" /\ call.type = "HOOK" => Len(at) = Len(call.args)
  /\ Len(text) = Beginning(Len(at) + 1)
  /\ \A i \in DOMAIN at :
       /\ at[i] = Beginning(i) /\ ArgLaid(i)
       /\ HeadLen <= at[i] /\ at[i] + ArgLen(call.args[i]) <= Len(text)
  /\ \A i, j \in DOMAIN at : i < j => at[i] + ArgLen(call.args[i]) <= at[j]

-----------------------------------------------------------------------------
(* The place of the parser.                                                *)

Lost == {k \in 1 .. Len(text) : Overwritten(k) \in 1 .. Width}
InValue(i) == ValueFrom(i) + 1 .. ValueFrom(i) + Len(call.args[i].value)

(* No byte is lost but in one value.                                       *)
OneValue == Lost = {} \/ \E i \in DOMAIN at : Lost \subseteq InValue(i)

(* Argument j was read, but for the bytes of its value that are lost.      *)
ArgRead(j) ==
  /\ t.args[j].name = call.args[j].name
  /\ Len(t.args[j].value) = Len(call.args[j].value)
  /\ \A m \in 1 .. Len(call.args[j].value) :
       ValueFrom(j) + m \notin Lost => t.args[j].value[m] = call.args[j].value[m]

Unparsed == p = 0 /\ count = 0 /\ t = [name |-> <<>>, pid |-> 0, args |-> <<>>]

InPlace ==
  /\ t.name = call.name
  /\ call.type = "SPAWN" => t.pid = call.pid /\ t.args = <<>> /\ p = Len(text)
  /\ call.type = "HOOK" =>
       /\ t.pid = 0 /\ count = Len(call.args) /\ Len(t.args) <= count
       /\ p = Beginning(Len(t.args) + 1)
       /\ \A j \in DOMAIN t.args : ArgRead(j)
       /\ pc = "done" => Len(t.args) = count

ParserInv ==
  /\ pc \in {"compose", "read", "refused", "name"} => Unparsed
  /\ pc = "args" => call.type = "HOOK"
  /\ pc \in {"args", "done"} /\ OneValue => InPlace
  /\ pc = "astray" => ~OneValue

IInv == TypeOK /\ Layout /\ ParserInv /\ NoMoreThanSent
-----------------------------------------------------------------------------
(* Numbers and their bytes.                                                *)

LEMMA ByteTypes ==
  /\ 0 \in Bytes /\ Bytes \subseteq Nat
  /\ \A b \in Bytes : b < Base
BY BaseAssumption DEF Bytes

LEMMA DivMod ==
  ASSUME NEW n \in Nat
  PROVE  /\ n % Base \in Nat /\ n % Base < Base /\ n \div Base \in Nat
         /\ n = Base * (n \div Base) + (n % Base)
BY BaseAssumption, SMT

(* A number below Base * Base has two bytes.                               *)
LEMMA WordBytes ==
  ASSUME NEW n \in Nat, n < Base * Base
  PROVE  n % Base \in Bytes /\ n \div Base \in Bytes
<1>1. /\ n = Base * (n \div Base) + (n % Base)
      /\ n % Base \in Nat /\ n % Base < Base /\ n \div Base \in Nat
  BY DivMod
<1>2. \A k, b \in Nat : b > 0 /\ k >= b => b * k >= b * b
  OBVIOUS
<1>3. Base * (n \div Base) \in Nat
  BY <1>1, BaseAssumption
<1>4. n \div Base < Base
  BY <1>1, <1>2, <1>3, BaseAssumption
<1> QED BY <1>1, <1>4, BaseAssumption DEF Bytes

(* What the constants are.                                                 *)
LEMMA ArgTypes ==
  ASSUME NEW a \in Arg
  PROVE  /\ a.name \in Seq(Bytes) /\ a.value \in Seq(Bytes)
         /\ Len(a.name) \in Nat /\ Len(a.value) \in Nat
         /\ \A j \in 1 .. Len(a.name) : a.name[j] \in Bytes \ {0}
         /\ Len(a.value) < Base * Base
<1>1. a.name \in Names /\ a.value \in Values
  BY DEF Arg
<1>2. a.name \in Seq(Bytes \ {0}) /\ a.value \in Seq(Bytes) /\ Len(a.value) < Base * Base
  BY <1>1, TextsAssumption
<1>3. \A j \in 1 .. Len(a.name) : a.name[j] \in Bytes \ {0}
  BY <1>2, ElementOfSeq
<1>4. a.name \in Seq(Bytes)
  BY <1>2, SeqMonotonic
<1> QED BY <1>2, <1>3, <1>4, LenProperties

LEMMA NameTypes ==
  ASSUME NEW s \in Names
  PROVE  /\ s \in Seq(Bytes) /\ Len(s) \in Nat
         /\ \A j \in 1 .. Len(s) : s[j] \in Bytes \ {0}
<1>1. s \in Seq(Bytes \ {0})
  BY TextsAssumption
<1>2. \A j \in 1 .. Len(s) : s[j] \in Bytes \ {0}
  BY <1>1, ElementOfSeq
<1>3. s \in Seq(Bytes)
  BY <1>1, SeqMonotonic
<1> QED BY <1>2, <1>3, LenProperties

LEMMA CallTypes ==
  ASSUME TypeOK
  PROVE  /\ call.type \in {"SPAWN", "HOOK"} /\ call.name \in Names /\ call.pid \in Pids
         /\ call.args \in Seq(Arg) /\ Len(call.args) \in Nat
         /\ \A i \in 1 .. Len(call.args) : call.args[i] \in Arg
         /\ call.pid \in Nat /\ call.pid < Base * Base
         /\ Len(call.args) < Base * Base
<1>1. /\ call.type \in {"SPAWN", "HOOK"} /\ call.name \in Names /\ call.pid \in Pids
      /\ call.args \in Seq(Arg) /\ Len(call.args) <= MaxArgs
  BY DEF TypeOK, Call
<1>2. Len(call.args) \in Nat /\ \A i \in 1 .. Len(call.args) : call.args[i] \in Arg
  BY <1>1, LenProperties, ElementOfSeq
<1>3. Base * Base \in Int
  BY BaseAssumption
<1>4. call.pid \in 0 .. Base * Base - 1 /\ MaxArgs \in 0 .. Base * Base - 1
  BY <1>1, TextsAssumption
<1> QED BY <1>1, <1>2, <1>3, <1>4

(* Where the elements of two sequences stand when they are joined.         *)
LEMMA ConcatAt ==
  ASSUME NEW S, NEW s1 \in Seq(S), NEW s2 \in Seq(S), NEW c, c = s1 \o s2
  PROVE  /\ c \in Seq(S) /\ Len(c) = Len(s1) + Len(s2)
         /\ \A j \in 1 .. Len(s1) : c[j] = s1[j]
         /\ \A j \in 1 .. Len(s2) : c[Len(s1) + j] = s2[j]
<1>1. Len(s1) \in Nat /\ Len(s2) \in Nat
  BY LenProperties
<1>2. /\ c \in Seq(S) /\ Len(c) = Len(s1) + Len(s2)
      /\ \A i \in 1 .. Len(s1) + Len(s2) :
           c[i] = IF i <= Len(s1) THEN s1[i] ELSE s2[i - Len(s1)]
  BY ConcatProperties
<1>3. \A j \in 1 .. Len(s1) : c[j] = s1[j]
  BY <1>1, <1>2
<1>4. \A j \in 1 .. Len(s2) : c[Len(s1) + j] = s2[j]
  <2> SUFFICES ASSUME NEW j \in 1 .. Len(s2) PROVE c[Len(s1) + j] = s2[j]
    OBVIOUS
  <2>1. /\ Len(s1) + j \in 1 .. Len(s1) + Len(s2) /\ ~(Len(s1) + j <= Len(s1))
        /\ (Len(s1) + j) - Len(s1) = j
    BY <1>1
  <2> QED BY <1>2, <2>1
<1> QED BY <1>2, <1>3, <1>4

(* Where each byte of an argument stands in its text.                      *)
LEMMA ArgTextIs ==
  ASSUME NEW a \in Arg
  PROVE  /\ ArgText(a) \in Seq(Bytes) /\ Len(ArgText(a)) = ArgLen(a)
         /\ \A j \in 1 .. Len(a.name) : ArgText(a)[j] = a.name[j]
         /\ ArgText(a)[Len(a.name) + 1] = 0
         /\ ArgText(a)[Len(a.name) + 2] = Len(a.value) % Base
         /\ ArgText(a)[Len(a.name) + 3] = Len(a.value) \div Base
         /\ \A j \in 1 .. Len(a.value) : ArgText(a)[Len(a.name) + 3 + j] = a.value[j]
<1>1. PICK m, n, v : m = Len(a.name) /\ n = Len(a.value) /\ v = a.value
  OBVIOUS
<1>2. a.name \in Seq(Bytes) /\ v \in Seq(Bytes) /\ m \in Nat /\ n \in Nat
  BY <1>1, ArgTypes
<1>3. n % Base \in Bytes /\ n \div Base \in Bytes
  BY <1>1, <1>2, ArgTypes, WordBytes
<1>4. PICK c, w : c = CStr(a.name) /\ w = LengthWord(a)
  OBVIOUS
<1>5. PICK cw, x : cw = c \o w /\ x = cw \o v
  OBVIOUS
<1>6. /\ c \in Seq(Bytes) /\ Len(c) = m + 1 /\ c[m + 1] = 0
      /\ \A j \in 1 .. m : c[j] = a.name[j]
      /\ w \in Seq(Bytes) /\ Len(w) = 2 /\ w[1] = n % Base /\ w[2] = n \div Base
  BY <1>1, <1>2, <1>3, <1>4, ByteTypes, AppendProperties DEF CStr, LengthWord, Word
<1>7. /\ cw \in Seq(Bytes) /\ Len(cw) = m + 3
      /\ \A j \in 1 .. m + 1 : cw[j] = c[j]
      /\ cw[m + 2] = w[1] /\ cw[m + 3] = w[2]
  <2>1. c \in Seq(Bytes) /\ w \in Seq(Bytes) /\ cw = c \o w
    BY <1>5, <1>6
  <2>2. /\ cw \in Seq(Bytes) /\ Len(cw) = Len(c) + Len(w)
        /\ \A j \in 1 .. Len(c) : cw[j] = c[j]
        /\ \A j \in 1 .. Len(w) : cw[Len(c) + j] = w[j]
    BY <2>1, ConcatAt
  <2>3. cw[m + 1 + 1] = w[1] /\ cw[m + 1 + 2] = w[2]
    BY <1>6, <2>2
  <2> QED BY <1>2, <1>6, <2>2, <2>3
<1>8. /\ x \in Seq(Bytes) /\ Len(x) = m + 3 + n
      /\ \A j \in 1 .. m + 3 : x[j] = cw[j]
      /\ \A j \in 1 .. n : x[m + 3 + j] = v[j]
  <2>1. cw \in Seq(Bytes) /\ v \in Seq(Bytes) /\ x = cw \o v
    BY <1>2, <1>5, <1>7
  <2>2. /\ x \in Seq(Bytes) /\ Len(x) = Len(cw) + Len(v)
        /\ \A j \in 1 .. Len(cw) : x[j] = cw[j]
        /\ \A j \in 1 .. Len(v) : x[Len(cw) + j] = v[j]
    BY <2>1, ConcatAt
  <2> QED BY <1>1, <1>7, <2>2
<1>9. ArgText(a) = x
  BY <1>1, <1>4, <1>5 DEF ArgText
<1>10. ArgLen(a) = m + 3 + n
  BY <1>1, <1>2 DEF ArgLen, Width
<1>11. \A j \in 1 .. m + 1 : x[j] = c[j]
  BY <1>2, <1>7, <1>8
<1>12. x[m + 2] = n % Base /\ x[m + 3] = n \div Base
  BY <1>2, <1>6, <1>7, <1>8
<1>13. x[m + 1] = 0 /\ \A j \in 1 .. m : x[j] = a.name[j]
  BY <1>2, <1>6, <1>11
<1> QED BY <1>1, <1>8, <1>9, <1>10, <1>12, <1>13


-----------------------------------------------------------------------------
(* What the parser reads.                                                  *)

(* A nonempty set of naturals has a least element.                         *)
LEMMA LeastOf ==
  ASSUME NEW S \in SUBSET Nat, S # {}
  PROVE  \E i \in S : \A j \in S : i <= j
<1> DEFINE R == {ss \in Nat \X Nat : ss[1] < ss[2]}
<1>1. IsWellFoundedOn(R, Nat)
  BY NatLessThanWellFounded DEF OpToRel
<1> HIDE DEF R
<1>2. PICK x \in S : \A y \in S : ~ (<<y, x>> \in R)
  BY <1>1, WFMin
<1>3. \A y \in S : ~ (y < x)
  BY <1>2 DEF R
<1> QED BY <1>3

LEMMA ByteReads ==
  ASSUME text \in Seq(Bytes), NEW k \in Nat
  PROVE  Byte(k) \in Bytes /\ Byte(k) \in Nat /\ (k >= Len(text) => Byte(k) = 0)
<1>1. Len(text) \in Nat
  BY LenProperties
<1>2. CASE k < Len(text)
  <2>1. k + 1 \in 1 .. Len(text)
    BY <1>1, <1>2
  <2>2. text[k + 1] \in Bytes
    BY <2>1, ElementOfSeq
  <2>3. Byte(k) = text[k + 1]
    BY <1>2 DEF Byte
  <2>4. Byte(k) \in Bytes /\ Byte(k) \in Nat
    BY <2>2, <2>3, ByteTypes
  <2> QED BY <1>1, <1>2, <2>4
<1>3. CASE k >= Len(text)
  BY <1>1, <1>3, ByteTypes DEF Byte
<1> QED BY <1>1, <1>2, <1>3

LEMMA WordReads ==
  ASSUME text \in Seq(Bytes), NEW q \in Nat
  PROVE  WordAt(q) \in Nat
<1>1. Byte(q) \in Nat /\ Byte(q + 1) \in Nat
  <2>1. q + 1 \in Nat
    OBVIOUS
  <2> QED BY <2>1, ByteReads
<1> QED BY <1>1, BaseAssumption DEF WordAt

(* From any place in the text there is a NUL to be found, if only the one  *)
(* behind its last byte.                                                   *)
LEMMA NulFound ==
  ASSUME text \in Seq(Bytes), NEW q \in Nat, q <= Len(text)
  PROVE  NulFrom(q) \in q .. Len(text)
<1> DEFINE S == {k \in q .. Len(text) : Byte(k) = 0}
<1>1. Len(text) \in Nat
  BY LenProperties
<1>2. S \in SUBSET Nat /\ Len(text) \in S
  <2>1. Byte(Len(text)) = 0
    BY <1>1, ByteReads
  <2>2. Len(text) \in q .. Len(text) /\ q .. Len(text) \subseteq Nat
    BY <1>1
  <2> QED BY <2>1, <2>2
<1>3. PICK k \in S : \A j \in S : k <= j
  BY <1>2, LeastOf
<1>4. k \in q .. Len(text) /\ Byte(k) = 0 /\ \A j \in q .. k - 1 : Byte(j) # 0
  BY <1>1, <1>3
<1>5. \E n \in q .. Len(text) : Byte(n) = 0 /\ \A j \in q .. n - 1 : Byte(j) # 0
  BY <1>4
<1> QED BY <1>5 DEF NulFrom

LEMMA StringTypes ==
  ASSUME text \in Seq(Bytes), NEW q \in Nat, q <= Len(text)
  PROVE  StringAt(q) \in Seq(Bytes)
<1>1. NulFrom(q) \in q .. Len(text) /\ Len(text) \in Nat
  BY NulFound, LenProperties
<1>2. CASE q + 1 <= NulFrom(q)
  BY <1>1, <1>2, SubSeqProperties DEF StringAt
<1>3. CASE q + 1 > NulFrom(q)
  BY <1>1, <1>3, SubSeqProperties DEF StringAt
<1> QED BY <1>1, <1>2, <1>3

(* A string that stands at q, and the NUL behind it, is read as it is.     *)
LEMMA StringRead ==
  ASSUME text \in Seq(Bytes), NEW q \in Nat, NEW s \in Seq(Bytes),
         q + Len(s) < Len(text),
         \A j \in 1 .. Len(s) : s[j] # 0 /\ text[q + j] = s[j],
         text[q + Len(s) + 1] = 0
  PROVE  NulFrom(q) = q + Len(s) /\ StringAt(q) = s
<1> DEFINE e == q + Len(s)
<1>1. Len(text) \in Nat /\ Len(s) \in Nat /\ e \in q .. Len(text) /\ e \in Nat /\ e < Len(text)
  BY LenProperties
<1>2. \A j \in q .. e - 1 : Byte(j) # 0
  <2> SUFFICES ASSUME NEW j \in q .. e - 1 PROVE Byte(j) # 0
    OBVIOUS
  <2>1. j - q + 1 \in 1 .. Len(s) /\ q + (j - q + 1) = j + 1 /\ j < Len(text) /\ j \in Nat
    BY <1>1
  <2>2. text[j + 1] # 0
    BY <2>1
  <2> QED BY <2>1, <2>2 DEF Byte
<1>3. Byte(e) = 0
  BY <1>1 DEF Byte
<1>4. \A k \in q .. Len(text) :
        Byte(k) = 0 /\ (\A j \in q .. k - 1 : Byte(j) # 0) => k = e
  <2> SUFFICES ASSUME NEW k \in q .. Len(text),
                      Byte(k) = 0, \A j \in q .. k - 1 : Byte(j) # 0
               PROVE  k = e
    OBVIOUS
  <2>1. ~(k < e)
    BY <1>1, <1>2
  <2>2. ~(e < k)
    BY <1>1, <1>3
  <2> QED BY <1>1, <2>1, <2>2
<1>5. NulFrom(q) \in q .. Len(text) /\ Byte(NulFrom(q)) = 0
      /\ \A j \in q .. NulFrom(q) - 1 : Byte(j) # 0
  BY <1>1, <1>2, <1>3 DEF NulFrom
<1>6. NulFrom(q) = e
  BY <1>4, <1>5
<1>7. StringAt(q) = SubSeq(text, q + 1, e)
  BY <1>6 DEF StringAt
<1> DEFINE u == SubSeq(text, q + 1, e)
<1>8. u \in Seq(Bytes) /\ Len(u) = Len(s) /\ \A j \in 1 .. Len(s) : u[j] = text[q + j]
  <2>1. CASE Len(s) = 0
    BY <1>1, <2>1, SubSeqProperties
  <2>2. CASE Len(s) # 0
    <3>1. q + 1 \in 1 .. Len(text) /\ e \in q .. Len(text) /\ e - (q + 1) + 1 = Len(s)
      BY <1>1, <2>2
    <3>2. u \in Seq(Bytes) /\ Len(u) = Len(s)
          /\ \A j \in 1 .. Len(s) : u[j] = text[q + 1 + j - 1]
      BY <1>1, <2>2, <3>1, SubSeqProperties
    <3>3. \A j \in 1 .. Len(s) : q + 1 + j - 1 = q + j
      BY <1>1
    <3> QED BY <3>2, <3>3
  <2> QED BY <2>1, <2>2
<1> HIDE DEF u
<1>9. u = s
  BY <1>8, SeqEqual
<1> QED BY <1>6, <1>7, <1>9 DEF u

(* So is a number whose bytes stand at q.                                  *)
LEMMA WordRead ==
  ASSUME text \in Seq(Bytes), NEW q \in Nat, NEW n \in Nat,
         q + 2 <= Len(text), text[q + 1] = n % Base, text[q + 2] = n \div Base
  PROVE  WordAt(q) = n
<1>1. Len(text) \in Nat
  BY LenProperties
<1>2. q < Len(text) /\ q + 1 < Len(text) /\ q + 1 + 1 = q + 2
  BY <1>1
<1>3. Byte(q) = n % Base /\ Byte(q + 1) = n \div Base
  BY <1>2 DEF Byte
<1>4. /\ n = Base * (n \div Base) + (n % Base)
      /\ n % Base \in Nat /\ n \div Base \in Nat
  BY DivMod
<1>5. Base * (n \div Base) \in Nat
  BY <1>4, BaseAssumption
<1>6. WordAt(q) = (n % Base) + Base * (n \div Base)
  BY <1>3 DEF WordAt
<1> QED BY <1>4, <1>5, <1>6

-----------------------------------------------------------------------------
(* The layout stays as the composer makes it.                              *)

LEMMA TextTypes ==
  ASSUME TypeOK
  PROVE  /\ text \in Seq(Bytes) /\ Len(text) \in Nat
         /\ at \in Seq(Nat) /\ Len(at) \in Nat /\ DOMAIN at = 1 .. Len(at)
         /\ \A i \in DOMAIN at : at[i] \in Nat
         /\ p \in Nat /\ count \in Nat
         /\ t \in Parsed /\ t.args \in Seq([name : Seq(Bytes), value : Seq(Bytes)])
         /\ Len(t.args) \in Nat /\ DOMAIN t.args = 1 .. Len(t.args)
<1>1. text \in Seq(Bytes) /\ at \in Seq(Nat) /\ p \in Nat /\ count \in Nat /\ t \in Parsed
  BY DEF TypeOK
<1>2. t.args \in Seq([name : Seq(Bytes), value : Seq(Bytes)])
  BY <1>1 DEF Parsed
<1>3. Len(text) \in Nat /\ Len(at) \in Nat /\ DOMAIN at = 1 .. Len(at)
  BY <1>1, LenProperties
<1>4. \A i \in DOMAIN at : at[i] \in Nat
  BY <1>1, <1>3, ElementOfSeq
<1>5. Len(t.args) \in Nat /\ DOMAIN t.args = 1 .. Len(t.args)
  BY <1>2, LenProperties
<1> QED BY <1>1, <1>2, <1>3, <1>4, <1>5

(* A step that spares the bytes it does not overwrite.                     *)
BytesStay ==
  /\ Len(text) <= Len(text')
  /\ \A k \in 1 .. Len(text) : Kept(k)' => Kept(k) /\ text'[k] = text[k]

LEMMA HoldsStays ==
  ASSUME TypeOK, TypeOK', BytesStay, NEW k, NEW b, Holds(k, b)
  PROVE  Holds(k, b)'
<1>1. Len(text) \in Nat /\ Len(text') \in Nat /\ Len(text) <= Len(text')
  BY TextTypes, LenProperties DEF BytesStay, TypeOK
<1>2. k \in 1 .. Len(text) /\ (Kept(k) => text[k] = b)
  BY DEF Holds
<1>3. k \in 1 .. Len(text')
  BY <1>1, <1>2
<1>4. Kept(k)' => text'[k] = b
  BY <1>2 DEF BytesStay
<1> QED BY <1>3, <1>4 DEF Holds

LEMMA HoldsWordStays ==
  ASSUME TypeOK, TypeOK', BytesStay, NEW k, NEW n, HoldsWord(k, n)
  PROVE  HoldsWord(k, n)'
<1>1. PICK k1, lo, hi : k1 = k + 1 /\ lo = n % Base /\ hi = n \div Base
  OBVIOUS
<1>2. Holds(k, lo)' /\ Holds(k1, hi)'
  BY <1>1, HoldsStays DEF HoldsWord
<1> QED BY <1>1, <1>2 DEF HoldsWord

LEMMA HeadStays ==
  ASSUME TypeOK, TypeOK', BytesStay, UNCHANGED call, HeadLaid
  PROVE  HeadLaid'
<1>1. PICK s, n : s = call.name
                  /\ n = IF call.type = "SPAWN" THEN call.pid ELSE Len(call.args)
  OBVIOUS
<1>2. PICK e, w : e = Len(s) + 1 /\ w = Len(s) + 2
  OBVIOUS
<1>3. (\A j \in 1 .. Len(s) : Holds(j, s[j])) /\ Holds(e, 0) /\ HoldsWord(w, n)
  BY <1>1, <1>2 DEF HeadLaid
<1>4. \A j \in 1 .. Len(s) : Holds(j, s[j])'
  <2> SUFFICES ASSUME NEW j \in 1 .. Len(s) PROVE Holds(j, s[j])'
    OBVIOUS
  <2>1. PICK b : b = s[j]
    OBVIOUS
  <2>2. Holds(j, b)'
    BY <1>3, <2>1, HoldsStays
  <2> QED BY <2>1, <2>2
<1>5. Holds(e, 0)' /\ HoldsWord(w, n)'
  BY <1>3, HoldsStays, HoldsWordStays
<1> QED BY <1>1, <1>2, <1>4, <1>5 DEF HeadLaid

(* The bytes of an argument whose text begins at o.                        *)
LaidAt(o, a) ==
  /\ \A j \in 1 .. Len(a.name) : Holds(o + j, a.name[j])
  /\ Holds(o + Len(a.name) + 1, 0)
  /\ HoldsWord(o + Len(a.name) + 2, Len(a.value))
  /\ \A j \in 1 .. Len(a.value) : Holds(o + Len(a.name) + 1 + Width + j, a.value[j])

LEMMA LaidAtStays ==
  ASSUME TypeOK, TypeOK', BytesStay, NEW o, NEW a, LaidAt(o, a)
  PROVE  LaidAt(o, a)'
<1>1. PICK e, w, n : e = o + Len(a.name) + 1 /\ w = o + Len(a.name) + 2 /\ n = Len(a.value)
  OBVIOUS
<1>2. Holds(e, 0)' /\ HoldsWord(w, n)'
  BY <1>1, HoldsStays, HoldsWordStays DEF LaidAt
<1>3. \A j \in 1 .. Len(a.name) : Holds(o + j, a.name[j])'
  <2> SUFFICES ASSUME NEW j \in 1 .. Len(a.name) PROVE Holds(o + j, a.name[j])'
    OBVIOUS
  <2>1. PICK k, b : k = o + j /\ b = a.name[j]
    OBVIOUS
  <2>2. Holds(k, b)'
    BY <2>1, HoldsStays DEF LaidAt
  <2> QED BY <2>1, <2>2
<1>4. \A j \in 1 .. Len(a.value) : Holds(o + Len(a.name) + 1 + Width + j, a.value[j])'
  <2> SUFFICES ASSUME NEW j \in 1 .. Len(a.value)
               PROVE  Holds(o + Len(a.name) + 1 + Width + j, a.value[j])'
    OBVIOUS
  <2>1. PICK k, b : k = o + Len(a.name) + 1 + Width + j /\ b = a.value[j]
    OBVIOUS
  <2>2. Holds(k, b)'
    BY <2>1, HoldsStays DEF LaidAt
  <2> QED BY <2>1, <2>2
<1> QED BY <1>1, <1>2, <1>3, <1>4 DEF LaidAt

LEMMA ArgLaidIs ==
  ASSUME NEW i
  PROVE  ArgLaid(i) <=> LaidAt(at[i], call.args[i])
BY DEF ArgLaid, LaidAt, ValueFrom

(* What an argument takes up is a number of bytes.                         *)
LEMMA Lengths ==
  ASSUME TypeOK
  PROVE  /\ HeadLen \in Nat /\ HeadLen = Len(call.name) + 3
         /\ \A i \in 1 .. Len(call.args) :
              /\ ArgLen(call.args[i]) \in Nat
              /\ ArgLen(call.args[i]) =
                   Len(call.args[i].name) + 3 + Len(call.args[i].value)
<1>1. Len(call.name) \in Nat
  BY CallTypes, NameTypes
<1>2. HeadLen \in Nat /\ HeadLen = Len(call.name) + 3
  BY <1>1 DEF HeadLen, Width
<1>3. ASSUME NEW i \in 1 .. Len(call.args)
      PROVE  /\ ArgLen(call.args[i]) \in Nat
             /\ ArgLen(call.args[i]) = Len(call.args[i].name) + 3 + Len(call.args[i].value)
  <2>1. call.args[i] \in Arg
    BY CallTypes
  <2>2. PICK a : a = call.args[i]
    OBVIOUS
  <2>3. Len(a.name) \in Nat /\ Len(a.value) \in Nat
    BY <2>1, <2>2, ArgTypes
  <2>4. PICK m, v : m = Len(a.name) /\ v = Len(a.value)
    OBVIOUS
  <2>5. m \in Nat /\ v \in Nat
    BY <2>3, <2>4
  <2>6. ArgLen(a) = m + 3 + v /\ ArgLen(a) \in Nat
    <3>1. ArgLen(a) = m + 1 + 2 + v
      BY <2>4 DEF ArgLen, Width
    <3> QED BY <2>5, <3>1
  <2> QED BY <2>2, <2>4, <2>6
<1> QED BY <1>2, <1>3

(* A step that neither composes nor receives leaves the layout as it is.   *)
LEMMA LayoutStays ==
  ASSUME TypeOK, TypeOK', Layout, UNCHANGED <<call, at>>, BytesStay,
         Len(text') = Len(text),
         pc' # "compose" /\ call.type = "HOOK" => Len(at) = Len(call.args)
  PROVE  Layout'
<1>1. HeadLaid'
  BY HeadStays DEF Layout
<1>2. \A i : ArgLaid(i) => ArgLaid(i)'
  <2> SUFFICES ASSUME NEW i, ArgLaid(i) PROVE ArgLaid(i)'
    OBVIOUS
  <2>1. PICK o, a : o = at[i] /\ a = call.args[i]
    OBVIOUS
  <2>2. LaidAt(o, a)
    BY <2>1, ArgLaidIs
  <2>3. LaidAt(o, a)'
    BY <2>2, LaidAtStays
  <2> QED BY <2>1, <2>3 DEF ArgLaid, LaidAt, ValueFrom
<1>3. \A i : Beginning(i)' = Beginning(i)
  BY DEF Beginning, HeadLen
<1>4. HeadLen' = HeadLen
  BY DEF HeadLen
<1>5. PICK n : n = Len(at) + 1
  OBVIOUS
<1>6. Len(text') = Beginning(n)'
  BY <1>3, <1>5 DEF Layout
<1>7. \A i \in DOMAIN at' :
        /\ at'[i] = Beginning(i)' /\ ArgLaid(i)'
        /\ HeadLen' <= at'[i] /\ at'[i] + ArgLen(call'.args[i]) <= Len(text')
  BY <1>2, <1>3, <1>4 DEF Layout
<1>8. \A i, j \in DOMAIN at' : i < j => at'[i] + ArgLen(call'.args[i]) <= at'[j]
  BY DEF Layout
<1>9. /\ Len(at') <= Len(call'.args)
      /\ call'.type = "SPAWN" => at' = <<>>
      /\ pc' # "compose" /\ call'.type = "HOOK" => Len(at') = Len(call'.args)
  BY DEF Layout
<1> QED BY <1>1, <1>5, <1>6, <1>7, <1>8, <1>9 DEF Layout

-----------------------------------------------------------------------------
(* The composer's steps.                                                   *)

LEMMA InitTypes == Init => TypeOK
<1> SUFFICES ASSUME Init PROVE TypeOK
  OBVIOUS
<1>1. call.type \in {"SPAWN", "HOOK"} /\ call.name \in Names /\ call.pid \in Pids
  BY DEF Init
<1>2. PICK n \in 0 .. MaxArgs : call.args \in [1 .. n -> Arg]
  BY DEF Init
<1>3. n \in Nat /\ MaxArgs \in Nat
  <2>1. Base * Base \in Int
    BY BaseAssumption
  <2> QED BY <2>1, TextsAssumption
<1>4. call.args \in Seq(Arg) /\ Len(call.args) = n
  BY <1>2, <1>3
<1>5. call \in Call /\ Len(call.args) <= MaxArgs
  <2>1. call \in [type : {"SPAWN", "HOOK"}, name : Names, pid : Pids,
                  args : UNION {[1 .. k -> Arg] : k \in 0 .. MaxArgs}]
    BY DEF Init
  <2> QED BY <1>3, <1>4, <2>1 DEF Call
<1>6. PICK w : w = IF call.type = "SPAWN" THEN call.pid ELSE Len(call.args)
  OBVIOUS
<1>7. w \in Nat /\ w < Base * Base
  <2>1. Base * Base \in Int
    BY BaseAssumption
  <2>2. call.pid \in 0 .. Base * Base - 1 /\ MaxArgs \in 0 .. Base * Base - 1
    BY <1>1, TextsAssumption
  <2> QED BY <1>3, <1>4, <1>6, <2>1, <2>2
<1>8. call.name \in Seq(Bytes) /\ Word(w) \in Seq(Bytes)
  BY <1>1, <1>7, NameTypes, WordBytes DEF Word
<1>9. CStr(call.name) \in Seq(Bytes)
  BY <1>8, ByteTypes, AppendProperties DEF CStr
<1>10. text \in Seq(Bytes)
  <2>1. text = CStr(call.name) \o Word(w)
    BY <1>6 DEF Init
  <2> QED BY <1>8, <1>9, <2>1, ConcatProperties
<1>11. t \in Parsed /\ at \in Seq(Nat) /\ p \in Nat /\ count \in Nat /\ pc = "compose"
  BY DEF Init, Parsed
<1> QED BY <1>5, <1>10, <1>11 DEF TypeOK

(* The head of the message is laid out first.                              *)
LEMMA InitLays == Init => Layout
<1> SUFFICES ASSUME Init PROVE Layout
  OBVIOUS
<1>0. TypeOK
  BY InitTypes
<1>1. PICK s, n : s = call.name
                  /\ n = IF call.type = "SPAWN" THEN call.pid ELSE Len(call.args)
  OBVIOUS
<1>2. PICK m : m = Len(s)
  OBVIOUS
<1>3. s \in Seq(Bytes) /\ m \in Nat /\ n \in Nat /\ n < Base * Base
  BY <1>0, <1>1, <1>2, CallTypes, NameTypes
<1>4. PICK c, w : c = CStr(s) /\ w = Word(n)
  OBVIOUS
<1>5. /\ c \in Seq(Bytes) /\ Len(c) = m + 1 /\ c[m + 1] = 0
      /\ \A j \in 1 .. m : c[j] = s[j]
  BY <1>2, <1>3, <1>4, ByteTypes, AppendProperties DEF CStr
<1>6. w \in Seq(Bytes) /\ Len(w) = 2 /\ w[1] = n % Base /\ w[2] = n \div Base
  BY <1>3, <1>4, WordBytes DEF Word
<1>7. text = c \o w
  BY <1>1, <1>4 DEF Init
<1>8. /\ Len(text) = Len(c) + Len(w)
      /\ \A j \in 1 .. Len(c) : text[j] = c[j]
      /\ \A j \in 1 .. Len(w) : text[Len(c) + j] = w[j]
  <2>1. c \in Seq(Bytes) /\ w \in Seq(Bytes)
    BY <1>5, <1>6
  <2> QED BY <1>7, <2>1, ConcatAt
<1>9. text[m + 1 + 1] = n % Base /\ text[m + 1 + 2] = n \div Base
  BY <1>5, <1>6, <1>8
<1>10. Len(text) = m + 3
  BY <1>3, <1>5, <1>6, <1>8
<1>11. m + 1 + 1 = m + 2 /\ m + 1 + 2 = m + 2 + 1
  BY <1>3
<1>12. HoldsWord(m + 2, n)
  BY <1>3, <1>9, <1>10, <1>11 DEF HoldsWord, Holds
<1>13. Holds(m + 1, 0) /\ \A j \in 1 .. m : Holds(j, s[j])
  BY <1>3, <1>5, <1>8, <1>10 DEF Holds
<1>14. HeadLaid
  BY <1>1, <1>2, <1>12, <1>13 DEF HeadLaid
<1>15. pc = "compose" /\ at = <<>> /\ Len(at) = 0 /\ DOMAIN at = {}
  BY DEF Init
<1>16. Len(text) = Beginning(Len(at) + 1)
  BY <1>1, <1>2, <1>3, <1>10, <1>15 DEF Beginning, HeadLen, Width
<1>17. Len(at) <= Len(call.args)
  BY <1>0, <1>15, CallTypes
<1> QED BY <1>14, <1>15, <1>16, <1>17 DEF Layout

(* What ComposeArg appends.                                                *)
LEMMA ComposeTypes ==
  ASSUME TypeOK, Layout, ComposeArg
  PROVE  /\ TypeOK'
         /\ Len(at) + 1 \in 1 .. Len(call.args) /\ call.args[Len(at) + 1] \in Arg
         /\ call.type = "HOOK"
         /\ text' = text \o ArgText(call.args[Len(at) + 1])
         /\ at' = Append(at, Len(text))
<1>1. PICK n, a : n = Len(at) + 1 /\ a = call.args[n]
  OBVIOUS
<1>2. call.type = "HOOK" /\ Len(at) # Len(call.args) /\ Len(at) <= Len(call.args)
  BY CallTypes DEF ComposeArg, Composed, Layout
<1>3. n \in 1 .. Len(call.args)
  BY <1>1, <1>2, CallTypes, TextTypes
<1>4. a \in Arg
  BY <1>1, <1>3, CallTypes
<1>5. text' = text \o ArgText(a) /\ at' = Append(at, Len(text))
  BY <1>1 DEF ComposeArg
<1>6. text' \in Seq(Bytes)
  <2>1. PICK x : x = ArgText(a)
    OBVIOUS
  <2>2. x \in Seq(Bytes) /\ text \in Seq(Bytes)
    BY <1>4, <2>1, ArgTextIs, TextTypes
  <2> QED BY <1>5, <2>1, <2>2, ConcatProperties
<1>7. at' \in Seq(Nat)
  BY <1>5, TextTypes, AppendProperties
<1>8. TypeOK'
  BY <1>6, <1>7 DEF ComposeArg, TypeOK
<1> QED BY <1>1, <1>2, <1>3, <1>4, <1>5, <1>8

LEMMA ComposeLays ==
  ASSUME TypeOK, Layout, ComposeArg
  PROVE  Layout'
<1>1. PICK l, n, a : l = Len(text) /\ n = Len(at) + 1 /\ a = call.args[n]
  OBVIOUS
<1>2. PICK x : x = ArgText(a)
  OBVIOUS
<1>3. /\ TypeOK' /\ n \in 1 .. Len(call.args) /\ a \in Arg /\ call.type = "HOOK"
      /\ text' = text \o x /\ at' = Append(at, l)
  BY <1>1, <1>2, ComposeTypes
<1>4. pc = "compose" /\ pc' = "compose" /\ call' = call
  BY DEF ComposeArg
<1>5. l \in Nat /\ Len(at) \in Nat /\ n \in Nat /\ n - 1 = Len(at)
  BY <1>1, TextTypes
<1>6. PICK m, v : m = Len(a.name) /\ v = Len(a.value)
  OBVIOUS
<1>7. /\ x \in Seq(Bytes) /\ Len(x) = ArgLen(a) /\ ArgLen(a) = m + 3 + v
      /\ m \in Nat /\ v \in Nat
      /\ \A j \in 1 .. m : x[j] = a.name[j]
      /\ x[m + 1] = 0 /\ x[m + 2] = v % Base /\ x[m + 3] = v \div Base
      /\ \A j \in 1 .. v : x[m + 3 + j] = a.value[j]
  <2>1. m \in Nat /\ v \in Nat
    BY <1>3, <1>6, ArgTypes
  <2>2. ArgLen(a) = m + 3 + v
    BY <1>1, <1>3, <1>6, Lengths
  <2>3. /\ x \in Seq(Bytes) /\ Len(x) = ArgLen(a)
        /\ \A j \in 1 .. m : x[j] = a.name[j]
        /\ x[m + 1] = 0 /\ x[m + 2] = v % Base /\ x[m + 3] = v \div Base
        /\ \A j \in 1 .. v : x[m + 3 + j] = a.value[j]
    BY <1>2, <1>3, <1>6, ArgTextIs
  <2> QED BY <2>1, <2>2, <2>3
<1>8. /\ Len(text') = l + m + 3 + v
      /\ \A j \in 1 .. l : text'[j] = text[j]
      /\ \A j \in 1 .. m + 3 + v : text'[l + j] = x[j]
  <2>1. x \in Seq(Bytes) /\ text \in Seq(Bytes)
    BY <1>7, TextTypes
  <2>2. PICK tp : tp = text'
    OBVIOUS
  <2>3. /\ Len(tp) = Len(text) + Len(x)
        /\ \A j \in 1 .. Len(text) : tp[j] = text[j]
        /\ \A j \in 1 .. Len(x) : tp[Len(text) + j] = x[j]
    <3>1. tp = text \o x
      BY <1>3, <2>2
    <3> QED BY <2>1, <3>1, ConcatAt
  <2> QED BY <1>1, <1>5, <1>7, <2>2, <2>3
<1>9. BytesStay
  BY <1>1, <1>4, <1>5, <1>7, <1>8 DEF BytesStay, Kept
<1>10. HeadLaid'
  BY <1>3, <1>4, <1>9, HeadStays DEF Layout
<1>11. /\ Len(at') = n /\ DOMAIN at' = 1 .. n /\ at'[n] = l
       /\ \A i \in DOMAIN at : i \in 1 .. n - 1 /\ at'[i] = at[i]
  BY <1>1, <1>3, <1>5, TextTypes, AppendProperties
<1>12. LaidAt(l, a)'
  <2>1. \A k \in 1 .. m + 3 + v : l + k \in 1 .. Len(text') /\ text'[l + k] = x[k]
    BY <1>5, <1>7, <1>8
  <2>2. \A j \in 1 .. m : Holds(l + j, a.name[j])'
    <3> SUFFICES ASSUME NEW j \in 1 .. m PROVE Holds(l + j, a.name[j])'
      OBVIOUS
    <3>1. j \in 1 .. m + 3 + v
      BY <1>7
    <3> QED BY <1>7, <2>1, <3>1 DEF Holds
  <2>3. Holds(l + m + 1, 0)'
    <3>1. m + 1 \in 1 .. m + 3 + v /\ l + (m + 1) = l + m + 1
      BY <1>5, <1>7
    <3>2. l + m + 1 \in 1 .. Len(text') /\ text'[l + m + 1] = x[m + 1]
      BY <2>1, <3>1
    <3> QED BY <1>7, <3>2 DEF Holds
  <2>4. HoldsWord(l + m + 2, v)'
    <3>1. m + 2 \in 1 .. m + 3 + v /\ l + (m + 2) = l + m + 2
          /\ m + 3 \in 1 .. m + 3 + v /\ l + (m + 3) = l + m + 2 + 1
      BY <1>5, <1>7
    <3>2. /\ l + m + 2 \in 1 .. Len(text') /\ text'[l + m + 2] = x[m + 2]
          /\ l + m + 2 + 1 \in 1 .. Len(text') /\ text'[l + m + 2 + 1] = x[m + 3]
      BY <2>1, <3>1
    <3> QED BY <1>7, <3>2 DEF HoldsWord, Holds
  <2>5. \A j \in 1 .. v : Holds(l + m + 1 + Width + j, a.value[j])'
    <3> SUFFICES ASSUME NEW j \in 1 .. v PROVE Holds(l + m + 1 + Width + j, a.value[j])'
      OBVIOUS
    <3>1. m + 3 + j \in 1 .. m + 3 + v /\ l + (m + 3 + j) = l + m + 1 + Width + j
      BY <1>5, <1>7 DEF Width
    <3>2. l + m + 1 + Width + j \in 1 .. Len(text')
          /\ text'[l + m + 1 + Width + j] = x[m + 3 + j]
      BY <2>1, <3>1
    <3>3. text'[l + m + 1 + Width + j] = a.value[j]
      BY <1>7, <3>2
    <3> QED BY <3>2, <3>3 DEF Holds
  <2> QED BY <1>6, <2>2, <2>3, <2>4, <2>5 DEF LaidAt
<1>13. ASSUME NEW i \in DOMAIN at PROVE ArgLaid(i)'
  <2>1. PICK o, b : o = at[i] /\ b = call.args[i]
    OBVIOUS
  <2>2. LaidAt(o, b)
    BY <2>1, ArgLaidIs DEF Layout
  <2>3. LaidAt(o, b)'
    BY <1>3, <1>9, <2>2, LaidAtStays
  <2>4. at'[i] = o /\ call'.args[i] = b
    BY <1>4, <1>11, <2>1
  <2> QED BY <2>3, <2>4 DEF ArgLaid, LaidAt, ValueFrom
<1>14. ArgLaid(n)'
  <2>1. at'[n] = l /\ call'.args[n] = a
    BY <1>1, <1>4, <1>11
  <2> QED BY <1>12, <2>1 DEF ArgLaid, LaidAt, ValueFrom
<1>15. HeadLen' = HeadLen /\ HeadLen \in Nat
  BY <1>4, Lengths DEF HeadLen
<1>16. ASSUME NEW i \in 1 .. n PROVE Beginning(i)' = Beginning(i)
  <2>1. i = 1 \/ (i - 1 \in DOMAIN at)
    BY <1>5, TextTypes
  <2>2. CASE i = 1
    BY <1>15, <2>2 DEF Beginning
  <2>3. CASE i # 1
    <3>1. PICK j : j = i - 1
      OBVIOUS
    <3>2. at'[j] = at[j] /\ call'.args[j] = call.args[j]
      BY <1>4, <1>11, <2>1, <2>3, <3>1
    <3> QED BY <2>3, <3>1, <3>2 DEF Beginning
  <2> QED BY <2>2, <2>3
<1>17. l = Beginning(n)
  BY <1>1 DEF Layout
<1>18. HeadLen <= l
  <2>1. CASE Len(at) = 0
    BY <1>5, <1>15, <1>17, <2>1 DEF Beginning
  <2>2. CASE Len(at) # 0
    <3>1. Len(at) \in DOMAIN at
      BY <1>5, <2>2, TextTypes
    <3>2. PICK j, al : j = Len(at) /\ al = ArgLen(call.args[j])
      OBVIOUS
    <3>3. HeadLen <= at[j] /\ at[j] + al <= l
      BY <1>1, <3>1, <3>2 DEF Layout
    <3>4. at[j] \in Nat /\ al \in Nat
      <4>1. j \in 1 .. Len(call.args)
        BY <1>1, <1>3, <1>5, <2>2, <3>2, CallTypes
      <4> QED BY <3>1, <3>2, <4>1, TextTypes, Lengths
    <3> QED BY <1>5, <1>15, <3>3, <3>4
  <2> QED BY <2>1, <2>2
<1>19. Len(text') = Beginning(n + 1)'
  <2>1. PICK k : k = n + 1
    OBVIOUS
  <2>2. k # 1 /\ k - 1 = n
    BY <1>5, <2>1
  <2>3. Beginning(k)' = at'[n] + ArgLen(call'.args[n])
    BY <2>2 DEF Beginning
  <2>4. at'[n] + ArgLen(call'.args[n]) = l + ArgLen(a)
    BY <1>1, <1>4, <1>11
  <2>5. l + ArgLen(a) = l + m + 3 + v
    BY <1>5, <1>7
  <2> QED BY <1>8, <2>1, <2>3, <2>4, <2>5
<1>20. ASSUME NEW i \in DOMAIN at'
       PROVE  /\ at'[i] = Beginning(i)' /\ ArgLaid(i)'
              /\ HeadLen' <= at'[i] /\ at'[i] + ArgLen(call'.args[i]) <= Len(text')
  <2>1. i \in 1 .. n /\ i \in Nat
    BY <1>5, <1>11
  <2>2. CASE i = n
    <3>1. at'[i] = l /\ call'.args[i] = a
      BY <1>1, <1>4, <1>11, <2>2
    <3>2. l + ArgLen(a) <= Len(text')
      BY <1>5, <1>7, <1>8
    <3> QED BY <1>14, <1>15, <1>16, <1>17, <1>18, <2>1, <2>2, <3>1, <3>2
  <2>3. CASE i # n
    <3>1. i \in DOMAIN at
      BY <1>5, <2>1, <2>3, TextTypes
    <3>2. PICK al : al = ArgLen(call.args[i])
      OBVIOUS
    <3>3. at'[i] = at[i] /\ at[i] = Beginning(i) /\ HeadLen <= at[i] /\ at[i] + al <= l
      BY <1>1, <1>11, <3>1, <3>2 DEF Layout
    <3>4. at[i] \in Nat /\ al \in Nat
      <4>1. i \in 1 .. Len(call.args)
        BY <1>3, <1>5, <2>1, CallTypes
      <4> QED BY <3>1, <3>2, <4>1, TextTypes, Lengths
    <3>5. at[i] + al <= Len(text')
      <4>1. PICK b : b = at[i] + al
        OBVIOUS
      <4>2. b \in Nat /\ b <= l
        BY <3>3, <3>4, <4>1
      <4>3. l <= Len(text') /\ Len(text') \in Nat
        BY <1>5, <1>7, <1>8
      <4> QED BY <1>5, <4>1, <4>2, <4>3
    <3> QED BY <1>4, <1>13, <1>15, <1>16, <2>1, <3>1, <3>2, <3>3, <3>5
  <2> QED BY <2>2, <2>3
<1>21. ASSUME NEW i \in DOMAIN at', NEW j \in DOMAIN at', i < j
       PROVE  at'[i] + ArgLen(call'.args[i]) <= at'[j]
  <2>1. i \in 1 .. n /\ j \in 1 .. n /\ i # n /\ i \in DOMAIN at
    BY <1>5, <1>11, <1>21, TextTypes
  <2>2. CASE j = n
    BY <1>1, <1>4, <1>11, <2>1, <2>2 DEF Layout
  <2>3. CASE j # n
    <3>1. j \in DOMAIN at
      BY <1>5, <2>1, <2>3, TextTypes
    <3> QED BY <1>4, <1>11, <1>21, <2>1, <3>1 DEF Layout
  <2> QED BY <2>2, <2>3
<1>22. /\ Len(at') <= Len(call'.args)
       /\ call'.type # "SPAWN" /\ pc' = "compose"
  BY <1>3, <1>4, <1>5, <1>11, CallTypes
<1>23. PICK k : k = n + 1
  OBVIOUS
<1>24. Len(text') = Beginning(k)' /\ k = Len(at') + 1
  BY <1>11, <1>19, <1>23
<1> QED BY <1>10, <1>20, <1>21, <1>22, <1>24 DEF Layout

-----------------------------------------------------------------------------
(* What reaches chRequest.                                                 *)

LEMMA ReadIntoIs ==
  ASSUME TypeOK, Fits
  PROVE  /\ ReadInto \in Seq(Bytes) /\ Len(ReadInto) = Len(text)
         /\ \A k \in 1 .. Len(text) :
              Overwritten(k) \notin 1 .. Width => ReadInto[k] = text[k]
<1>1. PICK l, w : l = Len(text) /\ w = Word(Total)
  OBVIOUS
<1>2. l \in Nat /\ text \in Seq(Bytes)
  BY <1>1, TextTypes
<1>3. PICK n : n = Total
  OBVIOUS
<1>4. n \in Nat /\ n < Base * Base
  <2>1. n = HeaderLen + l /\ n <= ReadSize /\ ReadSize < Base * Base
    BY <1>1, <1>3, SizesAssumption DEF Total, Fits
  <2>2. Base * Base \in Int
    BY BaseAssumption
  <2> QED BY <1>2, <2>1, <2>2, SizesAssumption
<1>5. \A j \in 1 .. Width : w[j] \in Bytes
  BY <1>1, <1>3, <1>4, WordBytes DEF Word, Width
<1>6. \A k \in 1 .. l : text[k] \in Bytes
  BY <1>1, <1>2, ElementOfSeq
<1>7. PICK r : r = ReadInto
  OBVIOUS
<1>8. r = [k \in 1 .. l |-> IF Overwritten(k) \in 1 .. Width THEN w[Overwritten(k)] ELSE text[k]]
  BY <1>1, <1>7 DEF ReadInto
<1>9. r \in [1 .. l -> Bytes]
  BY <1>5, <1>6, <1>8
<1>10. r \in Seq(Bytes) /\ Len(r) = l
  BY <1>2, <1>9
<1>11. \A k \in 1 .. l : Overwritten(k) \notin 1 .. Width => r[k] = text[k]
  BY <1>8
<1> QED BY <1>1, <1>7, <1>10, <1>11

LEMMA ReadLays ==
  ASSUME TypeOK, Layout, Read
  PROVE  TypeOK' /\ Layout' /\ pc' \in {"name", "refused"}
<1>1. /\ pc = "read" /\ UNCHANGED <<call, at, p, count, t>>
      /\ Fits => pc' = "name" /\ text' = ReadInto
      /\ ~Fits => pc' = "refused" /\ text' = text
  BY DEF Read
<1>2. PICK l, tp : l = Len(text) /\ tp = text'
  OBVIOUS
<1>3. l \in Nat /\ text \in Seq(Bytes)
  BY <1>2, TextTypes
<1>4. CASE Fits
  <2>1. /\ tp \in Seq(Bytes) /\ Len(tp) = l
        /\ \A k \in 1 .. l : Overwritten(k) \notin 1 .. Width => tp[k] = text[k]
    BY <1>1, <1>2, <1>4, ReadIntoIs
  <2>2. TypeOK'
    BY <1>1, <1>2, <1>4, <2>1 DEF TypeOK
  <2>3. BytesStay
    BY <1>1, <1>2, <1>3, <1>4, <2>1 DEF BytesStay, Kept, Overwritten
  <2>4. Layout'
    BY <1>1, <1>2, <2>1, <2>2, <2>3, LayoutStays DEF Layout
  <2> QED BY <1>1, <1>4, <2>2, <2>4
<1>5. CASE ~Fits
  <2>1. TypeOK'
    BY <1>1, <1>5 DEF TypeOK
  <2>2. BytesStay
    BY <1>1, <1>2, <1>3, <1>5 DEF BytesStay, Kept
  <2>3. Layout'
    BY <1>1, <1>5, <2>1, <2>2, LayoutStays DEF Layout
  <2> QED BY <1>1, <1>5, <2>1, <2>3
<1> QED BY <1>4, <1>5

(* A step that leaves the text alone, and does not go back to composing,   *)
(* leaves the layout alone.                                                *)
LEMMA UnreadLays ==
  ASSUME TypeOK, TypeOK', Layout, UNCHANGED <<call, text, at>>,
         pc' = "compose" => pc = "compose",
         pc' # "compose" /\ call.type = "HOOK" => Len(at) = Len(call.args),
         pc \notin {"compose", "read", "refused"}
           => pc' \notin {"compose", "read", "refused"}
  PROVE  Layout'
<1>1. Len(text) \in Nat
  BY TextTypes
<1>2. BytesStay
  BY <1>1 DEF BytesStay, Kept, Overwritten
<1> QED BY <1>2, LayoutStays

-----------------------------------------------------------------------------
(* Where the parser looks, if no byte is lost but in one value.            *)

LEMMA NotLost ==
  ASSUME NEW k, NEW b, Holds(k, b), k \notin Lost
  PROVE  text[k] = b
BY DEF Holds, Kept, Lost

LEMMA HeadHeld ==
  ASSUME TypeOK, Layout, OneValue
  PROVE  HeadLen <= Len(text) /\ \A k \in 1 .. HeadLen : k \notin Lost
<1>1. Len(text) \in Nat /\ HeadLen \in Nat /\ Len(at) \in Nat
  BY TextTypes, Lengths
<1>2. HeadLen <= Len(text)
  <2>1. CASE Len(at) = 0
    BY <1>1, <2>1 DEF Layout, Beginning
  <2>2. CASE Len(at) # 0
    <3>1. PICK j, al : j = Len(at) /\ al = ArgLen(call.args[j])
      OBVIOUS
    <3>2. j \in DOMAIN at /\ j \in 1 .. Len(call.args)
      BY <1>1, <2>2, <3>1, TextTypes, CallTypes DEF Layout
    <3>3. HeadLen <= at[j] /\ at[j] + al <= Len(text) /\ at[j] \in Nat /\ al \in Nat
      BY <3>1, <3>2, TextTypes, Lengths DEF Layout
    <3> QED BY <1>1, <3>3
  <2> QED BY <2>1, <2>2
<1>3. ASSUME NEW k \in 1 .. HeadLen, k \in Lost PROVE FALSE
  <2>1. PICK i \in DOMAIN at : Lost \subseteq InValue(i)
    BY <1>3 DEF OneValue
  <2>2. PICK a : a = call.args[i]
    OBVIOUS
  <2>3. a \in Arg /\ at[i] \in Nat /\ HeadLen <= at[i]
    <3>1. i \in 1 .. Len(call.args)
      BY <1>1, <2>1, TextTypes, CallTypes DEF Layout
    <3> QED BY <2>1, <2>2, <3>1, TextTypes, CallTypes DEF Layout
  <2>4. Len(a.name) \in Nat
    BY <2>3, ArgTypes
  <2>5. k >= at[i] + Len(a.name) + 1 + 2 + 1
    BY <1>3, <2>1, <2>2, <2>3, <2>4 DEF InValue, ValueFrom, Width
  <2> QED BY <1>1, <1>3, <2>3, <2>4, <2>5
<1> QED BY <1>2, <1>3

(* The facts about one argument, with its parts named.                     *)
LEMMA ArgFacts ==
  ASSUME TypeOK, Layout, NEW j \in DOMAIN at
  PROVE  /\ j \in 1 .. Len(call.args) /\ j \in Nat /\ call.args[j] \in Arg
         /\ at[j] \in Nat /\ ArgLen(call.args[j]) \in Nat
         /\ Len(call.args[j].name) \in Nat /\ Len(call.args[j].value) \in Nat
         /\ ArgLen(call.args[j]) = Len(call.args[j].name) + 3 + Len(call.args[j].value)
         /\ ValueFrom(j) = at[j] + Len(call.args[j].name) + 3
         /\ ValueFrom(j) \in Nat
         /\ at[j] + ArgLen(call.args[j]) <= Len(text)
<1>1. PICK a : a = call.args[j]
  OBVIOUS
<1>2. j \in 1 .. Len(call.args) /\ j \in Nat
  BY TextTypes, CallTypes DEF Layout
<1>3. a \in Arg /\ at[j] \in Nat
  BY <1>1, <1>2, TextTypes, CallTypes
<1>4. Len(a.name) \in Nat /\ Len(a.value) \in Nat
  BY <1>3, ArgTypes
<1>5. ArgLen(a) \in Nat /\ ArgLen(a) = Len(a.name) + 3 + Len(a.value)
  BY <1>1, <1>2, Lengths
<1>6. ValueFrom(j) = at[j] + Len(a.name) + 1 + 2
  BY <1>1 DEF ValueFrom, Width
<1>7. ValueFrom(j) = at[j] + Len(a.name) + 3 /\ ValueFrom(j) \in Nat
  <2>1. PICK o, m : o = at[j] /\ m = Len(a.name)
    OBVIOUS
  <2>2. o \in Nat /\ m \in Nat /\ ValueFrom(j) = o + m + 1 + 2
    BY <1>3, <1>4, <1>6, <2>1
  <2>3. ValueFrom(j) = o + m + 3 /\ ValueFrom(j) \in Nat
    BY <2>2
  <2> QED BY <2>1, <2>3
<1>8. at[j] + ArgLen(a) <= Len(text)
  BY <1>1 DEF Layout
<1> QED BY <1>1, <1>2, <1>3, <1>4, <1>5, <1>7, <1>8

LEMMA ArgHeld ==
  ASSUME TypeOK, Layout, OneValue, NEW j \in DOMAIN at,
         NEW k \in at[j] + 1 .. at[j] + Len(call.args[j].name) + 3
  PROVE  k \notin Lost
<1> SUFFICES ASSUME k \in Lost PROVE FALSE
  OBVIOUS
<1>1. PICK i \in DOMAIN at : Lost \subseteq InValue(i)
  BY DEF OneValue
<1>2. PICK oi, ni, vi, oj, nj, vj :
        /\ oi = at[i] /\ ni = Len(call.args[i].name) /\ vi = Len(call.args[i].value)
        /\ oj = at[j] /\ nj = Len(call.args[j].name) /\ vj = Len(call.args[j].value)
  OBVIOUS
<1>3. /\ oi \in Nat /\ ni \in Nat /\ vi \in Nat /\ i \in Nat
      /\ oj \in Nat /\ nj \in Nat /\ vj \in Nat /\ j \in Nat
  BY <1>2, ArgFacts
<1>4. k \in oi + ni + 3 + 1 .. oi + ni + 3 + vi
  <2>1. k \in ValueFrom(i) + 1 .. ValueFrom(i) + vi
    BY <1>1, <1>2 DEF InValue
  <2>2. ValueFrom(i) = oi + ni + 3
    BY <1>2, ArgFacts
  <2> QED BY <2>1, <2>2
<1>5. k \in oj + 1 .. oj + nj + 3
  BY <1>2
<1>6. i < j => oi + (ni + 3 + vi) <= oj
  BY <1>1, <1>2, ArgFacts DEF Layout
<1>7. j < i => oj + (nj + 3 + vj) <= oi
  BY <1>1, <1>2, ArgFacts DEF Layout
<1>8. i = j => oi = oj /\ ni = nj
  BY <1>2
<1> QED BY <1>3, <1>4, <1>5, <1>6, <1>7, <1>8

LEMMA HeadRead ==
  ASSUME TypeOK, Layout, OneValue
  PROVE  /\ NulFrom(0) = Len(call.name) /\ StringAt(0) = call.name
         /\ WordAt(Len(call.name) + 1) =
              IF call.type = "SPAWN" THEN call.pid ELSE Len(call.args)
<1>1. PICK s, m, n : s = call.name /\ m = Len(s)
                     /\ n = IF call.type = "SPAWN" THEN call.pid ELSE Len(call.args)
  OBVIOUS
<1>2. /\ s \in Seq(Bytes) /\ m \in Nat /\ n \in Nat
      /\ \A j \in 1 .. m : s[j] \in Bytes \ {0}
  BY <1>1, CallTypes, NameTypes
<1>3. HeadLen = m + 3 /\ text \in Seq(Bytes) /\ Len(text) \in Nat /\ m + 3 <= Len(text)
  BY <1>1, Lengths, TextTypes, HeadHeld
<1>4. \A k \in 1 .. m + 3 : k \notin Lost
  BY <1>3, HeadHeld
<1>5. (\A j \in 1 .. m : Holds(j, s[j])) /\ Holds(m + 1, 0) /\ HoldsWord(m + 2, n)
  BY <1>1 DEF Layout, HeadLaid
<1>6. \A j \in 1 .. m : s[j] # 0 /\ text[0 + j] = s[j]
  <2> SUFFICES ASSUME NEW j \in 1 .. m PROVE s[j] # 0 /\ text[0 + j] = s[j]
    OBVIOUS
  <2>1. j \in 1 .. m + 3 /\ 0 + j = j
    BY <1>2
  <2>2. text[j] = s[j]
    BY <1>4, <1>5, <2>1, NotLost
  <2> QED BY <1>2, <2>1, <2>2
<1>7. text[0 + m + 1] = 0
  <2>1. m + 1 \in 1 .. m + 3 /\ 0 + m + 1 = m + 1
    BY <1>2
  <2> QED BY <1>4, <1>5, <2>1, NotLost
<1>8. NulFrom(0) = 0 + m /\ StringAt(0) = s
  <2>1. 0 \in Nat /\ 0 + m < Len(text)
    BY <1>2, <1>3
  <2> QED BY <1>1, <1>2, <1>3, <1>6, <1>7, <2>1, StringRead
<1>9. WordAt(m + 1) = n
  <2>1. m + 2 \in 1 .. m + 3 /\ m + 2 + 1 \in 1 .. m + 3
        /\ m + 1 + 1 = m + 2 /\ m + 1 + 2 = m + 2 + 1 /\ m + 1 \in Nat /\ m + 1 + 2 <= Len(text)
    BY <1>2, <1>3
  <2>2. text[m + 2] = n % Base /\ text[m + 2 + 1] = n \div Base
    BY <1>4, <1>5, <2>1, NotLost DEF HoldsWord
  <2>3. text[m + 1 + 1] = n % Base /\ text[m + 1 + 2] = n \div Base
    BY <2>1, <2>2
  <2> QED BY <1>2, <1>3, <2>1, <2>3, WordRead
<1>10. 0 + m = m
  BY <1>2
<1> QED BY <1>1, <1>8, <1>9, <1>10

LEMMA ArgReads ==
  ASSUME TypeOK, Layout, OneValue, NEW j \in DOMAIN at
  PROVE  /\ NulFrom(at[j]) = at[j] + Len(call.args[j].name)
         /\ StringAt(at[j]) = call.args[j].name
         /\ WordAt(at[j] + Len(call.args[j].name) + 1) = Len(call.args[j].value)
         /\ \A m \in 1 .. Len(call.args[j].value) :
              ValueFrom(j) + m \notin Lost =>
                Byte(ValueFrom(j) + m - 1) = call.args[j].value[m]
<1>1. PICK a, o, s, m, n : a = call.args[j] /\ o = at[j] /\ s = a.name /\ m = Len(s)
                           /\ n = Len(a.value)
  OBVIOUS
<1>2. a \in Arg /\ o \in Nat /\ m \in Nat /\ n \in Nat
      /\ ValueFrom(j) = o + m + 3 /\ o + (m + 3 + n) <= Len(text)
  BY <1>1, ArgFacts
<1>3. s \in Seq(Bytes) /\ \A k \in 1 .. m : s[k] \in Bytes \ {0}
  BY <1>1, <1>2, ArgTypes
<1>4. text \in Seq(Bytes) /\ Len(text) \in Nat
  BY TextTypes
<1>5. \A k \in o + 1 .. o + m + 3 : k \notin Lost
  BY <1>1, ArgHeld
<1>6. LaidAt(o, a)
  BY <1>1, ArgLaidIs DEF Layout
<1>7. /\ \A k \in 1 .. m : Holds(o + k, s[k])
      /\ Holds(o + m + 1, 0) /\ HoldsWord(o + m + 2, n)
      /\ \A k \in 1 .. n : Holds(o + m + 1 + Width + k, a.value[k])
  BY <1>1, <1>6 DEF LaidAt
<1>8. \A k \in 1 .. m : s[k] # 0 /\ text[o + k] = s[k]
  <2> SUFFICES ASSUME NEW k \in 1 .. m PROVE s[k] # 0 /\ text[o + k] = s[k]
    OBVIOUS
  <2>1. o + k \in o + 1 .. o + m + 3
    BY <1>2
  <2>2. text[o + k] = s[k]
    BY <1>5, <1>7, <2>1, NotLost
  <2> QED BY <1>3, <2>2
<1>9. text[o + m + 1] = 0
  <2>1. o + m + 1 \in o + 1 .. o + m + 3
    BY <1>2
  <2> QED BY <1>5, <1>7, <2>1, NotLost
<1>10. NulFrom(o) = o + m /\ StringAt(o) = s
  <2>1. o + m < Len(text)
    BY <1>2, <1>4
  <2>2. m = Len(s)
    BY <1>1
  <2>3. /\ o + Len(s) < Len(text) /\ text[o + Len(s) + 1] = 0
        /\ \A k \in 1 .. Len(s) : s[k] # 0 /\ text[o + k] = s[k]
    BY <1>8, <1>9, <2>1, <2>2
  <2>4. NulFrom(o) = o + Len(s) /\ StringAt(o) = s
    BY <1>2, <1>3, <1>4, <2>3, StringRead
  <2> QED BY <2>2, <2>4
<1>11. WordAt(o + m + 1) = n
  <2>1. o + m + 2 \in o + 1 .. o + m + 3 /\ o + m + 2 + 1 \in o + 1 .. o + m + 3
        /\ o + m + 1 + 1 = o + m + 2 /\ o + m + 1 + 2 = o + m + 2 + 1
        /\ o + m + 1 \in Nat /\ o + m + 1 + 2 <= Len(text)
    BY <1>2, <1>4
  <2>2. text[o + m + 2] = n % Base /\ text[o + m + 2 + 1] = n \div Base
    BY <1>5, <1>7, <2>1, NotLost DEF HoldsWord
  <2>3. text[o + m + 1 + 1] = n % Base /\ text[o + m + 1 + 2] = n \div Base
    BY <2>1, <2>2
  <2> QED BY <1>2, <1>4, <2>1, <2>3, WordRead
<1>12. ASSUME NEW k \in 1 .. n, o + m + 3 + k \notin Lost
       PROVE  Byte(o + m + 3 + k - 1) = a.value[k]
  <2>1. o + m + 1 + Width + k = o + m + 3 + k
    BY <1>2 DEF Width
  <2>2. text[o + m + 3 + k] = a.value[k]
    BY <1>7, <1>12, <2>1, NotLost
  <2>3. o + m + 3 + k - 1 < Len(text) /\ o + m + 3 + k - 1 + 1 = o + m + 3 + k
    BY <1>2, <1>4
  <2> QED BY <2>2, <2>3 DEF Byte
<1> QED BY <1>1, <1>2, <1>10, <1>11, <1>12

-----------------------------------------------------------------------------
(* The parser's steps.                                                     *)

LEMMA OneValueStays ==
  ASSUME UNCHANGED <<call, text, at>>
  PROVE  /\ (OneValue' <=> OneValue)
         /\ Lost' = Lost
         /\ \A i : ValueFrom(i)' = ValueFrom(i)
         /\ \A i : Beginning(i)' = Beginning(i)
<1>1. Lost' = Lost
  BY DEF Lost, Overwritten
<1>2. \A i : ValueFrom(i)' = ValueFrom(i)
  BY DEF ValueFrom
<1>3. \A i : InValue(i)' = InValue(i)
  BY DEF InValue, ValueFrom
<1>4. \A i : Beginning(i)' = Beginning(i)
  BY DEF Beginning, HeadLen
<1> QED BY <1>1, <1>2, <1>3, <1>4 DEF OneValue

LEMMA ComposeKeeps == IInv /\ ComposeArg => IInv'
<1> SUFFICES ASSUME IInv, ComposeArg PROVE IInv'
  OBVIOUS
<1>1. TypeOK' /\ Layout'
  BY ComposeTypes, ComposeLays DEF IInv
<1>2. Unparsed
  BY DEF IInv, ParserInv, ComposeArg
<1>3. pc' = "compose" /\ UNCHANGED <<p, count, t>>
  BY DEF ComposeArg
<1>4. ParserInv'
  BY <1>2, <1>3 DEF ParserInv, Unparsed
<1>5. NoMoreThanSent'
  BY <1>2, <1>3 DEF NoMoreThanSent, Unparsed, Width
<1> QED BY <1>1, <1>4, <1>5 DEF IInv

LEMMA SendKeeps == IInv /\ SendMessage => IInv'
<1> SUFFICES ASSUME IInv, SendMessage PROVE IInv'
  OBVIOUS
<1>1. pc = "compose" /\ pc' = "read" /\ UNCHANGED <<call, text, at, p, count, t>>
      /\ (call.type = "HOOK" => Len(at) = Len(call.args))
  BY DEF SendMessage, Composed
<1>2. TypeOK'
  BY <1>1 DEF IInv, TypeOK
<1>3. Layout'
  BY <1>1, <1>2, UnreadLays DEF IInv
<1>4. Unparsed
  BY <1>1 DEF IInv, ParserInv
<1>5. ParserInv'
  BY <1>1, <1>4 DEF ParserInv, Unparsed
<1>6. Len(text') \in Nat
  BY <1>1, TextTypes DEF IInv
<1>7. NoMoreThanSent'
  BY <1>1, <1>4, <1>6 DEF NoMoreThanSent, Unparsed, Width
<1> QED BY <1>2, <1>3, <1>5, <1>7 DEF IInv

LEMMA ReadKeeps == IInv /\ Read => IInv'
<1> SUFFICES ASSUME IInv, Read PROVE IInv'
  OBVIOUS
<1>1. TypeOK' /\ Layout' /\ pc' \in {"name", "refused"}
  BY ReadLays DEF IInv
<1>2. Unparsed /\ UNCHANGED <<p, count, t>>
  BY DEF IInv, ParserInv, Read
<1>3. ParserInv'
  BY <1>1, <1>2 DEF ParserInv, Unparsed
<1>4. Len(text') \in Nat
  BY <1>1, LenProperties DEF TypeOK
<1>5. NoMoreThanSent'
  BY <1>2, <1>4 DEF NoMoreThanSent, Unparsed, Width
<1> QED BY <1>1, <1>3, <1>5 DEF IInv

(* Of a message whose losses lie in one value, the name is in its place.   *)
LEMMA NameKeeps == IInv /\ ParseName => IInv'
<1> SUFFICES ASSUME IInv, ParseName PROVE IInv'
  OBVIOUS
<1>1. TypeOK /\ Layout /\ ParserInv /\ pc = "name" /\ UNCHANGED <<call, text, at>>
  BY DEF IInv, ParseName, Astray
<1>2. p = 0 /\ count = 0 /\ t = [name |-> <<>>, pid |-> 0, args |-> <<>>]
  BY <1>1 DEF ParserInv, Unparsed
<1>3. PICK l, q, w, s : l = Len(text) /\ q = AfterNul(0) /\ w = WordAt(q) /\ s = StringAt(0)
  OBVIOUS
<1>4. text \in Seq(Bytes) /\ l \in Nat
  BY <1>1, <1>3, TextTypes
<1>5. q \in Nat /\ q >= 1 /\ w \in Nat /\ s \in Seq(Bytes)
  <2>1. 0 \in Nat /\ 0 <= Len(text)
    BY <1>3, <1>4
  <2>2. NulFrom(0) \in 0 .. l
    BY <1>3, <1>4, <2>1, NulFound
  <2>3. q \in Nat /\ q >= 1
    BY <1>3, <1>4, <2>2 DEF AfterNul
  <2>4. s \in Seq(Bytes)
    BY <1>3, <1>4, <2>1, StringTypes
  <2> QED BY <1>3, <1>4, <2>3, <2>4, WordReads
<1>6. (OneValue' <=> OneValue) /\ \A i : Beginning(i)' = Beginning(i)
  BY <1>1, OneValueStays
<1>7. call.type = "HOOK" => Len(at) = Len(call.args)
  BY <1>1 DEF Layout
<1>8. ASSUME OneValue
      PROVE  /\ q = Len(call.name) + 1 /\ s = call.name /\ q + 2 = HeadLen /\ HeadLen <= l
             /\ w = IF call.type = "SPAWN" THEN call.pid ELSE Len(call.args)
  <2>1. q = Len(call.name) + 1 /\ s = call.name
    BY <1>1, <1>3, <1>8, HeadRead DEF AfterNul
  <2>2. Len(call.name) \in Nat /\ HeadLen = Len(call.name) + 3 /\ HeadLen <= l
    BY <1>1, <1>3, <1>8, CallTypes, NameTypes, Lengths, HeadHeld
  <2> QED BY <1>1, <1>3, <1>8, <2>1, <2>2, HeadRead
<1>9. CASE ~Readable(q, Width)
  <2>1. pc' = "astray" /\ UNCHANGED <<p, count, t>>
    BY <1>2, <1>3, <1>9 DEF ParseName, Astray
  <2>2. TypeOK'
    BY <1>1, <2>1 DEF TypeOK
  <2>3. Layout'
    BY <1>1, <1>7, <2>1, <2>2, UnreadLays
  <2>4. ~OneValue
    <3> SUFFICES ASSUME OneValue PROVE FALSE
      OBVIOUS
    <3>1. q + 2 <= l
      BY <1>8
    <3> QED BY <1>3, <1>4, <1>5, <1>9, <3>1 DEF Readable, Width
  <2>5. ParserInv'
    BY <1>6, <2>1, <2>4 DEF ParserInv
  <2>6. NoMoreThanSent'
    BY <1>1, <1>2, <1>3, <1>4, <2>1 DEF NoMoreThanSent, Width
  <2> QED BY <2>2, <2>3, <2>5, <2>6 DEF IInv
<1>10. CASE Readable(q, Width)
  <2>1. p' = q + 2 /\ q + 2 <= l + 1
    BY <1>2, <1>3, <1>10 DEF ParseName, Readable, Width
  <2>2. CASE call.type = "SPAWN"
    <3>1. t' = [t EXCEPT !.name = s, !.pid = w] /\ pc' = "done" /\ count' = count
      BY <1>2, <1>3, <1>10, <2>2 DEF ParseName
    <3>2. t' = [name |-> s, pid |-> w, args |-> <<>>]
      BY <1>2, <3>1
    <3>3. t' \in Parsed /\ p' \in Nat /\ count' \in Nat
      <4>1. <<>> \in Seq([name : Seq(Bytes), value : Seq(Bytes)])
        BY EmptySeq
      <4>2. t' \in Parsed
        BY <1>5, <3>2, <4>1 DEF Parsed
      <4> QED BY <1>2, <1>5, <2>1, <3>1, <4>2
    <3>4. TypeOK'
      BY <1>1, <3>1, <3>3 DEF TypeOK
    <3>5. Layout'
      BY <1>1, <1>7, <3>1, <3>4, UnreadLays
    <3>6. ASSUME OneValue PROVE InPlace'
      <4>1. s = call.name /\ w = call.pid /\ q + 2 = HeadLen
        BY <1>8, <2>2, <3>6
      <4>2. at = <<>> /\ l = Beginning(Len(at) + 1)
        BY <1>1, <1>3, <2>2 DEF Layout
      <4>3. Len(at) + 1 = 1
        BY <4>2
      <4>4. l = HeadLen
        BY <4>2, <4>3 DEF Beginning
      <4> QED BY <1>1, <1>3, <2>1, <2>2, <3>2, <4>1, <4>4 DEF InPlace
    <3>7. ParserInv'
      BY <1>6, <3>1, <3>6 DEF ParserInv
    <3>8. NoMoreThanSent'
      BY <1>1, <1>3, <1>4, <1>5, <2>1, <3>2 DEF NoMoreThanSent, Width
    <3> QED BY <3>4, <3>5, <3>7, <3>8 DEF IInv
  <2>3. CASE call.type # "SPAWN"
    <3>0. call.type = "HOOK"
      BY <1>1, <2>3, CallTypes
    <3>1. t' = [t EXCEPT !.name = s] /\ pc' = "args" /\ count' = w
      BY <1>2, <1>3, <1>10, <2>3 DEF ParseName
    <3>2. t' = [name |-> s, pid |-> 0, args |-> <<>>]
      BY <1>2, <3>1
    <3>3. t' \in Parsed /\ p' \in Nat /\ count' \in Nat
      <4>1. <<>> \in Seq([name : Seq(Bytes), value : Seq(Bytes)])
        BY EmptySeq
      <4>2. t' \in Parsed
        BY <1>5, <3>2, <4>1 DEF Parsed
      <4> QED BY <1>2, <1>5, <2>1, <3>1, <4>2
    <3>4. TypeOK'
      BY <1>1, <3>1, <3>3 DEF TypeOK
    <3>5. Layout'
      BY <1>1, <1>7, <3>1, <3>4, UnreadLays
    <3>6. ASSUME OneValue PROVE InPlace'
      <4>1. s = call.name /\ w = Len(call.args) /\ q + 2 = HeadLen
        BY <1>8, <2>3, <3>6
      <4>2. Len(t'.args) = 0 /\ DOMAIN t'.args = {}
        BY <3>2
      <4>3. Beginning(1)' = HeadLen /\ Len(t'.args) + 1 = 1
        BY <1>6, <4>2 DEF Beginning
      <4>4. p' = Beginning(Len(t.args) + 1)'
        BY <2>1, <4>1, <4>3
      <4>5. Len(call.args) \in Nat
        BY <1>1, CallTypes
      <4>6. /\ t'.name = call'.name /\ t'.pid = 0
            /\ count' = Len(call'.args) /\ Len(t'.args) <= count'
        BY <1>1, <3>1, <3>2, <4>1, <4>2, <4>5
      <4> QED BY <1>1, <3>0, <3>1, <4>2, <4>4, <4>6 DEF InPlace
    <3>7. ParserInv'
      BY <1>1, <1>6, <3>0, <3>1, <3>6 DEF ParserInv
    <3>8. NoMoreThanSent'
      BY <1>1, <1>3, <1>4, <1>5, <2>1, <3>2 DEF NoMoreThanSent, Width
    <3> QED BY <3>4, <3>5, <3>7, <3>8 DEF IInv
  <2> QED BY <2>2, <2>3
<1> QED BY <1>9, <1>10

(* Of a message whose losses lie in one value, the next argument begins    *)
(* where the parser stands, and it is read but for the bytes lost.         *)
LEMMA NextArg ==
  ASSUME IInv, pc = "args", OneValue, Len(t.args) < count,
         NEW j, j = Len(t.args) + 1
  PROVE  /\ InPlace /\ call.type = "HOOK"
         /\ j \in DOMAIN at /\ p = at[j]
         /\ AfterNul(p) = at[j] + Len(call.args[j].name) + 1
         /\ StringAt(p) = call.args[j].name
         /\ WordAt(AfterNul(p)) = Len(call.args[j].value)
         /\ AfterNul(p) + Width = ValueFrom(j)
         /\ ValueFrom(j) + Len(call.args[j].value) <= Len(text)
<1>1. TypeOK /\ Layout /\ InPlace /\ call.type = "HOOK"
  BY DEF IInv, ParserInv
<1>2. Len(t.args) \in Nat /\ Len(at) \in Nat /\ DOMAIN at = 1 .. Len(at)
  BY <1>1, TextTypes
<1>3. Len(at) = Len(call.args) /\ count = Len(call.args)
  BY <1>1 DEF Layout, InPlace
<1>4. j \in DOMAIN at
  BY <1>2, <1>3
<1>5. p = at[j]
  <2>1. p = Beginning(j)
    BY <1>1 DEF InPlace
  <2> QED BY <1>1, <1>4, <2>1 DEF Layout
<1>6. PICK o, m, n : o = at[j] /\ m = Len(call.args[j].name) /\ n = Len(call.args[j].value)
  OBVIOUS
<1>7. /\ o \in Nat /\ m \in Nat /\ n \in Nat
      /\ ValueFrom(j) = o + m + 3 /\ o + (m + 3 + n) <= Len(text)
  BY <1>1, <1>4, <1>6, ArgFacts
<1>8. NulFrom(o) = o + m /\ StringAt(o) = call.args[j].name /\ WordAt(o + m + 1) = n
  BY <1>1, <1>4, <1>6, ArgReads
<1>9. AfterNul(p) = o + m + 1
  BY <1>5, <1>6, <1>8 DEF AfterNul
<1>10. AfterNul(p) + Width = ValueFrom(j)
  BY <1>7, <1>9 DEF Width
<1>11. ValueFrom(j) + n <= Len(text)
  BY <1>1, <1>7, TextTypes
<1> QED BY <1>1, <1>4, <1>5, <1>6, <1>8, <1>9, <1>10, <1>11

LEMMA ArgKeeps == IInv /\ ParseArg => IInv'
<1> SUFFICES ASSUME IInv, ParseArg PROVE IInv'
  OBVIOUS
<1>1. /\ TypeOK /\ Layout /\ ParserInv /\ NoMoreThanSent
      /\ pc = "args" /\ Len(t.args) < count /\ UNCHANGED <<call, text, at>>
      /\ call.type = "HOOK"
  BY DEF IInv, ParseArg, Astray, ParserInv
<1>2. PICK l, k, j : l = Len(text) /\ k = Len(t.args) /\ j = k + 1
  OBVIOUS
<1>3. /\ text \in Seq(Bytes) /\ l \in Nat /\ p \in Nat /\ k \in Nat
      /\ t \in Parsed /\ t.args \in Seq([name : Seq(Bytes), value : Seq(Bytes)])
      /\ DOMAIN t.args = 1 .. k
  BY <1>1, <1>2, TextTypes
<1>4. (OneValue' <=> OneValue) /\ Lost' = Lost
      /\ \A i : Beginning(i)' = Beginning(i) /\ ValueFrom(i)' = ValueFrom(i)
  BY <1>1, OneValueStays
<1>5. Len(at) = Len(call.args)
  BY <1>1 DEF Layout
<1>6. 3 * k <= p
  BY <1>1, <1>2 DEF NoMoreThanSent, Width
<1>7. CASE Astray /\ (\/ ~Readable(p, 1)
                      \/ ~Readable(AfterNul(p), Width)
                      \/ ~Readable(AfterNul(p) + Width, WordAt(AfterNul(p))))
  <2>1. pc' = "astray" /\ UNCHANGED <<p, count, t>>
    BY <1>7 DEF Astray
  <2>2. TypeOK'
    BY <1>1, <2>1 DEF TypeOK
  <2>3. Layout'
    BY <1>1, <1>5, <2>1, <2>2, UnreadLays
  <2>4. ~OneValue
    <3> SUFFICES ASSUME OneValue PROVE FALSE
      OBVIOUS
    <3>1. PICK q, n, v : q = AfterNul(p) /\ n = Len(call.args[j].value) /\ v = ValueFrom(j)
      OBVIOUS
    <3>2. /\ j \in DOMAIN at /\ p = at[j] /\ WordAt(q) = n /\ q + Width = v /\ v + n <= l
          /\ q = p + Len(call.args[j].name) + 1
      BY <1>1, <1>2, <3>1, NextArg
    <3>3. n \in Nat /\ v \in Nat /\ Len(call.args[j].name) \in Nat
      BY <1>1, <3>1, <3>2, ArgFacts
    <3>4. Readable(q + Width, n)
      BY <1>2, <1>3, <3>2, <3>3 DEF Readable
    <3>5. Readable(q, Width)
      BY <1>2, <1>3, <3>2, <3>3 DEF Readable
    <3>6. Readable(p, 1)
      <4>1. PICK m : m = Len(call.args[j].name)
        OBVIOUS
      <4>2. p \in Nat /\ m \in Nat /\ n \in Nat /\ p + m + 1 + 2 + n <= l
        BY <1>3, <3>2, <3>3, <4>1 DEF Width
      <4>3. p <= l
        BY <1>3, <4>2
      <4> QED BY <1>2, <1>3, <4>3 DEF Readable
    <3> QED BY <1>7, <3>1, <3>2, <3>4, <3>5, <3>6
  <2>5. ParserInv'
    BY <1>4, <2>1, <2>4 DEF ParserInv
  <2>6. NoMoreThanSent'
    BY <1>1, <2>1 DEF NoMoreThanSent
  <2> QED BY <2>2, <2>3, <2>5, <2>6 DEF IInv
<1>8. CASE /\ Readable(p, 1)
           /\ Readable(AfterNul(p), Width)
           /\ Readable(AfterNul(p) + Width, WordAt(AfterNul(p)))
           /\ t' = [t EXCEPT !.args = Append(@,
                 [name  |-> StringAt(p),
                  value |-> [i \in 1 .. WordAt(AfterNul(p)) |->
                               Byte(AfterNul(p) + Width + i - 1)]])]
           /\ p' = PastValue(AfterNul(p))
           /\ UNCHANGED <<pc, count>>
  <2>1. PICK q, w, s : q = AfterNul(p) /\ w = WordAt(q) /\ s = StringAt(p)
    OBVIOUS
  <2>2. p <= l
    BY <1>2, <1>3, <1>8 DEF Readable
  <2>3. q \in Nat /\ p + 1 <= q /\ s \in Seq(Bytes)
    <3>1. NulFrom(p) \in p .. l
      BY <1>2, <1>3, <2>2, NulFound
    <3>2. q \in Nat /\ p + 1 <= q
      BY <1>3, <2>1, <3>1 DEF AfterNul
    <3> QED BY <1>2, <1>3, <2>1, <2>2, <3>2, StringTypes
  <2>4. w \in Nat
    BY <1>3, <2>1, <2>3, WordReads
  <2>5. PICK v, e : v = [i \in 1 .. w |-> Byte(q + 2 + i - 1)] /\ e = [name |-> s, value |-> v]
    OBVIOUS
  <2>6. v \in Seq(Bytes) /\ Len(v) = w
    <3>1. \A i \in 1 .. w : q + 2 + i - 1 \in Nat
      BY <2>3, <2>4
    <3>2. \A i \in 1 .. w : Byte(q + 2 + i - 1) \in Bytes
      BY <1>3, <3>1, ByteReads
    <3>3. v \in [1 .. w -> Bytes]
      BY <2>5, <3>2
    <3> QED BY <2>4, <3>3
  <2>7. e \in [name : Seq(Bytes), value : Seq(Bytes)]
    BY <2>3, <2>5, <2>6
  <2>8. p' = q + 2 + w /\ q + 2 + w <= l + 1
    BY <1>2, <1>8, <2>1 DEF PastValue, Readable, Width
  <2>9. t' = [t EXCEPT !.args = Append(t.args, e)]
    BY <1>8, <2>1, <2>5 DEF Width
  <2>10. /\ Append(t.args, e) \in Seq([name : Seq(Bytes), value : Seq(Bytes)])
         /\ Len(Append(t.args, e)) = j
         /\ \A i \in 1 .. k : Append(t.args, e)[i] = t.args[i]
         /\ Append(t.args, e)[j] = e
    BY <1>2, <1>3, <2>7, AppendProperties
  <2>11. t'.args = Append(t.args, e) /\ t'.name = t.name /\ t'.pid = t.pid
    BY <1>3, <2>9 DEF Parsed
  <2>12. t' \in Parsed
    BY <1>3, <2>9, <2>10 DEF Parsed
  <2>13. TypeOK'
    BY <1>1, <1>8, <2>3, <2>4, <2>8, <2>12 DEF TypeOK
  <2>14. Layout'
    BY <1>1, <1>5, <1>8, <2>13, UnreadLays
  <2>15. Len(t'.args) = j
    BY <2>10, <2>11
  <2>16. NoMoreThanSent'
    <3>1. 3 * j <= p' /\ p' <= Len(text') + 1
      BY <1>1, <1>2, <1>3, <1>6, <2>3, <2>4, <2>8
    <3> QED BY <2>15, <3>1 DEF NoMoreThanSent, Width
  <2>17. ASSUME OneValue PROVE InPlace'
    <3>1. PICK m, n : m = Len(call.args[j].name) /\ n = Len(call.args[j].value)
      OBVIOUS
    <3>2. /\ InPlace /\ j \in DOMAIN at /\ p = at[j] /\ q = at[j] + m + 1
          /\ s = call.args[j].name /\ w = n
          /\ q + 2 = ValueFrom(j)
      BY <1>1, <1>2, <2>1, <2>17, <3>1, NextArg DEF Width
    <3>3. m \in Nat /\ n \in Nat /\ at[j] \in Nat /\ j \in Nat
          /\ ArgLen(call.args[j]) = m + 3 + n
      BY <1>1, <3>1, <3>2, ArgFacts
    <3>4. p' = Beginning(j + 1)'
      <4>1. PICK i : i = j + 1
        OBVIOUS
      <4>2. i # 1 /\ i - 1 = j
        BY <1>2, <1>3, <4>1
      <4>3. Beginning(i) = at[j] + ArgLen(call.args[j])
        BY <4>2 DEF Beginning
      <4>4. p' = at[j] + ArgLen(call.args[j])
        BY <2>8, <3>2, <3>3
      <4> QED BY <1>4, <4>1, <4>3, <4>4
    <3>5. ASSUME NEW i \in 1 .. k PROVE ArgRead(i)'
      <4>1. t'.args[i] = t.args[i]
        BY <2>10, <2>11
      <4>2. ArgRead(i)
        BY <1>1, <1>3, <3>2 DEF InPlace
      <4> QED BY <1>1, <1>4, <4>1, <4>2 DEF ArgRead
    <3>6. ArgRead(j)'
      <4>1. t'.args[j] = e /\ e.name = s /\ e.value = v
        BY <2>5, <2>10, <2>11
      <4>2. ASSUME NEW i \in 1 .. n, ValueFrom(j) + i \notin Lost
            PROVE  v[i] = call.args[j].value[i]
        <5>1. v[i] = Byte(q + 2 + i - 1)
          BY <2>5, <3>2
        <5>2. Byte(ValueFrom(j) + i - 1) = call.args[j].value[i]
          BY <1>1, <2>17, <3>1, <3>2, <4>2, ArgReads
        <5> QED BY <3>2, <5>1, <5>2
      <4> QED BY <1>1, <1>4, <2>6, <3>1, <3>2, <4>1, <4>2 DEF ArgRead
    <3>7. \A i \in DOMAIN t'.args : ArgRead(i)'
      <4>1. DOMAIN t'.args = 1 .. j
        <5>1. t'.args \in Seq([name : Seq(Bytes), value : Seq(Bytes)])
          BY <2>10, <2>11
        <5> QED BY <2>15, <5>1, LenProperties
      <4> SUFFICES ASSUME NEW i \in 1 .. j PROVE ArgRead(i)'
        BY <4>1
      <4>2. i = j \/ i \in 1 .. k
        BY <1>2, <1>3
      <4> QED BY <3>5, <3>6, <4>2
    <3>8. count \in Nat /\ j <= count
      BY <1>1, <1>2, <1>3, TextTypes
    <3>9. t.name = call.name /\ t.pid = 0 /\ count = Len(call.args)
      BY <1>1, <3>2 DEF InPlace
    <3>10. p' = Beginning(Len(t.args) + 1)'
      BY <2>15, <3>4
    <3>11. /\ t'.name = call'.name /\ t'.pid = 0
           /\ count' = Len(call'.args) /\ Len(t'.args) <= count'
      BY <1>1, <1>8, <2>11, <2>15, <3>8, <3>9
    <3> QED BY <1>1, <1>8, <3>7, <3>10, <3>11 DEF InPlace
  <2>18. ParserInv'
    BY <1>1, <1>4, <1>8, <2>17 DEF ParserInv
  <2> QED BY <2>13, <2>14, <2>16, <2>18 DEF IInv
<1> QED BY <1>7, <1>8 DEF ParseArg

LEMMA EndKeeps == IInv /\ ParseEnds => IInv'
<1> SUFFICES ASSUME IInv, ParseEnds PROVE IInv'
  OBVIOUS
<1>1. /\ TypeOK /\ Layout /\ ParserInv /\ NoMoreThanSent
      /\ pc = "args" /\ pc' = "done" /\ Len(t.args) >= count
      /\ UNCHANGED <<call, text, at, p, count, t>>
  BY DEF IInv, ParseEnds
<1>2. TypeOK'
  BY <1>1 DEF TypeOK
<1>3. Layout'
  BY <1>1, <1>2, UnreadLays DEF Layout
<1>4. NoMoreThanSent'
  BY <1>1 DEF NoMoreThanSent
<1>5. (OneValue' <=> OneValue) /\ Lost' = Lost
      /\ \A i : Beginning(i)' = Beginning(i) /\ ValueFrom(i)' = ValueFrom(i)
  BY <1>1, OneValueStays
<1>6. ASSUME OneValue PROVE InPlace'
  <2>1. InPlace /\ call.type = "HOOK"
    BY <1>1, <1>6 DEF ParserInv
  <2>2. Len(t.args) = count
    <3>1. Len(t.args) \in Nat /\ count \in Nat /\ Len(t.args) <= count
      BY <1>1, <2>1, TextTypes DEF InPlace
    <3> QED BY <1>1, <3>1
  <2>3. \A i : ArgRead(i)' <=> ArgRead(i)
    BY <1>1, <1>5 DEF ArgRead
  <2>4. p' = Beginning(Len(t.args) + 1)'
    <3>1. PICK i : i = Len(t.args) + 1
      OBVIOUS
    <3>2. p' = Beginning(i)'
      BY <1>1, <1>5, <2>1, <3>1 DEF InPlace
    <3> QED BY <1>1, <3>1, <3>2
  <2> QED BY <1>1, <2>1, <2>2, <2>3, <2>4 DEF InPlace
<1>7. ParserInv'
  BY <1>1, <1>5, <1>6 DEF ParserInv
<1> QED BY <1>2, <1>3, <1>4, <1>7 DEF IInv

-----------------------------------------------------------------------------
(* What the invariant says of a message.                                   *)

LEMMA InitInv == Init => IInv
<1> SUFFICES ASSUME Init PROVE IInv
  OBVIOUS
<1>1. TypeOK /\ Layout
  BY InitTypes, InitLays
<1>2. pc = "compose" /\ Unparsed
  BY DEF Init, Unparsed
<1>3. ParserInv
  BY <1>2 DEF ParserInv
<1>4. NoMoreThanSent
  BY <1>2 DEF NoMoreThanSent, Unparsed, Width
<1> QED BY <1>1, <1>3, <1>4 DEF IInv

LEMMA StutterKeeps == IInv /\ UNCHANGED vars => IInv'
<1> SUFFICES ASSUME IInv, UNCHANGED vars PROVE IInv'
  OBVIOUS
<1>1. UNCHANGED <<call, pc, text, at, p, count, t>>
  BY DEF vars
<1>2. TypeOK'
  BY <1>1 DEF IInv, TypeOK
<1>3. Layout'
  BY <1>1, <1>2, UnreadLays DEF IInv, Layout
<1>4. (OneValue' <=> OneValue) /\ Lost' = Lost
      /\ \A i : Beginning(i)' = Beginning(i) /\ ValueFrom(i)' = ValueFrom(i)
  BY <1>1, OneValueStays
<1>5. \A i : ArgRead(i)' <=> ArgRead(i)
  BY <1>1, <1>4 DEF ArgRead
<1>6. PICK n : n = Len(t.args) + 1
  OBVIOUS
<1>7. InPlace => InPlace'
  BY <1>1, <1>4, <1>5, <1>6 DEF InPlace
<1>8. Unparsed' <=> Unparsed
  BY <1>1 DEF Unparsed
<1>9. ParserInv'
  BY <1>1, <1>4, <1>7, <1>8 DEF IInv, ParserInv
<1>10. NoMoreThanSent'
  BY <1>1 DEF IInv, NoMoreThanSent
<1> QED BY <1>2, <1>3, <1>9, <1>10 DEF IInv

LEMMA Invariance == Spec => []IInv
<1>1. IInv /\ [Next]_vars => IInv'
  BY ComposeKeeps, SendKeeps, ReadKeeps, NameKeeps, ArgKeeps, EndKeeps, StutterKeeps
     DEF Next
<1> QED BY <1>1, InitInv, PTL DEF Spec

LEMMA IntactLosesNothing ==
  ASSUME TypeOK, Intact
  PROVE  Lost = {} /\ OneValue
<1>1. Len(text) \in Nat
  BY TextTypes
<1>2. HeaderLen + Len(text) <= BufSize
  BY DEF Intact, Total
<1>3. \A k \in 1 .. Len(text) : Overwritten(k) \notin 1 .. Width
  BY <1>1, <1>2, SizesAssumption DEF Overwritten, Width
<1> QED BY <1>3 DEF Lost, OneValue

LEMMA StaysInBounds == IInv => InBounds
<1> SUFFICES ASSUME IInv, Intact
             PROVE  pc # "astray" /\ p <= Len(text) /\ (pc = "done" => p = Len(text))
  BY DEF InBounds
<1>1. TypeOK /\ Layout /\ ParserInv
  BY DEF IInv
<1>2. OneValue
  BY <1>1, IntactLosesNothing
<1>3. pc # "astray"
  BY <1>1, <1>2 DEF ParserInv
<1>4. Len(text) \in Nat /\ Len(at) \in Nat /\ DOMAIN at = 1 .. Len(at)
      /\ Len(t.args) \in Nat /\ p \in Nat
  BY <1>1, TextTypes
<1>5. CASE pc \in {"compose", "read", "refused", "name"}
  <2>1. p = 0
    BY <1>1, <1>5 DEF ParserInv, Unparsed
  <2> QED BY <1>4, <1>5, <2>1
<1>6. CASE pc \in {"args", "done"} /\ call.type = "SPAWN"
  <2>1. p = Len(text)
    BY <1>1, <1>2, <1>6 DEF ParserInv, InPlace
  <2> QED BY <1>3, <1>4, <2>1
<1>7. CASE pc \in {"args", "done"} /\ call.type = "HOOK"
  <2>1. PICK n : n = Len(t.args) + 1
    OBVIOUS
  <2>2. /\ p = Beginning(n) /\ Len(t.args) <= Len(call.args)
        /\ pc = "done" => Len(t.args) = Len(call.args)
    BY <1>1, <1>2, <1>7, <2>1 DEF ParserInv, InPlace
  <2>3. Len(at) = Len(call.args)
    BY <1>1, <1>7 DEF Layout
  <2>4. Len(t.args) = Len(at) => p = Len(text)
    <3>1. PICK m : m = Len(at) + 1
      OBVIOUS
    <3>2. Len(text) = Beginning(m)
      BY <1>1, <3>1 DEF Layout
    <3> QED BY <2>1, <2>2, <3>1, <3>2
  <2>5. Len(t.args) # Len(at) => n \in DOMAIN at
    BY <1>4, <2>1, <2>2, <2>3
  <2>6. ASSUME n \in DOMAIN at PROVE p <= Len(text)
    <3>1. PICK al : al = ArgLen(call.args[n])
      OBVIOUS
    <3>2. p = at[n]
      BY <1>1, <2>2, <2>6 DEF Layout
    <3>3. at[n] \in Nat /\ al \in Nat /\ at[n] + al <= Len(text)
      BY <1>1, <2>6, <3>1, ArgFacts
    <3> QED BY <1>4, <3>2, <3>3
  <2> QED BY <1>3, <1>4, <2>2, <2>3, <2>4, <2>5, <2>6
<1>8. pc \in {"compose", "read", "refused", "name", "args", "done"}
      /\ call.type \in {"SPAWN", "HOOK"}
  BY <1>1, <1>3, CallTypes DEF TypeOK
<1> QED BY <1>5, <1>6, <1>7, <1>8

(* An argument that lost nothing was read as it was sent.                  *)
LEMMA WholeArg ==
  ASSUME TypeOK, Layout, NEW j \in DOMAIN at, j \in DOMAIN t.args, ArgRead(j),
         InValue(j) \cap Lost = {}
  PROVE  t.args[j] = call.args[j]
<1>1. PICK a, b : a = call.args[j] /\ b = t.args[j]
  OBVIOUS
<1>2. a \in Arg
  BY <1>1, ArgFacts
<1>3. b \in [name : Seq(Bytes), value : Seq(Bytes)]
  BY <1>1, TextTypes, ElementOfSeq
<1>4. a.value \in Seq(Bytes) /\ b.value \in Seq(Bytes) /\ Len(a.value) \in Nat
  BY <1>2, <1>3, ArgTypes
<1>5. b.name = a.name /\ Len(b.value) = Len(a.value)
  BY <1>1 DEF ArgRead
<1>6. \A m \in 1 .. Len(a.value) : b.value[m] = a.value[m]
  <2> SUFFICES ASSUME NEW m \in 1 .. Len(a.value) PROVE b.value[m] = a.value[m]
    OBVIOUS
  <2>1. ValueFrom(j) + m \in InValue(j)
    <3>1. PICK v, n : v = ValueFrom(j) /\ n = Len(a.value)
      OBVIOUS
    <3>2. v \in Nat /\ n \in Nat /\ m \in 1 .. n
      BY <1>4, <3>1, ArgFacts
    <3>3. v + m \in v + 1 .. v + n
      BY <3>2
    <3> QED BY <1>1, <3>1, <3>3 DEF InValue
  <2> QED BY <1>1, <2>1 DEF ArgRead
<1>7. b.value = a.value
  BY <1>4, <1>5, <1>6, SeqEqual
<1>8. a = [name |-> a.name, value |-> a.value]
  BY <1>2 DEF Arg
<1>9. b = [name |-> b.name, value |-> b.value]
  BY <1>3
<1> QED BY <1>1, <1>5, <1>7, <1>8, <1>9

LEMMA ReadsWhole == IInv => RoundTrip
<1> SUFFICES ASSUME IInv, pc = "done", Intact PROVE t = Expected
  BY DEF RoundTrip
<1>1. TypeOK /\ Layout /\ ParserInv
  BY DEF IInv
<1>2. Lost = {} /\ OneValue
  BY <1>1, IntactLosesNothing
<1>3. InPlace
  BY <1>1, <1>2 DEF ParserInv
<1>4. t = [name |-> t.name, pid |-> t.pid, args |-> t.args]
  BY <1>1, TextTypes DEF Parsed
<1>5. CASE call.type = "SPAWN"
  BY <1>3, <1>4, <1>5 DEF InPlace, Expected
<1>6. CASE call.type = "HOOK"
  <2>1. t.name = call.name /\ t.pid = 0 /\ Len(t.args) = Len(call.args)
        /\ \A j \in DOMAIN t.args : ArgRead(j)
    BY <1>3, <1>6 DEF InPlace
  <2>2. Len(at) = Len(call.args)
    BY <1>1, <1>6 DEF Layout
  <2>3. \A j \in 1 .. Len(t.args) : t.args[j] = call.args[j]
    <3> SUFFICES ASSUME NEW j \in 1 .. Len(t.args) PROVE t.args[j] = call.args[j]
      OBVIOUS
    <3>1. j \in DOMAIN at /\ j \in DOMAIN t.args
      BY <1>1, <2>1, <2>2, TextTypes
    <3> QED BY <1>1, <1>2, <2>1, <3>1, WholeArg
  <2>4. t.args = call.args
    <3>1. PICK x, y : x = t.args /\ y = call.args
      OBVIOUS
    <3>2. /\ DOMAIN x = 1 .. Len(x) /\ DOMAIN y = 1 .. Len(y) /\ Len(x) = Len(y)
          /\ x \in [1 .. Len(x) -> [name : Seq(Bytes), value : Seq(Bytes)]]
          /\ y \in [1 .. Len(y) -> Arg]
      BY <1>1, <2>1, <3>1, TextTypes, CallTypes, LenProperties
    <3>3. \A j \in 1 .. Len(x) : x[j] = y[j]
      BY <2>3, <3>1
    <3> QED BY <3>1, <3>2, <3>3
  <2> QED BY <1>4, <1>6, <2>1, <2>4 DEF Expected
<1> QED BY <1>1, <1>5, <1>6, CallTypes

LEMMA LosesOneValue == IInv => LossContained
<1> SUFFICES ASSUME IInv, NEW i \in DOMAIN at, pc \in {"done", "astray"}, HeldByValue(i)
             PROVE  /\ pc = "done"
                    /\ t.name = call.name
                    /\ Len(t.args) = Len(call.args)
                    /\ \A j \in DOMAIN at \ {i} : t.args[j] = call.args[j]
                    /\ t.args[i].name = call.args[i].name
                    /\ Len(t.args[i].value) = Len(call.args[i].value)
  BY DEF LossContained
<1>1. TypeOK /\ Layout /\ ParserInv
  BY DEF IInv
<1>2. Lost \subseteq InValue(i)
  BY DEF HeldByValue, Lost, InValue
<1>3. OneValue
  BY <1>2 DEF OneValue
<1>4. pc = "done" /\ InPlace
  BY <1>1, <1>3 DEF ParserInv
<1>5. at # <<>>
  BY <1>1, TextTypes
<1>6. call.type = "HOOK"
  BY <1>1, <1>5, CallTypes DEF Layout
<1>7. t.name = call.name /\ Len(t.args) = Len(call.args) /\ \A j \in DOMAIN t.args : ArgRead(j)
  BY <1>4, <1>6 DEF InPlace
<1>8. DOMAIN at = DOMAIN t.args
  BY <1>1, <1>4, <1>6, <1>7, TextTypes DEF Layout
<1>9. ASSUME NEW j \in DOMAIN at \ {i} PROVE t.args[j] = call.args[j]
  <2>1. InValue(j) \cap Lost = {}
    <3> SUFFICES ASSUME NEW k \in InValue(j), k \in InValue(i) PROVE FALSE
      BY <1>2
    <3>1. PICK oi, ni, vi, oj, nj, vj :
            /\ oi = at[i] /\ ni = Len(call.args[i].name) /\ vi = Len(call.args[i].value)
            /\ oj = at[j] /\ nj = Len(call.args[j].name) /\ vj = Len(call.args[j].value)
      OBVIOUS
    <3>2. /\ oi \in Nat /\ ni \in Nat /\ vi \in Nat /\ i \in Nat
          /\ oj \in Nat /\ nj \in Nat /\ vj \in Nat /\ j \in Nat /\ j # i
      BY <1>1, <3>1, ArgFacts
    <3>3. k \in oi + ni + 3 + 1 .. oi + ni + 3 + vi
      <4>1. ValueFrom(i) = oi + ni + 3
        BY <1>1, <3>1, ArgFacts
      <4> QED BY <3>1, <4>1 DEF InValue
    <3>4. k \in oj + nj + 3 + 1 .. oj + nj + 3 + vj
      <4>1. ValueFrom(j) = oj + nj + 3
        BY <1>1, <3>1, ArgFacts
      <4> QED BY <3>1, <4>1 DEF InValue
    <3>5. i < j => oi + (ni + 3 + vi) <= oj
      BY <1>1, <3>1, ArgFacts DEF Layout
    <3>6. j < i => oj + (nj + 3 + vj) <= oi
      BY <1>1, <3>1, ArgFacts DEF Layout
    <3> QED BY <3>2, <3>3, <3>4, <3>5, <3>6
  <2> QED BY <1>1, <1>7, <1>8, <2>1, WholeArg
<1>10. t.args[i].name = call.args[i].name /\ Len(t.args[i].value) = Len(call.args[i].value)
  BY <1>7, <1>8 DEF ArgRead
<1> QED BY <1>4, <1>7, <1>9, <1>10

(* The parser keeps its bounds: for any message that fits chRequest it     *)
(* never touches a byte behind the text and stops at its very end, and for *)
(* any message at all what it has put together is no larger than what was  *)
(* sent (parse_spawn_message and parse_hook_message, yipcsrv.h).           *)
THEOREM WireInvHolds == Spec => []WireInv
<1>1. IInv => WireInv
  BY StaysInBounds DEF IInv, WireInv
<1> QED BY <1>1, Invariance, PTL

(* For any name, pid, and any number of arguments of any names and values, *)
(* parsing inverts composing: what reaches the monitor of a message that   *)
(* fits chRequest is what the hooked function reported (yipc.h:72,94).     *)
THEOREM RoundTripHolds == Spec => []RoundTrip
BY ReadsWhole, Invariance, PTL

(* Whatever the sizes, a message whose overwritten bytes all lie in one    *)
(* value loses bytes of this value and nothing else: all names, the other  *)
(* values and the lengths are read as they were sent.                      *)
THEOREM LossContainedHolds == Spec => []LossContained
BY LosesOneValue, Invariance, PTL

=============================================================================
