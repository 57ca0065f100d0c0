----------------------------- MODULE BigNumCodec -----------------------------
(***************************************************************************)
(* ECurve.setBigNum / getBigNum: an operand of a PKA command, given as a  *)
(* hex string, is written into the request payload as 32-bit words, the  *)
(* least significant word first, each word big-endian ("word-swapped");  *)
(* getBigNum reads getNumSize() words back, the most significant first,  *)
(* and formats each with "%0.8x".                                         *)
(*                                                                         *)
(* A command carries several operands, each in its own getNumSize()*4     *)
(* byte region, written one setBigNum call after the other (AppECC's      *)
(* Qx at 0, Qy at getNumSize()*4), after a 4-byte word in setCurve (the   *)
(* size) and verifySignature (byte_count).  A hex string is a tuple of one-char   *)
(* strings; int(s, 16) and "%0.8x" are modelled digit by digit, which is  *)
(* what they compute and keeps every number below TLC's 2^31.             *)
(***************************************************************************)
EXTENDS Integers, Sequences, SequencesExt, FiniteSets

CONSTANTS
    Inputs,          \* hex strings the callers pass (curve constants, CAVS values)
    Sizes,           \* getNumSize(): words per operand
    ByteCounts,      \* verifySignature's byte_count argument
    Commands         \* the wrappers whose payload is built: "setCurve" and
                     \* AppECC's setters and operations

UpperDigits == <<"0","1","2","3","4","5","6","7","8","9","A","B","C","D","E","F">>
LowerDigits == <<"0","1","2","3","4","5","6","7","8","9","a","b","c","d","e","f">>

\* int(c, 16) of one digit, either case.
DigitValue(c) ==
    CHOOSE d \in 0..15 : UpperDigits[d + 1] = c \/ LowerDigits[d + 1] = c

ASSUME \A s \in Inputs : \A k \in DOMAIN s :
          \E d \in 1..16 : s[k] \in {UpperDigits[d], LowerDigits[d]}

\* Python's s[a:b] for 0 < b <= len(s) and a possibly negative.
PySlice(s, a, b) ==
    LET start == IF a < 0 THEN (IF Len(s) + a < 0 THEN 0 ELSE Len(s) + a) ELSE a
    IN  IF start < b THEN SubSeq(s, start + 1, b) ELSE <<>>

\* setLong(payload, i, int(s, 16)) for a string of at most 8 digits: the
\* four octets of the number, most significant first.
WordOctets(s) ==
    LET d(k) == IF k <= Len(s) THEN DigitValue(s[Len(s) - k + 1]) ELSE 0  \* k-th digit from the right
    IN  [j \in 1..4 |-> 16 * d(10 - 2 * j) + d(9 - 2 * j)]

\* setLong(payload, i, v) of a number v < 2^32: its four octets, most
\* significant first.
LongOctets(v) == [j \in 1..4 |-> (v \div (2 ^ (8 * (4 - j)))) % 256]

\* The x values of range(len(value), 0, -8).
Steps(value) == [t \in 1..((Len(value) + 7) \div 8) |-> Len(value) - 8 * (t - 1)]

\* The byte offset of the word cut at x: index + (len(value) - x) / 2.
WordOffset(value, index, x) == index + (Len(value) - x) \div 2

\* setBigNum(payload, index, value): each word from value[x-8:x]; an empty
\* slice is int('', 16), a ValueError, and a word past the end of the
\* payload list an IndexError: error is TRUE and the payload is dropped.
setBigNum(payload, index, value) ==
    LET S       == Steps(value)
        word(t) == PySlice(value, S[t] - 8, S[t])
        pos(t)  == WordOffset(value, index, S[t])
        at(k)   == {t \in DOMAIN S : pos(t) < k /\ k <= pos(t) + 4}
    IN  [error   |-> \E t \in DOMAIN S : word(t) = <<>> \/ pos(t) + 4 > Len(payload),
         payload |-> [k \in DOMAIN payload |->
                        IF at(k) = {} THEN payload[k]
                        ELSE LET t == CHOOSE t \in at(k) : TRUE
                             IN  WordOctets(word(t))[k - pos(t)]]]

\* Mutant: "%x", without the zero padding to 8 digits.
FormatWordUnpadded(octets) ==
    LET digit(v) == LowerDigits[v + 1]
        full == FlattenSeq([j \in 1..4 |-> << digit(octets[j] \div 16), digit(octets[j] % 16) >>])
        lead == {k \in 1..7 : \A l \in 1..k : full[l] = "0"}
    IN  SubSeq(full, Cardinality(lead) + 1, 8)

\* "%0.8x" % getLong(payload, i): two lowercase digits per octet.
FormatWord(octets) ==
    LET digit(v) == LowerDigits[v + 1]
    IN  FlattenSeq([j \in 1..4 |-> << digit(octets[j] \div 16), digit(octets[j] % 16) >>])

\* Mutant: the words read from the lowest up, range(4, size*4 + 4, 4).
getBigNumAscending(payload, index, size) ==
    FlattenSeq([t \in 1..size |-> FormatWord(SubSeq(payload, index + 4 * (t - 1) + 1, index + 4 * t))])

\* getBigNum(payload, index): x in range(getNumSize()*4, 0, -4) reads the
\* word at index + x - 4, the most significant first.
getBigNum(payload, index, size) ==
    FlattenSeq([t \in 1..size |->
        LET x == size * 4 - 4 * (t - 1)
        IN  FormatWord(SubSeq(payload, index + x - 4 + 1, index + x))])

\* The header bytes before the first operand, and the operand count:
\* setCurve's payload opens with setLong(payload, 0, getNumSize()) and holds
\* prime, N, A, B, Gx and Gy.
\* AppECC's payloads: [0]*(k*4*getNumSize()) and k setBigNum calls, for
\* Qx, Qy (setGenerator, setPublicKey, and R, S of verifySignature);
\* scalar, x, y (multiply); d (setPrivateKey, setEphemeralKey,
\* calculatePublicKey).
EccCount(c) ==
    CASE c = "multiply" -> 3
      [] c \in {"setGenerator", "setPublicKey", "verifySignature"} -> 2
      [] OTHER -> 1

\* verifySignature's [0]*(4 + 4*2*getNumSize()) with
\* setLong(payload, 0, byte_count) before R and S.
VerifyPayload(s, w) == [k \in 1..4 + 2 * s * 4 |-> IF k <= 4 THEN LongOctets(w)[k] ELSE 0]

Header(c) == IF c \in {"setCurve", "verifySignature"} THEN 4 ELSE 0
Count(c)  == IF c = "setCurve" THEN 6 ELSE EccCount(c)

\* Mutant: setCurve's operands written from offset 0, over the size word.
OperandBaseNoHeader(c, s, t) == (t - 1) * s * 4

\* The offset operand t is written at: 4 + (t-1)*getNumSize()*4 in
\* setCurve and verifySignature, (t-1)*getNumSize()*4 in the others.
OperandBase(c, s, t) == Header(c) + (t - 1) * s * 4

\* CURVE_INFO's constants: each is getNumSize() whole words of upper-case
\* digits.
CurveInputs(s) == {v \in Inputs : Len(v) = 8 * s /\ \A k \in DOMAIN v : v[k] \in Range(UpperDigits)}

\* setCurve's payload before its setBigNum calls:
\* [0]*(4 + 4*6*getNumSize()) with setLong(payload, 0, getNumSize()).
CurvePayload(s) == [k \in 1..4 + 6 * s * 4 |-> IF k <= 4 THEN LongOctets(s)[k] ELSE 0]

VARIABLES
    cmd,       \* the command whose payload is built
    pc,        \* "encode", "decode", "done" or "error"
    size,      \* self.curve["size"]
    word,      \* the leading word: getNumSize() or byte_count (0 if none)
    values,    \* the operands, as given
    i,         \* the next operand setBigNum writes
    payload,   \* the wrapper's zeroed list, then the written words
    decoded    \* getBigNum of each operand's region

vars == <<cmd, pc, size, word, values, i, payload, decoded>>

TypeOK ==
    /\ cmd \in Commands
    /\ pc \in {"encode", "decode", "done", "error"}
    /\ size \in Sizes /\ word \in Sizes \cup ByteCounts \cup {0}
    /\ values \in [1..Count(cmd) -> Inputs]
    /\ i \in 1..Count(cmd) + 1
    /\ payload \in Seq(0..255) /\ Len(payload) = Header(cmd) + Count(cmd) * size * 4
    /\ decoded = <<>> \/ /\ decoded \in [1..Count(cmd) -> Seq(Range(LowerDigits))]
                         /\ \A t \in 1..Count(cmd) : Len(decoded[t]) = 8 * size

\* A wrapper's payload before its first setBigNum: zeroed, with setCurve's
\* size word or verifySignature's byte_count in front.
Init ==
    /\ pc = "encode" /\ i = 1 /\ decoded = <<>>
    /\ size \in Sizes
    /\ cmd \in Commands
    /\ \/ /\ cmd = "setCurve"
          /\ values \in [1..6 -> CurveInputs(size)]
          /\ word = size /\ payload = CurvePayload(size)
       \/ /\ cmd = "verifySignature"
          /\ values \in [1..2 -> Inputs]
          /\ word \in ByteCounts /\ payload = VerifyPayload(size, word)
       \/ /\ cmd \notin {"setCurve", "verifySignature"}
          /\ values \in [1..Count(cmd) -> Inputs]
          /\ word = 0 /\ payload = [k \in 1..Count(cmd) * size * 4 |-> 0]

\* setBigNum(payload, OperandBase(i), values[i]).  The payload goes to
\* executeCommand; the ones with a leading word are never read back.
SetOperand ==
    /\ pc = "encode" /\ i <= Count(cmd)
    /\ LET r == setBigNum(payload, OperandBase(cmd, size, i), values[i])
       IN  IF r.error
           THEN pc' = "error" /\ UNCHANGED payload
           ELSE /\ payload' = r.payload
                /\ pc' = CASE i < Count(cmd)     -> "encode"
                          [] Header(cmd) > 0     -> "done"
                          [] OTHER               -> "decode"
    /\ i' = i + 1
    /\ UNCHANGED <<cmd, size, word, values, decoded>>

\* getBigNum of every operand region.
GetOperands ==
    /\ pc = "decode"
    /\ decoded' = [t \in 1..Count(cmd) |-> getBigNum(payload, (t - 1) * size * 4, size)]
    /\ pc' = "done"
    /\ UNCHANGED <<cmd, size, word, values, i, payload>>

Next == SetOperand \/ GetOperands

Spec == Init /\ [][Next]_vars

-----------------------------------------------------------------------------
(* Properties                                                             *)

\* An operand within the contract: whole words, no more than getNumSize().
Fits(v) == Len(v) % 8 = 0 /\ Len(v) <= 8 * size

\* The layout of the spec, stated by digit position: octet j (1..4) of word
\* w (0 = least significant) holds hex digits 8w + 7 - 2(j-1) and
\* 8w + 6 - 2(j-1), counted from the right from 0; missing digits are 0.
SpecEncode(v, n) ==
    LET d(p) == IF p < Len(v) THEN DigitValue(v[Len(v) - p]) ELSE 0
    IN  [k \in 1..4 * n |->
           LET w == (k - 1) \div 4
               j == ((k - 1) % 4) + 1
           IN  16 * d(8 * w + 7 - 2 * (j - 1)) + d(8 * w + 6 - 2 * (j - 1))]

\* Word-swapped layout, across consecutive setBigNum calls: once every
\* operand of a command that keeps to the contract is written, each lies in
\* its own region in exactly the spec's layout, zero-extended -- no word
\* misplaced, none left over from or overwritten by a neighbour -- and
\* the leading word (setCurve's size, verifySignature's byte_count) is
\* still the one setLong wrote.
LayoutMatchesSpec ==
    (pc \in {"decode", "done"} /\ \A t \in 1..Count(cmd) : Fits(values[t])) =>
        /\ SubSeq(payload, 1, Header(cmd)) = SubSeq(LongOctets(word), 1, Header(cmd))
        /\ \A t \in 1..Count(cmd) :
              LET b == Header(cmd) + (t - 1) * size * 4
              IN  SubSeq(payload, b + 1, b + size * 4) = SpecEncode(values[t], size)

\* Two hex strings name the same number: equal digit values once padded
\* to a common width.
SameNumber(a, b) ==
    LET n == IF Len(a) > Len(b) THEN Len(a) ELSE Len(b)
        dv(s, p) == IF p <= Len(s) THEN DigitValue(s[Len(s) - p + 1]) ELSE 0
    IN  \A p \in 1..n : dv(a, p) = dv(b, p)

\* Round trip, as numbers: getBigNum of an operand's region gives back the
\* number setBigNum was given, for every operand within the contract.
RoundTripValue ==
    pc = "done" /\ Header(cmd) = 0 =>
        \A t \in 1..Count(cmd) : Fits(values[t]) => SameNumber(decoded[t], values[t])

\* Spec 8: decodeBigNum(encodeBigNum(h), 0, len(h)/8) == h for every hex
\* string whose length is a positive multiple of 8 -- as strings.
RoundTripExact ==
    pc = "done" /\ Header(cmd) = 0 =>
        \A t \in 1..Count(cmd) :
            (Len(values[t]) > 0 /\ Len(values[t]) = 8 * size) => decoded[t] = values[t]

=============================================================================
