-------------------------- MODULE ConversionsProof --------------------------
(***************************************************************************)
(* The conversions, for any text: the codec is exact for every code point  *)
(* and code unit, the checks of validate_next accept the well-formed       *)
(* characters of the Unicode standard and no others, and the loops         *)
(* therefore leave the text they consumed, and accept well-formed text.    *)
(***************************************************************************)
EXTENDS RoutinesProof

(***************************************************************************)
(* A trail octet is recognised and its payload recovered.                  *)
(***************************************************************************)
LEMMA TrailOctet ==
  ASSUME NEW x \in Nat
  PROVE  /\ C!trail_octet(x) \in 128 .. 191
         /\ C!is_trail(C!trail_octet(x))
         /\ C!payload(C!trail_octet(x)) = x % 64
  BY SMT DEF C!trail_octet, C!is_trail, C!payload

(***************************************************************************)
(* s is the encoding of cp: its first octet gives its length, the others   *)
(* are trail octets, get_sequence_x puts cp together, and it is not longer *)
(* than it need be.                                                        *)
(***************************************************************************)
Exact(cp, s) ==
  /\ C!sequence_length(s[1]) = Len(s)
  /\ \A k \in 2 .. Len(s) : C!is_trail(s[k])
  /\ C!get_sequence(s, 1, Len(s)) = cp
  /\ ~ C!is_overlong_sequence(cp, Len(s))

(***************************************************************************)
(* utf8::append is exact for one octet: the ASCII characters.              *)
(***************************************************************************)
LEMMA OneOctet ==
  ASSUME NEW cp \in Nat, cp < 128
  PROVE  Exact(cp, C!append(cp))
<1>1. C!append(cp) = <<cp>>
  BY SMT DEF C!append
<1>2. Len(C!append(cp)) = 1 /\ C!append(cp)[1] = cp
  BY <1>1
<1>3. C!sequence_length(cp) = 1
  BY SMT DEF C!sequence_length
<1>4. C!get_sequence(C!append(cp), 1, 1) = cp
  BY <1>2, SMT DEF C!get_sequence
<1>5. ~ C!is_overlong_sequence(cp, 1)
  BY SMT DEF C!is_overlong_sequence
<1>6. QED
  BY <1>2, <1>3, <1>4, <1>5, SMT DEF Exact

(***************************************************************************)
(* utf8::append is exact for two octets: U+0080 to U+07FF.                 *)
(***************************************************************************)
LEMMA TwoOctets ==
  ASSUME NEW cp \in Nat, 128 <= cp, cp < 2048
  PROVE  Exact(cp, C!append(cp))
<1> DEFINE a == 192 + (cp \div 64)
           b == C!trail_octet(cp)
<1>1. C!append(cp) = <<a, b>>
  BY SMT DEF C!append
<1>2. a \in 194 .. 223
  BY SMT
<1>3. b \in 128 .. 191 /\ C!is_trail(b) /\ C!payload(b) = cp % 64
  BY TrailOctet
<1>4. C!sequence_length(a) = 2
  BY <1>2, SMT DEF C!sequence_length
<1>5. (a * 64) % 2048 = (cp \div 64) * 64
  BY SMT
<1>6. (cp \div 64) * 64 + (cp % 64) = cp
  BY SMT
<1> HIDE DEF a, b
<1>7. Len(C!append(cp)) = 2 /\ C!append(cp)[1] = a /\ C!append(cp)[2] = b
  BY <1>1
<1>8. C!get_sequence(C!append(cp), 1, 2) = cp
  BY <1>3, <1>5, <1>6, <1>7, SMT DEF C!get_sequence
<1>9. ~ C!is_overlong_sequence(cp, 2)
  BY SMT DEF C!is_overlong_sequence
<1>10. QED
  BY <1>3, <1>4, <1>7, <1>8, <1>9, SMT DEF Exact

(***************************************************************************)
(* utf8::append is exact for three octets: U+0800 to U+FFFF.               *)
(***************************************************************************)
LEMMA ThreeOctets ==
  ASSUME NEW cp \in Nat, 2048 <= cp, cp < 65536
  PROVE  Exact(cp, C!append(cp))
<1> DEFINE a == 224 + (cp \div 4096)
           b == C!trail_octet(cp \div 64)
           c == C!trail_octet(cp)
<1>1. C!append(cp) = <<a, b, c>>
  BY SMT DEF C!append
<1>2. a \in 224 .. 239
  BY SMT
<1>3. b \in 128 .. 191 /\ C!is_trail(b) /\ C!payload(b) = (cp \div 64) % 64
  <2>1. cp \div 64 \in Nat
    BY SMT
  <2>2. QED
    BY <2>1, TrailOctet
<1>4. c \in 128 .. 191 /\ C!is_trail(c) /\ C!payload(c) = cp % 64
  BY TrailOctet
<1>5. C!sequence_length(a) = 3
  BY <1>2, SMT DEF C!sequence_length
<1>6. (a * 4096) % 65536 = (cp \div 4096) * 4096
  BY SMT
<1>7. (cp \div 4096) * 4096 + ((cp \div 64) % 64) * 64 + (cp % 64) = cp
  BY SMT
<1>8. ~ C!is_overlong_sequence(cp, 3)
  BY SMT DEF C!is_overlong_sequence
<1> HIDE DEF a, b, c
<1>9. /\ Len(C!append(cp)) = 3
      /\ C!append(cp)[1] = a /\ C!append(cp)[2] = b /\ C!append(cp)[3] = c
  BY <1>1
<1>10. C!get_sequence(C!append(cp), 1, 3) = cp
  BY <1>3, <1>4, <1>6, <1>7, <1>9, SMT DEF C!get_sequence
<1>11. \A k \in 2 .. 3 : C!is_trail(C!append(cp)[k])
  BY <1>3, <1>4, <1>9, SMT
<1>12. QED
  BY <1>5, <1>8, <1>9, <1>10, <1>11, SMT DEF Exact

(***************************************************************************)
(* utf8::append is exact for four octets: U+10000 to U+10FFFF.             *)
(***************************************************************************)
LEMMA FourOctets ==
  ASSUME NEW cp \in Nat, 65536 <= cp, cp <= C!CODE_POINT_MAX
  PROVE  Exact(cp, C!append(cp))
<1> DEFINE a == 240 + (cp \div 262144)
           b == C!trail_octet(cp \div 4096)
           c == C!trail_octet(cp \div 64)
           d == C!trail_octet(cp)
<1>1. C!append(cp) = <<a, b, c, d>>
  BY SMT DEF C!append
<1>2. a \in 240 .. 244
  BY SMT DEF C!CODE_POINT_MAX
<1>3. b \in 128 .. 191 /\ C!is_trail(b) /\ C!payload(b) = (cp \div 4096) % 64
  <2>1. cp \div 4096 \in Nat
    BY SMT
  <2>2. QED
    BY <2>1, TrailOctet
<1>4. c \in 128 .. 191 /\ C!is_trail(c) /\ C!payload(c) = (cp \div 64) % 64
  <2>1. cp \div 64 \in Nat
    BY SMT
  <2>2. QED
    BY <2>1, TrailOctet
<1>5. d \in 128 .. 191 /\ C!is_trail(d) /\ C!payload(d) = cp % 64
  BY TrailOctet
<1>6. C!sequence_length(a) = 4
  BY <1>2, SMT DEF C!sequence_length
<1>7. (a * 262144) % 2097152 = (cp \div 262144) * 262144
  BY SMT DEF C!CODE_POINT_MAX
<1>8. (cp \div 262144) * 262144 + ((cp \div 4096) % 64) * 4096 + ((cp \div 64) % 64) * 64
        + (cp % 64) = cp
  BY SMT
<1>9. ~ C!is_overlong_sequence(cp, 4)
  BY SMT DEF C!is_overlong_sequence
<1> HIDE DEF a, b, c, d
<1>10. /\ Len(C!append(cp)) = 4
       /\ C!append(cp)[1] = a /\ C!append(cp)[2] = b /\ C!append(cp)[3] = c /\ C!append(cp)[4] = d
  BY <1>1
<1>11. C!get_sequence(C!append(cp), 1, 4) = cp
  BY <1>3, <1>4, <1>5, <1>7, <1>8, <1>10, SMT DEF C!get_sequence
<1>12. \A k \in 2 .. 4 : C!is_trail(C!append(cp)[k])
  BY <1>3, <1>4, <1>5, <1>10, SMT
<1>13. QED
  BY <1>6, <1>9, <1>10, <1>11, <1>12, SMT DEF Exact

(***************************************************************************)
(* What WcharToUtf8 writes for a code point (checked.h:73), Utf8ToWchar    *)
(* reads as that code point (core.h:223): the length, every trail octet    *)
(* and the security checks agree, for all of Unicode.                      *)
(***************************************************************************)
THEOREM DecodesWhatItEncodes ==
  ASSUME NEW cp \in Int, C!is_code_point_valid(cp)
  PROVE  /\ C!validate_next(C!append(cp), 1) = "UTF8_OK"
         /\ C!sequence_length(C!append(cp)[1]) = Len(C!append(cp))
         /\ C!get_sequence(C!append(cp), 1, Len(C!append(cp))) = cp
<1>1. cp \in Nat /\ cp <= C!CODE_POINT_MAX
  BY SMT DEF C!is_code_point_valid
<1>2. Exact(cp, C!append(cp))
  <2>1. cp < 128 \/ (128 <= cp /\ cp < 2048) \/ (2048 <= cp /\ cp < 65536) \/ 65536 <= cp
    BY <1>1, SMT
  <2>2. CASE cp < 128
    BY <1>1, <2>2, OneOctet
  <2>3. CASE 128 <= cp /\ cp < 2048
    BY <1>1, <2>3, TwoOctets
  <2>4. CASE 2048 <= cp /\ cp < 65536
    BY <1>1, <2>4, ThreeOctets
  <2>5. CASE 65536 <= cp
    BY <1>1, <2>5, FourOctets
  <2>6. QED
    BY <2>1, <2>2, <2>3, <2>4, <2>5
<1>3. Len(C!append(cp)) \in 1 .. 4
  BY <1>1, SMT DEF C!append
<1>4. C!TrailError(C!append(cp), 1, Len(C!append(cp))) = "UTF8_OK"
  BY <1>2, <1>3, SMT DEF Exact, C!TrailError
<1>5. QED
  BY <1>2, <1>3, <1>4, SMT DEF Exact, C!validate_next

(***************************************************************************)
(* utf8to16 splits a code point beyond U+FFFF into a lead and a trail      *)
(* surrogate, from which utf16to8 puts it together again.                  *)
(***************************************************************************)
THEOREM PairsWhatItSplits ==
  ASSUME NEW cp \in Int, 65536 <= cp, cp <= C!CODE_POINT_MAX
  PROVE  \E lead, trail \in Int :
           /\ C!utf16(cp) = <<lead, trail>>
           /\ C!is_lead_surrogate(lead)
           /\ C!is_trail_surrogate(trail)
           /\ C!Pair(lead, trail) = cp
<1> DEFINE lead == (cp \div 1024) + C!LEAD_OFFSET
           trail == (cp % 1024) + C!TRAIL_SURROGATE_MIN
<1>1. C!utf16(cp) = <<lead, trail>>
  BY SMT DEF C!utf16
<1>2. lead \in Int /\ C!is_lead_surrogate(lead)
  BY SMT DEF C!LEAD_OFFSET, C!LEAD_SURROGATE_MIN, C!LEAD_SURROGATE_MAX, C!CODE_POINT_MAX,
             C!is_lead_surrogate
<1>3. trail \in Int /\ C!is_trail_surrogate(trail)
  BY SMT DEF C!TRAIL_SURROGATE_MIN, C!TRAIL_SURROGATE_MAX, C!is_trail_surrogate
<1>4. C!Pair(lead, trail) = cp
  BY SMT DEF C!Pair, C!SURROGATE_OFFSET, C!LEAD_OFFSET, C!LEAD_SURROGATE_MIN, C!TRAIL_SURROGATE_MIN
<1>5. QED
  BY <1>1, <1>2, <1>3, <1>4


-----------------------------------------------------------------------------
(***************************************************************************)
(* Sequences of numbers and of octets.                                     *)
(***************************************************************************)
IsText(s)   == s \in Seq(Int)
IsOctets(s) == s \in Seq(0 .. 255)

LEMMA TextIs ==
  ASSUME NEW s, IsText(s)
  PROVE  Len(s) \in Nat /\ \A j \in 1 .. Len(s) : s[j] \in Int
BY LenProperties, ElementOfSeq DEF IsText

LEMMA OctetsAre ==
  ASSUME NEW s, IsOctets(s)
  PROVE  Len(s) \in Nat /\ \A j \in 1 .. Len(s) : s[j] \in 0 .. 255
BY LenProperties, ElementOfSeq DEF IsOctets

LEMMA OctetsAreText ==
  ASSUME NEW s, IsOctets(s)
  PROVE  IsText(s)
<1>1. 0 .. 255 \subseteq Int
  OBVIOUS
<1>2. Seq(0 .. 255) \subseteq Seq(Int)
  BY <1>1, SeqMonotonic
<1> QED
  BY <1>2 DEF IsOctets, IsText

(***************************************************************************)
(* The rows of the table of well-formed byte sequences, by their lengths.  *)
(***************************************************************************)
LEMMA WholeRow1 ==
  ASSUME NEW s, IsText(s), NEW a
  PROVE  Len(s) = Len(<<a>>) /\ C!Begins(s, <<a>>)
           <=> Len(s) = 1 /\ s[1] \in a
<1>1. Len(<<a>>) = 1 /\ Len(s) \in Nat
  BY TextIs
<1>2. Len(s) = 1 => (C!Begins(s, <<a>>) <=> s[1] \in a)
  BY <1>1 DEF C!Begins
<1> QED
  BY <1>1, <1>2

LEMMA WholeRow2 ==
  ASSUME NEW s, IsText(s), NEW a, NEW b
  PROVE  Len(s) = Len(<<a, b>>) /\ C!Begins(s, <<a, b>>)
           <=> Len(s) = 2 /\ s[1] \in a /\ s[2] \in b
<1>1. Len(<<a, b>>) = 2 /\ Len(s) \in Nat
  BY TextIs
<1>2. Len(s) = 2 => (C!Begins(s, <<a, b>>) <=> s[1] \in a /\ s[2] \in b)
  BY <1>1 DEF C!Begins
<1> QED
  BY <1>1, <1>2

LEMMA WholeRow3 ==
  ASSUME NEW s, IsText(s), NEW a, NEW b, NEW c
  PROVE  Len(s) = Len(<<a, b, c>>) /\ C!Begins(s, <<a, b, c>>)
           <=> Len(s) = 3 /\ s[1] \in a /\ s[2] \in b /\ s[3] \in c
<1>1. Len(<<a, b, c>>) = 3 /\ Len(s) \in Nat
  BY TextIs
<1>2. Len(s) = 3 => (C!Begins(s, <<a, b, c>>) <=> s[1] \in a /\ s[2] \in b /\ s[3] \in c)
  BY <1>1 DEF C!Begins
<1> QED
  BY <1>1, <1>2

LEMMA WholeRow4 ==
  ASSUME NEW s, IsText(s), NEW a, NEW b, NEW c, NEW d
  PROVE  Len(s) = Len(<<a, b, c, d>>) /\ C!Begins(s, <<a, b, c, d>>)
           <=> Len(s) = 4 /\ s[1] \in a /\ s[2] \in b /\ s[3] \in c /\ s[4] \in d
<1>1. Len(<<a, b, c, d>>) = 4 /\ Len(s) \in Nat
  BY TextIs
<1>2. Len(s) = 4 => (C!Begins(s, <<a, b, c, d>>) <=> s[1] \in a /\ s[2] \in b /\ s[3] \in c /\ s[4] \in d)
  BY <1>1 DEF C!Begins
<1> QED
  BY <1>1, <1>2

(***************************************************************************)
(* The rows as conditions on the octets of a character.                    *)
(***************************************************************************)
Two(a, b) == a \in 194 .. 223 /\ b \in 128 .. 191
Three(a, b, c) ==
  /\ a \in 224 .. 239 /\ b \in 128 .. 191 /\ c \in 128 .. 191
  /\ a = 224 => b >= 160
  /\ a = 237 => b <= 159
Four(a, b, c, d) ==
  /\ a \in 240 .. 244 /\ b \in 128 .. 191 /\ c \in 128 .. 191 /\ d \in 128 .. 191
  /\ a = 240 => b >= 144
  /\ a = 244 => b <= 143

IsOne(s)   == Len(s) = 1 /\ s[1] \in 0 .. 127
IsTwo(s)   == Len(s) = 2 /\ Two(s[1], s[2])
IsThree(s) == Len(s) = 3 /\ Three(s[1], s[2], s[3])
IsFour(s)  == Len(s) = 4 /\ Four(s[1], s[2], s[3], s[4])

LEMMA RowsOfThree ==
  ASSUME NEW a \in Int, NEW b \in Int, NEW c \in Int
  PROVE  /\ a \in {224} /\ b \in 160 .. 191 /\ c \in C!Trail <=> Three(a, b, c) /\ a = 224
         /\ a \in (225 .. 239) \ {237} /\ b \in C!Trail /\ c \in C!Trail <=> Three(a, b, c) /\ a # 224 /\ a # 237
         /\ a \in {237} /\ b \in 128 .. 159 /\ c \in C!Trail <=> Three(a, b, c) /\ a = 237
  BY DEF Three, C!Trail

LEMMA RowsOfFour ==
  ASSUME NEW a \in Int, NEW b \in Int, NEW c \in Int, NEW d \in Int
  PROVE  /\ a \in {240} /\ b \in 144 .. 191 /\ c \in C!Trail /\ d \in C!Trail
              <=> Four(a, b, c, d) /\ a = 240
         /\ a \in 241 .. 243 /\ b \in C!Trail /\ c \in C!Trail /\ d \in C!Trail
              <=> Four(a, b, c, d) /\ a # 240 /\ a # 244
         /\ a \in {244} /\ b \in 128 .. 143 /\ c \in C!Trail /\ d \in C!Trail
              <=> Four(a, b, c, d) /\ a = 244
  BY DEF Four, C!Trail

LEMMA CharacterIs ==
  ASSUME NEW s, IsText(s)
  PROVE  C!IsCharacter(s) <=> IsOne(s) \/ IsTwo(s) \/ IsThree(s) \/ IsFour(s)
<1> DEFINE T1 == C!Trail
           r1 == <<0 .. 127>>
           r2 == <<194 .. 223, T1>>
           D3 == {224}
           D4 == (225 .. 239) \ {237}
           D5 == {237}
           D6 == {240}
           D7 == 241 .. 243
           D8 == {244}
           r3 == <<D3, 160 .. 191, T1>>
           r4 == <<D4, T1, T1>>
           r5 == <<D5, 128 .. 159, T1>>
           r6 == <<D6, 144 .. 191, T1, T1>>
           r7 == <<D7, T1, T1, T1>>
           r8 == <<D8, 128 .. 143, T1, T1>>
           Is(r) == Len(s) = Len(r) /\ C!Begins(s, r)
<1>1. C!IsCharacter(s) <=> Is(r1) \/ Is(r2) \/ Is(r3) \/ Is(r4) \/ Is(r5) \/ Is(r6) \/ Is(r7) \/ Is(r8)
  <2>1. C!WellFormedRows = {r1, r2, r3, r4, r5, r6, r7, r8}
    BY DEF C!WellFormedRows
  <2>2. C!IsCharacter(s) <=> \E r \in C!WellFormedRows : Is(r)
    BY DEF C!IsCharacter
  <2> HIDE DEF r1, r2, r3, r4, r5, r6, r7, r8, Is
  <2> QED
    BY <2>1, <2>2
<1>2. /\ Len(s) = 3 => s[1] \in Int /\ s[2] \in Int /\ s[3] \in Int
      /\ Len(s) = 4 => s[1] \in Int /\ s[2] \in Int /\ s[3] \in Int /\ s[4] \in Int
  BY TextIs
<1>3. Is(r1) <=> IsOne(s)
  BY WholeRow1 DEF IsOne
<1>4. Is(r2) <=> IsTwo(s)
  <2>1. Is(r2) <=> Len(s) = 2 /\ s[1] \in 194 .. 223 /\ s[2] \in T1
    <3> HIDE DEF T1
    <3> QED
      BY WholeRow2, Zenon
  <2> HIDE DEF r2, Is
  <2> QED
    BY <2>1 DEF IsTwo, Two, C!Trail
<1> HIDE DEF D3, D4, D5, D6, D7, D8
<1> DEFINE Rows3(a, b, c) ==
             /\ a \in D3 /\ b \in 160 .. 191 /\ c \in T1 <=> Three(a, b, c) /\ a = 224
             /\ a \in D4 /\ b \in T1 /\ c \in T1 <=> Three(a, b, c) /\ a # 224 /\ a # 237
             /\ a \in D5 /\ b \in 128 .. 159 /\ c \in T1 <=> Three(a, b, c) /\ a = 237
           Rows4(a, b, c, d) ==
             /\ a \in D6 /\ b \in 144 .. 191 /\ c \in T1 /\ d \in T1
                  <=> Four(a, b, c, d) /\ a = 240
             /\ a \in D7 /\ b \in T1 /\ c \in T1 /\ d \in T1
                  <=> Four(a, b, c, d) /\ a # 240 /\ a # 244
             /\ a \in D8 /\ b \in 128 .. 143 /\ c \in T1 /\ d \in T1
                  <=> Four(a, b, c, d) /\ a = 244
<1>12. Len(s) = 3 => Rows3(s[1], s[2], s[3])
  <2>1. \A a, b, c \in Int : Rows3(a, b, c)
    BY RowsOfThree DEF D3, D4, D5
  <2> HIDE DEF Rows3
  <2> QED
    BY <1>2, <2>1
<1>13. Len(s) = 4 => Rows4(s[1], s[2], s[3], s[4])
  <2>1. \A a, b, c, d \in Int : Rows4(a, b, c, d)
    BY RowsOfFour DEF D6, D7, D8
  <2> HIDE DEF Rows4
  <2> QED
    BY <1>2, <2>1
<1> HIDE DEF T1
<1>5. Is(r3) <=> IsThree(s) /\ s[1] = 224
  <2>1. Is(r3) <=> Len(s) = 3 /\ s[1] \in D3 /\ s[2] \in 160 .. 191 /\ s[3] \in T1
    BY WholeRow3, Zenon
  <2> HIDE DEF r3, Is
  <2>2. ASSUME Len(s) = 3 PROVE Is(r3) <=> IsThree(s) /\ s[1] = 224
    BY <1>12, <2>1, <2>2, Zenon DEF IsThree
  <2>3. ASSUME Len(s) # 3 PROVE Is(r3) <=> IsThree(s) /\ s[1] = 224
    BY <2>1, <2>3, Zenon DEF IsThree
  <2> QED
    BY <2>2, <2>3, Zenon
<1>6. Is(r4) <=> IsThree(s) /\ s[1] # 224 /\ s[1] # 237
  <2>1. Is(r4) <=> Len(s) = 3 /\ s[1] \in D4 /\ s[2] \in T1 /\ s[3] \in T1
    BY WholeRow3, Zenon
  <2> HIDE DEF r4, Is
  <2>2. ASSUME Len(s) = 3 PROVE Is(r4) <=> IsThree(s) /\ s[1] # 224 /\ s[1] # 237
    BY <1>12, <2>1, <2>2, Zenon DEF IsThree
  <2>3. ASSUME Len(s) # 3 PROVE Is(r4) <=> IsThree(s) /\ s[1] # 224 /\ s[1] # 237
    BY <2>1, <2>3, Zenon DEF IsThree
  <2> QED
    BY <2>2, <2>3, Zenon
<1>7. Is(r5) <=> IsThree(s) /\ s[1] = 237
  <2>1. Is(r5) <=> Len(s) = 3 /\ s[1] \in D5 /\ s[2] \in 128 .. 159 /\ s[3] \in T1
    BY WholeRow3, Zenon
  <2> HIDE DEF r5, Is
  <2>2. ASSUME Len(s) = 3 PROVE Is(r5) <=> IsThree(s) /\ s[1] = 237
    BY <1>12, <2>1, <2>2, Zenon DEF IsThree
  <2>3. ASSUME Len(s) # 3 PROVE Is(r5) <=> IsThree(s) /\ s[1] = 237
    BY <2>1, <2>3, Zenon DEF IsThree
  <2> QED
    BY <2>2, <2>3, Zenon
<1>8. Is(r6) <=> IsFour(s) /\ s[1] = 240
  <2>1. Is(r6) <=> Len(s) = 4 /\ s[1] \in D6 /\ s[2] \in 144 .. 191 /\ s[3] \in T1 /\ s[4] \in T1
    BY WholeRow4, Zenon
  <2> HIDE DEF r6, Is
  <2>2. ASSUME Len(s) = 4 PROVE Is(r6) <=> IsFour(s) /\ s[1] = 240
    BY <1>13, <2>1, <2>2, Zenon DEF IsFour
  <2>3. ASSUME Len(s) # 4 PROVE Is(r6) <=> IsFour(s) /\ s[1] = 240
    BY <2>1, <2>3, Zenon DEF IsFour
  <2> QED
    BY <2>2, <2>3, Zenon
<1>9. Is(r7) <=> IsFour(s) /\ s[1] # 240 /\ s[1] # 244
  <2>1. Is(r7) <=> Len(s) = 4 /\ s[1] \in D7 /\ s[2] \in T1 /\ s[3] \in T1 /\ s[4] \in T1
    BY WholeRow4, Zenon
  <2> HIDE DEF r7, Is
  <2>2. ASSUME Len(s) = 4 PROVE Is(r7) <=> IsFour(s) /\ s[1] # 240 /\ s[1] # 244
    BY <1>13, <2>1, <2>2, Zenon DEF IsFour
  <2>3. ASSUME Len(s) # 4 PROVE Is(r7) <=> IsFour(s) /\ s[1] # 240 /\ s[1] # 244
    BY <2>1, <2>3, Zenon DEF IsFour
  <2> QED
    BY <2>2, <2>3, Zenon
<1>10. Is(r8) <=> IsFour(s) /\ s[1] = 244
  <2>1. Is(r8) <=> Len(s) = 4 /\ s[1] \in D8 /\ s[2] \in 128 .. 143 /\ s[3] \in T1 /\ s[4] \in T1
    BY WholeRow4, Zenon
  <2> HIDE DEF r8, Is
  <2>2. ASSUME Len(s) = 4 PROVE Is(r8) <=> IsFour(s) /\ s[1] = 244
    BY <1>13, <2>1, <2>2, Zenon DEF IsFour
  <2>3. ASSUME Len(s) # 4 PROVE Is(r8) <=> IsFour(s) /\ s[1] = 244
    BY <2>1, <2>3, Zenon DEF IsFour
  <2> QED
    BY <2>2, <2>3, Zenon
<1> HIDE DEF Is, r1, r2, r3, r4, r5, r6, r7, r8
<1> QED
  BY <1>1, <1>3, <1>4, <1>5, <1>6, <1>7, <1>8, <1>9, <1>10

(***************************************************************************)
(* The length of a character is the one its lead octet announces.          *)
(***************************************************************************)
LEMMA LeadIs ==
  ASSUME NEW a \in 0 .. 255
  PROVE  /\ C!sequence_length(a) \in 0 .. 4
         /\ C!sequence_length(a) = 1 <=> a \in 0 .. 127
         /\ C!sequence_length(a) = 2 <=> a \in 192 .. 223
         /\ C!sequence_length(a) = 3 <=> a \in 224 .. 239
         /\ C!sequence_length(a) = 4 <=> a \in 240 .. 247
<1>1. /\ a < 128 <=> a \in 0 .. 127
      /\ a \div 32 = 6 <=> a \in 192 .. 223
      /\ a \div 16 = 14 <=> a \in 224 .. 239
      /\ a \div 8 = 30 <=> a \in 240 .. 247
  OBVIOUS
<1>2. CASE a \in 0 .. 127
  BY <1>1, <1>2 DEF C!sequence_length
<1>3. CASE a \in 192 .. 223
  BY <1>1, <1>3 DEF C!sequence_length
<1>4. CASE a \in 224 .. 239
  BY <1>1, <1>4 DEF C!sequence_length
<1>5. CASE a \in 240 .. 247
  BY <1>1, <1>5 DEF C!sequence_length
<1>6. CASE a \in 128 .. 191 \/ a \in 248 .. 255
  BY <1>1, <1>6 DEF C!sequence_length
<1> QED
  BY <1>2, <1>3, <1>4, <1>5, <1>6

\* The length a lead octet announces.
LeadCase(a) ==
  \/ C!sequence_length(a) = 1 /\ a \in 0 .. 127
  \/ C!sequence_length(a) = 2 /\ a \in 192 .. 223
  \/ C!sequence_length(a) = 3 /\ a \in 224 .. 239
  \/ C!sequence_length(a) = 4 /\ a \in 240 .. 247
  \/ C!sequence_length(a) = 0

LEMMA LeadCases ==
  ASSUME NEW a \in 0 .. 255
  PROVE  LeadCase(a)
<1>1. /\ a < 128 => a \in 0 .. 127
      /\ a \div 32 = 6 => a \in 192 .. 223
      /\ a \div 16 = 14 => a \in 224 .. 239
      /\ a \div 8 = 30 => a \in 240 .. 247
  OBVIOUS
<1> QED
  BY <1>1 DEF LeadCase, C!sequence_length

LEMMA CharacterLength ==
  ASSUME NEW s, IsText(s), C!IsCharacter(s)
  PROVE  /\ Len(s) \in 1 .. 4 /\ s[1] \in 0 .. 255
         /\ C!sequence_length(s[1]) = Len(s)
<1>1. CASE IsOne(s)
  <2>1. PICK a \in 0 .. 255 : a = s[1]
    BY <1>1 DEF IsOne
  <2>2. C!sequence_length(a) = 1
    BY <1>1, <2>1, LeadIs DEF IsOne
  <2> QED
    BY <1>1, <2>1, <2>2 DEF IsOne
<1>2. CASE IsTwo(s)
  <2>1. PICK a \in 0 .. 255 : a = s[1]
    BY <1>2 DEF IsTwo, Two
  <2>2. C!sequence_length(a) = 2
    <3>1. a \in 192 .. 223
      BY <1>2, <2>1 DEF IsTwo, Two
    <3> QED
      BY <3>1, LeadIs
  <2> QED
    BY <1>2, <2>1, <2>2 DEF IsTwo
<1>3. CASE IsThree(s)
  <2>1. PICK a \in 0 .. 255 : a = s[1]
    BY <1>3 DEF IsThree, Three
  <2>2. C!sequence_length(a) = 3
    <3>1. a \in 224 .. 239
      BY <1>3, <2>1 DEF IsThree, Three
    <3> QED
      BY <3>1, LeadIs
  <2> QED
    BY <1>3, <2>1, <2>2 DEF IsThree
<1>4. CASE IsFour(s)
  <2>1. PICK a \in 0 .. 255 : a = s[1]
    BY <1>4 DEF IsFour, Four
  <2>2. C!sequence_length(a) = 4
    <3>1. a \in 240 .. 247
      BY <1>4, <2>1 DEF IsFour, Four
    <3> QED
      BY <3>1, LeadIs
  <2> QED
    BY <1>4, <2>1, <2>2 DEF IsFour
<1> QED
  BY <1>1, <1>2, <1>3, <1>4, CharacterIs

(***************************************************************************)
(* The beginning of a character: its lead octet and trail octets.          *)
(***************************************************************************)
LEMMA CutRow2 ==
  ASSUME NEW s, IsText(s), Len(s) > 0, NEW a, NEW b,
         b \subseteq C!Trail,
         Len(s) < Len(<<a, b>>), C!Begins(s, <<a, b>>)
  PROVE  Len(s) < 2 /\ s[1] \in a /\ \A k \in 2 .. Len(s) : s[k] \in C!Trail
<1>1. Len(<<a, b>>) = 2 /\ Len(s) \in Nat
  BY TextIs
<1>2. s[1] \in a
  BY <1>1 DEF C!Begins
<1>3. ASSUME NEW k \in 2 .. Len(s) PROVE s[k] \in C!Trail
  BY <1>1 DEF C!Begins
<1> QED
  BY <1>1, <1>2, <1>3

LEMMA CutRow3 ==
  ASSUME NEW s, IsText(s), Len(s) > 0, NEW a, NEW b, NEW c,
         b \subseteq C!Trail, c \subseteq C!Trail,
         Len(s) < Len(<<a, b, c>>), C!Begins(s, <<a, b, c>>)
  PROVE  Len(s) < 3 /\ s[1] \in a /\ \A k \in 2 .. Len(s) : s[k] \in C!Trail
<1>1. Len(<<a, b, c>>) = 3 /\ Len(s) \in Nat
  BY TextIs
<1>2. s[1] \in a
  BY <1>1 DEF C!Begins
<1>3. ASSUME NEW k \in 2 .. Len(s) PROVE s[k] \in C!Trail
  BY <1>1 DEF C!Begins
<1> QED
  BY <1>1, <1>2, <1>3

LEMMA CutRow4 ==
  ASSUME NEW s, IsText(s), Len(s) > 0, NEW a, NEW b, NEW c, NEW d,
         b \subseteq C!Trail, c \subseteq C!Trail, d \subseteq C!Trail,
         Len(s) < Len(<<a, b, c, d>>), C!Begins(s, <<a, b, c, d>>)
  PROVE  Len(s) < 4 /\ s[1] \in a /\ \A k \in 2 .. Len(s) : s[k] \in C!Trail
<1>1. Len(<<a, b, c, d>>) = 4 /\ Len(s) \in Nat
  BY TextIs
<1>2. s[1] \in a
  BY <1>1 DEF C!Begins
<1>3. ASSUME NEW k \in 2 .. Len(s) PROVE s[k] \in C!Trail
  BY <1>1 DEF C!Begins
<1> QED
  BY <1>1, <1>2, <1>3

\* The beginning of a character, and not all of it.
IsCutCharacter(s) ==
  \E row \in C!WellFormedRows : Len(s) < Len(row) /\ C!Begins(s, row)

LEMMA CutIs ==
  ASSUME NEW s, IsText(s), Len(s) > 0, IsCutCharacter(s)
  PROVE  /\ s[1] \in 0 .. 255 /\ Len(s) < C!sequence_length(s[1])
         /\ \A k \in 2 .. Len(s) : s[k] \in C!Trail
<1> DEFINE T1 == C!Trail
           D1 == 0 .. 127
           D2 == 194 .. 223
           D3 == {224}
           D4 == (225 .. 239) \ {237}
           D5 == {237}
           D6 == {240}
           D7 == 241 .. 243
           D8 == {244}
           E3 == 160 .. 191
           E5 == 128 .. 159
           E6 == 144 .. 191
           E8 == 128 .. 143
           r1 == <<D1>>
           r2 == <<D2, T1>>
           r3 == <<D3, E3, T1>>
           r4 == <<D4, T1, T1>>
           r5 == <<D5, E5, T1>>
           r6 == <<D6, E6, T1, T1>>
           r7 == <<D7, T1, T1, T1>>
           r8 == <<D8, E8, T1, T1>>
           Cut(r) == Len(s) < Len(r) /\ C!Begins(s, r)
           Trails == \A k \in 2 .. Len(s) : s[k] \in T1
<1>1. Cut(r1) \/ Cut(r2) \/ Cut(r3) \/ Cut(r4) \/ Cut(r5) \/ Cut(r6) \/ Cut(r7) \/ Cut(r8)
  <2>1. C!WellFormedRows = {r1, r2, r3, r4, r5, r6, r7, r8}
    BY DEF C!WellFormedRows
  <2>2. \E r \in C!WellFormedRows : Cut(r)
    BY DEF IsCutCharacter
  <2> HIDE DEF r1, r2, r3, r4, r5, r6, r7, r8, Cut
  <2> QED
    BY <2>1, <2>2
<1>2. /\ E3 \subseteq T1 /\ E5 \subseteq T1 /\ E6 \subseteq T1 /\ E8 \subseteq T1 /\ T1 \subseteq T1
  BY DEF C!Trail
<1>22. \A x \in D2 : x \in 192 .. 223
  OBVIOUS
<1>23. \A x \in D3 : x \in 224 .. 239
  OBVIOUS
<1>24. \A x \in D4 : x \in 224 .. 239
  OBVIOUS
<1>25. \A x \in D5 : x \in 224 .. 239
  OBVIOUS
<1>26. \A x \in D6 : x \in 240 .. 247
  OBVIOUS
<1>27. \A x \in D7 : x \in 240 .. 247
  OBVIOUS
<1>28. \A x \in D8 : x \in 240 .. 247
  OBVIOUS
<1> HIDE DEF D1, D2, D3, D4, D5, D6, D7, D8, E3, E5, E6, E8, T1
<1>3. ~ Cut(r1)
  OBVIOUS
<1>4. Cut(r2) => Len(s) < 2 /\ s[1] \in 192 .. 223 /\ Trails
  <2>1. Cut(r2) => Len(s) < 2 /\ s[1] \in D2 /\ Trails
    BY <1>2, CutRow2, Zenon DEF T1
  <2> HIDE DEF r2, Cut, Trails
  <2> QED
    BY <1>22, <2>1
<1>5. Cut(r3) => Len(s) < 3 /\ s[1] \in 224 .. 239 /\ Trails
  <2>1. Cut(r3) => Len(s) < 3 /\ s[1] \in D3 /\ Trails
    BY <1>2, CutRow3, Zenon DEF T1
  <2> HIDE DEF r3, Cut, Trails
  <2> QED
    BY <1>23, <2>1
<1>6. Cut(r4) => Len(s) < 3 /\ s[1] \in 224 .. 239 /\ Trails
  <2>1. Cut(r4) => Len(s) < 3 /\ s[1] \in D4 /\ Trails
    BY <1>2, CutRow3, Zenon DEF T1
  <2> HIDE DEF r4, Cut, Trails
  <2> QED
    BY <1>24, <2>1
<1>7. Cut(r5) => Len(s) < 3 /\ s[1] \in 224 .. 239 /\ Trails
  <2>1. Cut(r5) => Len(s) < 3 /\ s[1] \in D5 /\ Trails
    BY <1>2, CutRow3, Zenon DEF T1
  <2> HIDE DEF r5, Cut, Trails
  <2> QED
    BY <1>25, <2>1
<1>8. Cut(r6) => Len(s) < 4 /\ s[1] \in 240 .. 247 /\ Trails
  <2>1. Cut(r6) => Len(s) < 4 /\ s[1] \in D6 /\ Trails
    BY <1>2, CutRow4, Zenon DEF T1
  <2> HIDE DEF r6, Cut, Trails
  <2> QED
    BY <1>26, <2>1
<1>9. Cut(r7) => Len(s) < 4 /\ s[1] \in 240 .. 247 /\ Trails
  <2>1. Cut(r7) => Len(s) < 4 /\ s[1] \in D7 /\ Trails
    BY <1>2, CutRow4, Zenon DEF T1
  <2> HIDE DEF r7, Cut, Trails
  <2> QED
    BY <1>27, <2>1
<1>10. Cut(r8) => Len(s) < 4 /\ s[1] \in 240 .. 247 /\ Trails
  <2>1. Cut(r8) => Len(s) < 4 /\ s[1] \in D8 /\ Trails
    BY <1>2, CutRow4, Zenon DEF T1
  <2> HIDE DEF r8, Cut, Trails
  <2> QED
    BY <1>28, <2>1
<1> HIDE DEF r1, r2, r3, r4, r5, r6, r7, r8, Cut
<1>11. Len(s) \in Nat
  BY TextIs
<1>12. /\ Trails
       /\ \/ Len(s) < 2 /\ s[1] \in 192 .. 223
          \/ Len(s) < 3 /\ s[1] \in 224 .. 239
          \/ Len(s) < 4 /\ s[1] \in 240 .. 247
  BY <1>1, <1>3, <1>4, <1>5, <1>6, <1>7, <1>8, <1>9, <1>10
<1>13. PICK a \in 0 .. 255 : a = s[1]
  BY <1>12
<1>14. /\ a \in 192 .. 223 => C!sequence_length(a) = 2
       /\ a \in 224 .. 239 => C!sequence_length(a) = 3
       /\ a \in 240 .. 247 => C!sequence_length(a) = 4
  BY LeadIs, Zenon
<1>15. Len(s) < C!sequence_length(a)
  BY <1>11, <1>12, <1>13, <1>14
<1> QED
  BY <1>12, <1>13, <1>15 DEF T1

(***************************************************************************)
(* The bit fields, and what the security checks make of them.              *)
(***************************************************************************)
LEMMA TrailIs ==
  ASSUME NEW x \in 0 .. 255
  PROVE  C!is_trail(x) <=> x \in C!Trail
  BY DEF C!is_trail, C!Trail

LEMMA TrailBits ==
  ASSUME NEW x \in C!Trail
  PROVE  C!payload(x) = x - 128
  BY DEF C!payload, C!Trail

Leads2 == 192 .. 223
Leads3 == 224 .. 239
Leads4 == 240 .. 247
Lead2(a) == (a * 64) % 2048
Lead3(a) == (a * 4096) % 65536
Lead4(a) == (a * 262144) % 2097152

LEMMA LeadBits2 ==
  ASSUME NEW a \in Leads2 PROVE Lead2(a) = (a - 192) * 64
  BY DEF Lead2, Leads2

LEMMA LeadBits3 ==
  ASSUME NEW a \in Leads3 PROVE Lead3(a) = (a - 224) * 4096
  BY DEF Lead3, Leads3

LEMMA LeadBits4 ==
  ASSUME NEW a \in Leads4 PROVE Lead4(a) = (a - 240) * 262144
  BY DEF Lead4, Leads4

Code2(a, b)       == a * 64 + b
Code3(a, b, c)    == a * 4096 + b * 64 + c
Code4(a, b, c, d) == a * 262144 + b * 4096 + c * 64 + d

Accepted(cp, n) == C!is_code_point_valid(cp) /\ ~ C!is_overlong_sequence(cp, n)

LEMMA AcceptedOne ==
  ASSUME NEW a \in 0 .. 127
  PROVE  Accepted(a, 1)
  BY DEF Accepted, C!is_code_point_valid, C!is_overlong_sequence, C!CODE_POINT_MAX,
         C!LEAD_SURROGATE_MIN, C!TRAIL_SURROGATE_MAX

LEMMA AcceptedTwo ==
  ASSUME NEW a \in 192 .. 223, NEW b \in C!Trail
  PROVE  Accepted(Code2(a - 192, b - 128), 2) <=> Two(a, b)
  BY DEF Two, Code2, C!Trail, Accepted, C!is_code_point_valid, C!is_overlong_sequence, C!CODE_POINT_MAX,
         C!LEAD_SURROGATE_MIN, C!TRAIL_SURROGATE_MAX

LEMMA AcceptedThree ==
  ASSUME NEW a \in 224 .. 239, NEW b \in C!Trail, NEW c \in C!Trail
  PROVE  Accepted(Code3(a - 224, b - 128, c - 128), 3) <=> Three(a, b, c)
  BY DEF Three, Code3, C!Trail, Accepted, C!is_code_point_valid, C!is_overlong_sequence, C!CODE_POINT_MAX,
         C!LEAD_SURROGATE_MIN, C!TRAIL_SURROGATE_MAX

LEMMA AcceptedFour ==
  ASSUME NEW a \in 240 .. 247, NEW b \in C!Trail, NEW c \in C!Trail, NEW d \in C!Trail
  PROVE  Accepted(Code4(a - 240, b - 128, c - 128, d - 128), 4)
           <=> Four(a, b, c, d)
  BY DEF Four, Code4, C!Trail, Accepted, C!is_code_point_valid, C!is_overlong_sequence, C!CODE_POINT_MAX,
         C!LEAD_SURROGATE_MIN, C!TRAIL_SURROGATE_MAX

LEMMA Piece ==
  ASSUME NEW s, IsText(s), NEW k \in Nat \ {0}, NEW n \in Nat \ {0}, k + n - 1 <= Len(s)
  PROVE  /\ IsText(SubSeq(s, k, k + n - 1)) /\ Len(SubSeq(s, k, k + n - 1)) = n
         /\ \A j \in 1 .. n : SubSeq(s, k, k + n - 1)[j] = s[k + j - 1]
<1>1. PICK m \in Nat : m = k + n - 1 /\ m - k + 1 = n /\ k <= m
  OBVIOUS
<1>2. \A j \in k .. m : s[j] \in Int
  BY <1>1, TextIs
<1>3. /\ SubSeq(s, k, m) \in Seq(Int) /\ Len(SubSeq(s, k, m)) = m - k + 1
      /\ \A j \in 1 .. m - k + 1 : SubSeq(s, k, m)[j] = s[k + j - 1]
  BY <1>1, <1>2, SubSeqProperties
<1> QED
  BY <1>1, <1>3 DEF IsText

LEMMA CharacterOfLength ==
  ASSUME NEW c, IsText(c)
  PROVE  /\ Len(c) = 1 => (C!IsCharacter(c) <=> IsOne(c))
         /\ Len(c) = 2 => (C!IsCharacter(c) <=> Two(c[1], c[2]))
         /\ Len(c) = 3 => (C!IsCharacter(c) <=> Three(c[1], c[2], c[3]))
         /\ Len(c) = 4 => (C!IsCharacter(c) <=> Four(c[1], c[2], c[3], c[4]))
<1>1. /\ IsOne(c) => Len(c) = 1
      /\ IsTwo(c) <=> Len(c) = 2 /\ Two(c[1], c[2])
      /\ IsThree(c) <=> Len(c) = 3 /\ Three(c[1], c[2], c[3])
      /\ IsFour(c) <=> Len(c) = 4 /\ Four(c[1], c[2], c[3], c[4])
  BY DEF IsOne, IsTwo, IsThree, IsFour
<1>2. C!IsCharacter(c) <=> IsOne(c) \/ IsTwo(c) \/ IsThree(c) \/ IsFour(c)
  BY CharacterIs
<1> QED
  BY <1>1, <1>2

(***************************************************************************)
(* The checks and the code point, for a character of each length.          *)
(***************************************************************************)
LEMMA JudgesTwo ==
  ASSUME NEW c, IsText(c), Len(c) = 2, c[1] \in Leads2,
         c[2] \in 0 .. 255,
         NEW cp, cp = Code2(c[1] - 192, C!payload(c[2]))
  PROVE  /\ c[2] \in C!Trail /\ Accepted(cp, 2) <=> C!IsCharacter(c)
         /\ c[2] \in C!Trail => cp = C!Value(c)
<1>20. PICK a \in 192 .. 223, b \in 0 .. 255 :
         c[1] = a /\ c[2] = b
  BY DEF Leads2
<1>1. C!IsCharacter(c) <=> Two(a, b)
  BY <1>20, CharacterOfLength
<1>2. Two(a, b) => b \in C!Trail
  BY DEF Two, C!Trail
<1>3. C!Value(c) = Code2(a - 192, b - 128)
  BY <1>20 DEF C!Value, Code2
<1>4. b \in C!Trail => C!payload(b) = b - 128
  BY TrailBits
<1>5. b \in C!Trail => (Accepted(Code2(a - 192, b - 128), 2) <=> Two(a, b))
  BY AcceptedTwo
<1> QED
  BY <1>20, <1>1, <1>2, <1>3, <1>4, <1>5

LEMMA JudgesThree ==
  ASSUME NEW c, IsText(c), Len(c) = 3, c[1] \in Leads3,
         c[2] \in 0 .. 255, c[3] \in 0 .. 255,
         NEW cp, cp = Code3(c[1] - 224, C!payload(c[2]), C!payload(c[3]))
  PROVE  /\ c[2] \in C!Trail /\ c[3] \in C!Trail /\ Accepted(cp, 3) <=> C!IsCharacter(c)
         /\ c[2] \in C!Trail /\ c[3] \in C!Trail => cp = C!Value(c)
<1>20. PICK a \in 224 .. 239, b \in 0 .. 255, d \in 0 .. 255 :
         c[1] = a /\ c[2] = b /\ c[3] = d
  BY Zenon DEF Leads3
<1>1. C!IsCharacter(c) <=> Three(a, b, d)
  BY <1>20, CharacterOfLength
<1>2. Three(a, b, d) => b \in C!Trail /\ d \in C!Trail
  BY DEF Three, C!Trail
<1>3. C!Value(c) = Code3(a - 224, b - 128, d - 128)
  BY <1>20 DEF C!Value, Code3
<1>4. b \in C!Trail => C!payload(b) = b - 128
  BY TrailBits
<1>5. d \in C!Trail => C!payload(d) = d - 128
  BY TrailBits
<1>6. b \in C!Trail /\ d \in C!Trail
        => (Accepted(Code3(a - 224, b - 128, d - 128), 3) <=> Three(a, b, d))
  BY AcceptedThree
<1> QED
  BY <1>20, <1>1, <1>2, <1>3, <1>4, <1>5, <1>6

LEMMA JudgesFour ==
  ASSUME NEW c, IsText(c), Len(c) = 4, c[1] \in Leads4,
         c[2] \in 0 .. 255, c[3] \in 0 .. 255, c[4] \in 0 .. 255,
         NEW cp, cp = Code4(c[1] - 240, C!payload(c[2]), C!payload(c[3]), C!payload(c[4]))
  PROVE  /\ c[2] \in C!Trail /\ c[3] \in C!Trail /\ c[4] \in C!Trail /\ Accepted(cp, 4) <=> C!IsCharacter(c)
         /\ c[2] \in C!Trail /\ c[3] \in C!Trail /\ c[4] \in C!Trail => cp = C!Value(c)
<1>20. PICK a \in 240 .. 247, b \in 0 .. 255, d \in 0 .. 255, e \in 0 .. 255 :
         c[1] = a /\ c[2] = b /\ c[3] = d /\ c[4] = e
  BY Zenon DEF Leads4
<1> DEFINE Trails == b \in C!Trail /\ d \in C!Trail /\ e \in C!Trail
<1>1. C!IsCharacter(c) <=> Four(a, b, d, e)
  BY <1>20, CharacterOfLength
<1>2. Four(a, b, d, e) => Trails
  BY DEF Four, C!Trail
<1>3. C!Value(c) = Code4(a - 240, b - 128, d - 128, e - 128)
  BY <1>20 DEF C!Value, Code4
<1>4. b \in C!Trail => C!payload(b) = b - 128
  BY TrailBits
<1>5. d \in C!Trail => C!payload(d) = d - 128
  BY TrailBits
<1>6. e \in C!Trail => C!payload(e) = e - 128
  BY TrailBits
<1>7. Trails => (Accepted(Code4(a - 240, b - 128, d - 128, e - 128), 4) <=> Four(a, b, d, e))
  BY AcceptedFour
<1> QED
  BY <1>20, <1>1, <1>2, <1>3, <1>4, <1>5, <1>6, <1>7

LEMMA Validates ==
  ASSUME NEW s, IsOctets(s), NEW k \in 1 .. Len(s), NEW n \in 0 .. 4,
         n = C!sequence_length(s[k])
  PROVE  /\ C!validate_next(s, k) = "UTF8_OK"
              <=> n # 0 /\ k + n - 1 <= Len(s) /\ C!IsCharacter(SubSeq(s, k, k + n - 1))
         /\ C!validate_next(s, k) = "UTF8_OK"
              => C!get_sequence(s, k, n) = C!Value(SubSeq(s, k, k + n - 1))
<1> DEFINE c == SubSeq(s, k, k + n - 1)
           cp == C!get_sequence(s, k, n)
<1>1. PICK a \in 0 .. 255 : a = s[k]
  BY OctetsAre
<1>2. /\ n = 1 => a \in 0 .. 127
      /\ n = 2 => a \in 192 .. 223
      /\ n = 3 => a \in 224 .. 239
      /\ n = 4 => a \in 240 .. 247
  <2>1. n = C!sequence_length(a)
    BY <1>1, Zenon
  <2>2. LeadCase(a)
    BY LeadCases
  <2> QED
    BY <2>1, <2>2 DEF LeadCase
<1>3. IsText(s) /\ Len(s) \in Nat /\ \A j \in 1 .. Len(s) : s[j] \in 0 .. 255
  BY OctetsAre, OctetsAreText
<1>4. C!validate_next(s, k) = "UTF8_OK"
        <=> n # 0 /\ C!TrailError(s, k, n) = "UTF8_OK" /\ Accepted(cp, n)
  BY DEF C!validate_next, Accepted
<1>5. C!TrailError(s, k, n) = "UTF8_OK"
        <=> k + n - 1 <= Len(s) /\ \A j \in k + 1 .. k + n - 1 : s[j] \in C!Trail
  <2>1. CASE k + n - 1 > Len(s)
    <3>1. C!TrailError(s, k, n) # "UTF8_OK"
      BY <2>1 DEF C!TrailError
    <3> QED
      BY <1>3, <2>1, <3>1
  <2>2. CASE k + n - 1 <= Len(s)
    <3>1. ASSUME NEW j \in k + 1 .. k + n - 1
          PROVE  j <= Len(s) /\ (C!is_trail(s[j]) <=> s[j] \in C!Trail)
      <4>1. j \in 1 .. Len(s)
        BY <1>3, <2>2
      <4>2. s[j] \in 0 .. 255
        BY <1>3, <4>1
      <4>3. C!is_trail(s[j]) <=> s[j] \in C!Trail
        BY <4>2, TrailIs
      <4> QED
        BY <4>1, <4>3
    <3>2. C!TrailError(s, k, n) = "UTF8_OK"
            <=> ~ \E j \in k + 1 .. k + n - 1 : j <= Len(s) /\ ~ C!is_trail(s[j])
      BY <1>3, <2>2 DEF C!TrailError
    <3> QED
      BY <1>3, <2>2, <3>1, <3>2
  <2> QED
    BY <1>3, <2>1, <2>2
<1>6. n # 0 /\ k + n - 1 <= Len(s) =>
        /\ IsText(c) /\ Len(c) = n
        /\ \A j \in 1 .. n : c[j] = s[k + j - 1]
  <2> SUFFICES ASSUME n # 0, k + n - 1 <= Len(s)
               PROVE  /\ IsText(c) /\ Len(c) = n
                      /\ \A j \in 1 .. n : c[j] = s[k + j - 1]
    OBVIOUS
  <2>1. k \in Nat \ {0} /\ n \in Nat \ {0}
    BY <1>3
  <2> QED
    BY <1>3, <2>1, Piece
<1> SUFFICES /\ C!validate_next(s, k) = "UTF8_OK"
                  <=> n # 0 /\ k + n - 1 <= Len(s) /\ C!IsCharacter(c)
             /\ C!validate_next(s, k) = "UTF8_OK" => cp = C!Value(c)
  OBVIOUS
<1> HIDE DEF c, cp
<1>7. CASE n = 0 \/ k + n - 1 > Len(s)
  BY <1>2, <1>3, <1>4, <1>5, <1>7 DEF c
<1> DEFINE Trails == \A j \in k + 1 .. k + n - 1 : s[j] \in C!Trail
<1>8. CASE n = 1 /\ k + n - 1 <= Len(s)
  <2>1. IsText(c) /\ Len(c) = 1 /\ c[1] = a
    BY <1>1, <1>6, <1>8
  <2>2. a \in 0 .. 127
    BY <1>2, <1>8
  <2>3. C!IsCharacter(c)
    BY <2>1, <2>2, CharacterOfLength DEF IsOne
  <2>4. cp = a
    BY <1>1, <1>8 DEF cp, C!get_sequence, Code2, Code3, Code4
  <2>5. C!Value(c) = a
    BY <2>1 DEF C!Value
  <2>6. Accepted(a, 1)
    BY <2>2, AcceptedOne
  <2>7. Trails
    BY <1>8
  <2> HIDE DEF Trails
  <2> QED
    BY <1>4, <1>5, <1>8, <2>3, <2>4, <2>5, <2>6, <2>7 DEF Trails
<1>9. CASE n = 2 /\ k + n - 1 <= Len(s)
  <2>1. IsText(c) /\ Len(c) = 2 /\ c[1] = a /\ c[2] = s[k + 1]
    BY <1>1, <1>6, <1>9
  <2>2. c[2] \in 0 .. 255
    <3>1. k + 1 \in 1 .. Len(s)
      BY <1>3, <1>9
    <3> QED
      BY <1>3, <2>1, <3>1
  <2>3. c[1] \in Leads2
    BY <1>2, <1>9, <2>1 DEF Leads2
  <2>4. cp = Code2(c[1] - 192, C!payload(c[2]))
    <3>1. Lead2(c[1]) = (c[1] - 192) * 64
      BY <2>3, LeadBits2
    <3> QED
      BY <1>1, <1>9, <2>1, <3>1 DEF cp, C!get_sequence, Code2, Lead2
  <2>5. Trails <=> c[2] \in C!Trail
    <3>1. \A j \in Int : j \in k + 1 .. k + n - 1 <=> j = k + 1
      BY <1>9
    <3> QED
      BY <1>9, <2>1, <3>1
  <2>6. /\ c[2] \in C!Trail /\ Accepted(cp, 2) <=> C!IsCharacter(c)
        /\ c[2] \in C!Trail => cp = C!Value(c)
    BY <2>1, <2>2, <2>3, <2>4, JudgesTwo, Zenon
  <2> HIDE DEF Trails
  <2> QED
    BY <1>4, <1>5, <1>9, <2>5, <2>6 DEF Trails
<1>10. CASE n = 3 /\ k + n - 1 <= Len(s)
  <2>1. IsText(c) /\ Len(c) = 3 /\ c[1] = a /\ c[2] = s[k + 1] /\ c[3] = s[k + 2]
    BY <1>1, <1>6, <1>10
  <2>2. c[2] \in 0 .. 255 /\ c[3] \in 0 .. 255
    <3>1. k + 1 \in 1 .. Len(s) /\ k + 2 \in 1 .. Len(s)
      BY <1>3, <1>10
    <3> QED
      BY <1>3, <2>1, <3>1
  <2>3. c[1] \in Leads3
    BY <1>2, <1>10, <2>1 DEF Leads3
  <2>4. cp = Code3(c[1] - 224, C!payload(c[2]), C!payload(c[3]))
    <3>1. Lead3(c[1]) = (c[1] - 224) * 4096
      BY <2>3, LeadBits3
    <3> QED
      BY <1>1, <1>10, <2>1, <3>1 DEF cp, C!get_sequence, Code3, Lead3
  <2>5. Trails <=> c[2] \in C!Trail /\ c[3] \in C!Trail
    <3>1. \A j \in Int : j \in k + 1 .. k + n - 1 <=> j = k + 1 \/ j = k + 2
      BY <1>10
    <3> QED
      BY <1>10, <2>1, <3>1
  <2>6. /\ c[2] \in C!Trail /\ c[3] \in C!Trail /\ Accepted(cp, 3) <=> C!IsCharacter(c)
        /\ c[2] \in C!Trail /\ c[3] \in C!Trail => cp = C!Value(c)
    BY <2>1, <2>2, <2>3, <2>4, JudgesThree, Zenon
  <2> HIDE DEF Trails
  <2> QED
    BY <1>4, <1>5, <1>10, <2>5, <2>6 DEF Trails
<1>11. CASE n = 4 /\ k + n - 1 <= Len(s)
  <2>1. IsText(c) /\ Len(c) = 4 /\ c[1] = a /\ c[2] = s[k + 1] /\ c[3] = s[k + 2] /\ c[4] = s[k + 3]
    BY <1>1, <1>6, <1>11
  <2>2. c[2] \in 0 .. 255 /\ c[3] \in 0 .. 255 /\ c[4] \in 0 .. 255
    <3>1. k + 1 \in 1 .. Len(s) /\ k + 2 \in 1 .. Len(s) /\ k + 3 \in 1 .. Len(s)
      BY <1>3, <1>11
    <3> QED
      BY <1>3, <2>1, <3>1
  <2>3. c[1] \in Leads4
    BY <1>2, <1>11, <2>1 DEF Leads4
  <2>4. cp = Code4(c[1] - 240, C!payload(c[2]), C!payload(c[3]), C!payload(c[4]))
    <3>1. Lead4(c[1]) = (c[1] - 240) * 262144
      BY <2>3, LeadBits4
    <3> QED
      BY <1>1, <1>11, <2>1, <3>1 DEF cp, C!get_sequence, Code4, Lead4
  <2>5. Trails <=> c[2] \in C!Trail /\ c[3] \in C!Trail /\ c[4] \in C!Trail
    <3>1. \A j \in Int : j \in k + 1 .. k + n - 1 <=> j = k + 1 \/ j = k + 2 \/ j = k + 3
      BY <1>11
    <3> QED
      BY <1>11, <2>1, <3>1
  <2>6. /\ c[2] \in C!Trail /\ c[3] \in C!Trail /\ c[4] \in C!Trail /\ Accepted(cp, 4) <=> C!IsCharacter(c)
        /\ c[2] \in C!Trail /\ c[3] \in C!Trail /\ c[4] \in C!Trail => cp = C!Value(c)
    BY <2>1, <2>2, <2>3, <2>4, JudgesFour, Zenon
  <2> HIDE DEF Trails
  <2> QED
    BY <1>4, <1>5, <1>11, <2>5, <2>6 DEF Trails
<1>12. n = 0 \/ n = 1 \/ n = 2 \/ n = 3 \/ n = 4
  OBVIOUS
<1>13. k + n - 1 > Len(s) \/ k + n - 1 <= Len(s)
  BY <1>3
<1> QED
  BY <1>7, <1>8, <1>9, <1>10, <1>11, <1>12, <1>13

(***************************************************************************)
(* What append writes is one well-formed character, that of its code       *)
(* point.                                                                  *)
(***************************************************************************)
LEMMA AppendOctets ==
  ASSUME NEW cp \in Int, C!is_code_point_valid(cp)
  PROVE  IsOctets(C!append(cp)) /\ Len(C!append(cp)) \in 1 .. 4
<1>1. cp \in Nat /\ cp <= 1114111
  BY DEF C!is_code_point_valid, C!CODE_POINT_MAX
<1>2. \A x \in Nat : C!trail_octet(x) \in 0 .. 255
  <2>1. ASSUME NEW x \in Nat PROVE C!trail_octet(x) \in 0 .. 255
    <3>1. C!trail_octet(x) \in 128 .. 191
      BY TrailOctet
    <3> QED
      BY <3>1
  <2> QED
    BY <2>1
<1>3. cp \div 64 \in Nat /\ cp \div 4096 \in Nat
  BY <1>1
<1>4. /\ C!trail_octet(cp) \in 0 .. 255
      /\ C!trail_octet(cp \div 64) \in 0 .. 255
      /\ C!trail_octet(cp \div 4096) \in 0 .. 255
  BY <1>1, <1>2, <1>3
<1>5. CASE cp < 128
  <2>1. C!append(cp) = <<cp>> /\ cp \in 0 .. 255
    BY <1>1, <1>5 DEF C!append
  <2> QED
    BY <2>1 DEF IsOctets
<1>6. CASE 128 <= cp /\ cp < 2048
  <2>1. 192 + (cp \div 64) \in 0 .. 255
    BY <1>1, <1>6
  <2>2. C!append(cp) = <<192 + (cp \div 64), C!trail_octet(cp)>>
    BY <1>1, <1>6 DEF C!append
  <2> QED
    BY <1>4, <2>1, <2>2 DEF IsOctets
<1>7. CASE 2048 <= cp /\ cp < 65536
  <2>1. 224 + (cp \div 4096) \in 0 .. 255
    BY <1>1, <1>7
  <2>2. C!append(cp) = <<224 + (cp \div 4096), C!trail_octet(cp \div 64), C!trail_octet(cp)>>
    BY <1>1, <1>7 DEF C!append
  <2> QED
    BY <1>4, <2>1, <2>2 DEF IsOctets
<1>8. CASE 65536 <= cp
  <2>1. 240 + (cp \div 262144) \in 0 .. 255
    BY <1>1, <1>8
  <2>2. C!append(cp) = <<240 + (cp \div 262144), C!trail_octet(cp \div 4096),
                         C!trail_octet(cp \div 64), C!trail_octet(cp)>>
    BY <1>1, <1>8 DEF C!append
  <2> QED
    BY <1>4, <2>1, <2>2 DEF IsOctets
<1> QED
  BY <1>1, <1>5, <1>6, <1>7, <1>8

LEMMA AppendIs ==
  ASSUME NEW cp \in Int, C!is_code_point_valid(cp)
  PROVE  /\ IsText(C!append(cp)) /\ Len(C!append(cp)) \in 1 .. 4
         /\ C!IsCharacter(C!append(cp)) /\ C!Value(C!append(cp)) = cp
<1> DEFINE s == C!append(cp)
           n == Len(s)
<1>1. IsOctets(s) /\ IsText(s) /\ n \in 1 .. 4
  BY AppendOctets, OctetsAreText
<1>2. C!validate_next(s, 1) = "UTF8_OK" /\ C!sequence_length(s[1]) = n
      /\ C!get_sequence(s, 1, n) = cp
  BY DecodesWhatItEncodes
<1> HIDE DEF s
<1>3. SubSeq(s, 1, 1 + n - 1) = s
  <2>1. 1 + n - 1 = n
    BY <1>1
  <2>2. s \in Seq(Int)
    BY <1>1 DEF IsText
  <2>3. SubSeq(s, 1, n) = s
    BY <1>1, <2>2, SubSeqProperties
  <2> QED
    BY <2>1, <2>3
<1>4. 1 \in 1 .. n /\ n \in 0 .. 4
  BY <1>1
<1>5. /\ C!validate_next(s, 1) = "UTF8_OK" => C!IsCharacter(SubSeq(s, 1, 1 + n - 1))
      /\ C!validate_next(s, 1) = "UTF8_OK"
           => C!get_sequence(s, 1, n) = C!Value(SubSeq(s, 1, 1 + n - 1))
  BY <1>1, <1>2, <1>4, Validates
<1>6. C!IsCharacter(s) /\ C!Value(s) = cp
  BY <1>2, <1>3, <1>5
<1> QED
  BY <1>1, <1>6 DEF s

(***************************************************************************)
(* Octets that end inside a character: its beginning passes, and           *)
(* validate_next finds nothing wrong with it but that it ends.  So the     *)
(* library can tell cut text from malformed text; what Utf8ToWchar catches *)
(* (Utilities.cpp:276) no longer can.                                      *)
(***************************************************************************)
THEOREM LibraryTellsCut ==
  ASSUME NEW s, IsOctets(s), NEW k \in 1 .. Len(s), IsCutCharacter(SubSeq(s, k, Len(s)))
  PROVE  C!validate_next(s, k) = "NOT_ENOUGH_ROOM"
<1> DEFINE n == Len(s) - k + 1
           c == SubSeq(s, k, Len(s))
           length == C!sequence_length(s[k])
<1>1. IsText(s) /\ Len(s) \in Nat /\ \A j \in 1 .. Len(s) : s[j] \in 0 .. 255
  BY OctetsAre, OctetsAreText
<1>2. k \in Nat \ {0} /\ n \in Nat \ {0} /\ k + n - 1 = Len(s)
  BY <1>1
<1> HIDE DEF n
<1>3. IsText(c) /\ Len(c) = n /\ \A j \in 1 .. n : c[j] = s[k + j - 1]
  <2>1. k + n - 1 <= Len(s)
    BY <1>1, <1>2
  <2>2. /\ IsText(SubSeq(s, k, k + n - 1)) /\ Len(SubSeq(s, k, k + n - 1)) = n
        /\ \A j \in 1 .. n : SubSeq(s, k, k + n - 1)[j] = s[k + j - 1]
    BY <1>1, <1>2, <2>1, Piece
  <2> QED
    BY <1>2, <2>2
<1> HIDE DEF c
<1>4. c[1] = s[k]
  BY <1>2, <1>3
<1>5. n < length /\ \A j \in 2 .. n : c[j] \in C!Trail
  <2>1. Len(c) > 0
    BY <1>2, <1>3
  <2>2. IsCutCharacter(c)
    BY DEF c
  <2>3. /\ Len(c) < C!sequence_length(c[1])
        /\ \A j \in 2 .. Len(c) : c[j] \in C!Trail
    BY <1>3, <2>1, <2>2, CutIs
  <2> QED
    BY <1>3, <1>4, <2>3
<1>6. length \in 0 .. 4
  BY <1>1, LeadIs, Zenon
<1> HIDE DEF length
<1>7. ASSUME NEW j \in k + 1 .. k + length - 1, j <= Len(s)
      PROVE  C!is_trail(s[j])
  <2>1. PICK m \in 2 .. n : m = j - k + 1 /\ j = k + m - 1
    BY <1>1, <1>2, <1>6, <1>7
  <2>2. c[m] = s[j]
    BY <1>3, <2>1
  <2>3. s[j] \in C!Trail
    BY <1>5, <2>1, <2>2
  <2>4. s[j] \in 0 .. 255
    BY <1>1, <1>2, <1>6, <1>7
  <2> QED
    BY <2>3, <2>4, TrailIs
<1>8. k + length - 1 > Len(s) /\ length # 0
  BY <1>1, <1>2, <1>5, <1>6
<1>9. C!TrailError(s, k, length) = "NOT_ENOUGH_ROOM"
  BY <1>7, <1>8 DEF C!TrailError
<1> QED
  BY <1>8, <1>9 DEF C!validate_next, length

(***************************************************************************)
(* The character at a position: there is at most one.                      *)
(***************************************************************************)
Fits(s, k, n) == k + n - 1 <= Len(s) /\ C!IsCharacter(SubSeq(s, k, k + n - 1))

LEMMA FitsLength ==
  ASSUME NEW s, IsText(s), NEW k \in Nat \ {0}, NEW n \in Nat \ {0}, Fits(s, k, n)
  PROVE  n = C!sequence_length(s[k])
<1> DEFINE c == SubSeq(s, k, k + n - 1)
<1>1. IsText(c) /\ Len(c) = n /\ \A j \in 1 .. n : c[j] = s[k + j - 1]
  BY Piece DEF Fits
<1>2. C!IsCharacter(c)
  BY DEF Fits
<1> HIDE DEF c
<1>3. c[1] = s[k]
  BY <1>1
<1> QED
  BY <1>1, <1>2, <1>3, CharacterLength

LEMMA CharacterAtIs ==
  ASSUME NEW s, IsText(s), NEW k \in Nat \ {0}
  PROVE  /\ C!CharacterAt(s, k) \in 0 .. 4
         /\ C!CharacterAt(s, k) # 0 => Fits(s, k, C!CharacterAt(s, k))
         /\ \A n \in 1 .. 4 : Fits(s, k, n) => C!CharacterAt(s, k) = n
<1> DEFINE fits == {n \in 1 .. 4 : Fits(s, k, n)}
           m == CHOOSE n \in fits : TRUE
<1>1. C!CharacterAt(s, k) = IF fits = {} THEN 0 ELSE m
  BY DEF C!CharacterAt, Fits
<1>2. fits # {} => m \in fits
  OBVIOUS
<1>3. \A n \in fits : n \in 1 .. 4 /\ Fits(s, k, n) /\ n = C!sequence_length(s[k])
  BY FitsLength
<1>4. \A n \in 1 .. 4 : Fits(s, k, n) => n \in fits
  OBVIOUS
<1> HIDE DEF fits, m
<1>5. CASE fits = {}
  BY <1>1, <1>4, <1>5
<1>6. CASE fits # {}
  <2>1. C!CharacterAt(s, k) = m /\ m \in fits
    BY <1>1, <1>2, <1>6
  <2> QED
    BY <1>3, <1>4, <2>1
<1> QED
  BY <1>5, <1>6

(***************************************************************************)
(* The recursive definitions of WellFormedTo and Values, one position each. *)
(* A function with these values exists, from the last position backwards.  *)
(***************************************************************************)
EndAt(s, f, k) ==
  f[k] = IF k > Len(s) \/ C!CharacterAt(s, k) = 0 THEN k - 1
         ELSE f[k + C!CharacterAt(s, k)]

LEMMA EndAtExtends ==
  ASSUME NEW s, IsText(s), NEW b \in 1 .. Len(s), NEW f,
         \A k \in b + 1 .. Len(s) + 1 : EndAt(s, f, k)
  PROVE  \E g : DOMAIN g = 1 .. Len(s) + 1 /\ \A k \in b .. Len(s) + 1 : EndAt(s, g, k)
<1> DEFINE value == IF b > Len(s) \/ C!CharacterAt(s, b) = 0 THEN b - 1
                    ELSE f[b + C!CharacterAt(s, b)]
           g == [k \in 1 .. Len(s) + 1 |-> IF k = b THEN value ELSE f[k]]
<1>1. Len(s) \in Nat
  BY TextIs
<1>2. g[b] = value /\ (\A k \in b + 1 .. Len(s) + 1 : g[k] = f[k]) /\ DOMAIN g = 1 .. Len(s) + 1
  <2> HIDE DEF value
  <2> QED
    BY <1>1
<1> HIDE DEF g
<1>3. ASSUME NEW k \in b .. Len(s), C!CharacterAt(s, k) # 0
      PROVE  g[k + C!CharacterAt(s, k)] = f[k + C!CharacterAt(s, k)]
  <2>1. k \in Nat \ {0}
    BY <1>1
  <2>2. C!CharacterAt(s, k) \in 0 .. 4 /\ k + C!CharacterAt(s, k) - 1 <= Len(s)
    BY <1>3, <2>1, CharacterAtIs DEF Fits
  <2>3. k + C!CharacterAt(s, k) \in b + 1 .. Len(s) + 1
    BY <1>1, <1>3, <2>2
  <2> QED
    BY <1>2, <2>3
<1>4. ASSUME NEW k \in b .. Len(s) + 1 PROVE EndAt(s, g, k)
  <2>1. CASE k = b
    <3>1. g[b] = IF b > Len(s) \/ C!CharacterAt(s, b) = 0 THEN b - 1
                 ELSE f[b + C!CharacterAt(s, b)]
      BY <1>2
    <3>2. b > Len(s) \/ C!CharacterAt(s, b) = 0
            \/ g[b + C!CharacterAt(s, b)] = f[b + C!CharacterAt(s, b)]
      BY <1>1, <1>3
    <3> QED
      BY <2>1, <3>1, <3>2 DEF EndAt
  <2>2. CASE k # b
    <3>1. k \in b + 1 .. Len(s) + 1
      BY <1>1, <2>2
    <3>2. EndAt(s, f, k) /\ g[k] = f[k]
      BY <1>2, <3>1
    <3>3. k > Len(s) \/ C!CharacterAt(s, k) = 0
            \/ g[k + C!CharacterAt(s, k)] = f[k + C!CharacterAt(s, k)]
      BY <1>1, <1>3
    <3> QED
      BY <3>2, <3>3 DEF EndAt
  <2> QED
    BY <2>1, <2>2
<1> QED
  BY <1>2, <1>4

LEMMA EndAtExists ==
  ASSUME NEW s, IsText(s)
  PROVE  \E f : DOMAIN f = 1 .. Len(s) + 1 /\ \A k \in 1 .. Len(s) + 1 : EndAt(s, f, k)
<1> DEFINE From(m) == \E f : /\ DOMAIN f = 1 .. Len(s) + 1
                            /\ \A k \in Len(s) + 1 - m .. Len(s) + 1 : EndAt(s, f, k)
           S == {m \in Nat : m <= Len(s) => From(m)}
<1>1. Len(s) \in Nat
  BY TextIs
<1>2. From(0)
  <2> DEFINE f == [k \in 1 .. Len(s) + 1 |-> k - 1]
  <2>1. f[Len(s) + 1] = Len(s) /\ DOMAIN f = 1 .. Len(s) + 1
    BY <1>1
  <2> HIDE DEF f
  <2>2. EndAt(s, f, Len(s) + 1)
    BY <1>1, <2>1 DEF EndAt
  <2>3. \A k \in Len(s) + 1 - 0 .. Len(s) + 1 : k = Len(s) + 1
    BY <1>1
  <2> QED
    BY <2>1, <2>2, <2>3
<1>3. ASSUME NEW m \in Nat, m + 1 <= Len(s), From(m) PROVE From(m + 1)
  <2>1. PICK f : \A k \in Len(s) + 1 - m .. Len(s) + 1 : EndAt(s, f, k)
    BY <1>3
  <2>2. PICK b \in 1 .. Len(s) : b = Len(s) + 1 - (m + 1) /\ b + 1 = Len(s) + 1 - m
    BY <1>1, <1>3
  <2>3. \A k \in b + 1 .. Len(s) + 1 : EndAt(s, f, k)
    BY <2>1, <2>2
  <2>4. \E g : DOMAIN g = 1 .. Len(s) + 1 /\ \A k \in b .. Len(s) + 1 : EndAt(s, g, k)
    BY <2>3, EndAtExtends
  <2> QED
    BY <2>2, <2>4
<1> HIDE DEF From
<1>4. 0 \in S
  BY <1>2
<1>5. ASSUME NEW m \in Nat, m \in S PROVE m + 1 \in S
  BY <1>1, <1>3, <1>5
<1> HIDE DEF S
<1>6. Nat \subseteq S
  BY <1>4, <1>5, Induction
<1>7. From(Len(s))
  <2>1. Len(s) \in S
    BY <1>1, <1>6
  <2> QED
    BY <1>1, <2>1 DEF S
<1>8. Len(s) + 1 - Len(s) = 1
  BY <1>1
<1> QED
  BY <1>7, <1>8 DEF From

LEMMA WellFormedToIs ==
  ASSUME NEW s, IsText(s)
  PROVE  \E f : /\ \A k \in 1 .. Len(s) + 1 : EndAt(s, f, k)
               /\ C!WellFormedTo(s) = f[1]
<1> DEFINE value(f, k) == IF k > Len(s) \/ C!CharacterAt(s, k) = 0 THEN k - 1
                          ELSE f[k + C!CharacterAt(s, k)]
           Defines(f) == f = [k \in 1 .. Len(s) + 1 |-> value(f, k)]
<1>1. PICK g : DOMAIN g = 1 .. Len(s) + 1 /\ \A k \in 1 .. Len(s) + 1 : EndAt(s, g, k)
  BY EndAtExists
<1>2. \E h : Defines(h)
  <2> DEFINE h == [k \in 1 .. Len(s) + 1 |-> g[k]]
  <2>1. \A k \in 1 .. Len(s) + 1 : g[k] = value(g, k)
    BY <1>1 DEF EndAt
  <2>2. \A k \in 1 .. Len(s) + 1 : h[k] = g[k]
    OBVIOUS
  <2> HIDE DEF h
  <2>3. \A k \in 1 .. Len(s) + 1 : value(h, k) = value(g, k)
    <3> SUFFICES ASSUME NEW k \in 1 .. Len(s), C!CharacterAt(s, k) # 0
                 PROVE  h[k + C!CharacterAt(s, k)] = g[k + C!CharacterAt(s, k)]
      BY TextIs
    <3>1. k \in Nat \ {0} /\ Len(s) \in Nat
      BY TextIs
    <3>2. C!CharacterAt(s, k) \in 0 .. 4 /\ k + C!CharacterAt(s, k) - 1 <= Len(s)
      BY <3>1, CharacterAtIs DEF Fits
    <3>3. k + C!CharacterAt(s, k) \in 1 .. Len(s) + 1
      BY <3>1, <3>2
    <3> QED
      BY <2>2, <3>3
  <2> HIDE DEF value
  <2>4. h = [k \in 1 .. Len(s) + 1 |-> value(h, k)]
    BY <2>1, <2>2, <2>3 DEF h
  <2> QED
    BY <2>4
<1> DEFINE f == CHOOSE f : Defines(f)
<1>3. Defines(f)
  BY <1>2, Zenon
<1>4. C!WellFormedTo(s) = f[1]
  BY DEF C!WellFormedTo
<1> HIDE DEF f
<1>5. \A k \in 1 .. Len(s) + 1 : f[k] = value(f, k)
  <2> HIDE DEF value
  <2> QED
    BY <1>3
<1>6. \A k \in 1 .. Len(s) + 1 : EndAt(s, f, k)
  BY <1>5 DEF EndAt
<1> QED
  BY <1>4, <1>6

(***************************************************************************)
(* The code points from a position on.                                     *)
(***************************************************************************)
TextAt(s, f, k) ==
  f[k] = IF k > Len(s) \/ C!CharacterAt(s, k) = 0 THEN <<>>
         ELSE <<C!Value(SubSeq(s, k, k + C!CharacterAt(s, k) - 1))>> \o f[k + C!CharacterAt(s, k)]

LEMMA TextAtExtends ==
  ASSUME NEW s, IsText(s), NEW b \in 1 .. Len(s), NEW f,
         \A k \in b + 1 .. Len(s) + 1 : TextAt(s, f, k)
  PROVE  \E g : DOMAIN g = 1 .. Len(s) + 1 /\ \A k \in b .. Len(s) + 1 : TextAt(s, g, k)
<1> DEFINE value == IF b > Len(s) \/ C!CharacterAt(s, b) = 0 THEN <<>>
                    ELSE <<C!Value(SubSeq(s, b, b + C!CharacterAt(s, b) - 1))>> \o f[b + C!CharacterAt(s, b)]
           g == [k \in 1 .. Len(s) + 1 |-> IF k = b THEN value ELSE f[k]]
<1>1. Len(s) \in Nat
  BY TextIs
<1>2. g[b] = value /\ (\A k \in b + 1 .. Len(s) + 1 : g[k] = f[k]) /\ DOMAIN g = 1 .. Len(s) + 1
  <2> HIDE DEF value
  <2> QED
    BY <1>1
<1> HIDE DEF g
<1>3. ASSUME NEW k \in b .. Len(s), C!CharacterAt(s, k) # 0
      PROVE  g[k + C!CharacterAt(s, k)] = f[k + C!CharacterAt(s, k)]
  <2>1. k \in Nat \ {0}
    BY <1>1
  <2>2. C!CharacterAt(s, k) \in 0 .. 4 /\ k + C!CharacterAt(s, k) - 1 <= Len(s)
    BY <1>3, <2>1, CharacterAtIs DEF Fits
  <2>3. k + C!CharacterAt(s, k) \in b + 1 .. Len(s) + 1
    BY <1>1, <1>3, <2>2
  <2> QED
    BY <1>2, <2>3
<1>4. ASSUME NEW k \in b .. Len(s) + 1 PROVE TextAt(s, g, k)
  <2>1. CASE k = b
    <3>1. g[b] = IF b > Len(s) \/ C!CharacterAt(s, b) = 0 THEN <<>>
                 ELSE <<C!Value(SubSeq(s, b, b + C!CharacterAt(s, b) - 1))>> \o f[b + C!CharacterAt(s, b)]
      BY <1>2
    <3>2. b > Len(s) \/ C!CharacterAt(s, b) = 0
            \/ g[b + C!CharacterAt(s, b)] = f[b + C!CharacterAt(s, b)]
      BY <1>1, <1>3
    <3> QED
      BY <2>1, <3>1, <3>2 DEF TextAt
  <2>2. CASE k # b
    <3>1. k \in b + 1 .. Len(s) + 1
      BY <1>1, <2>2
    <3>2. TextAt(s, f, k) /\ g[k] = f[k]
      BY <1>2, <3>1
    <3>3. k > Len(s) \/ C!CharacterAt(s, k) = 0
            \/ g[k + C!CharacterAt(s, k)] = f[k + C!CharacterAt(s, k)]
      BY <1>1, <1>3
    <3> QED
      BY <3>2, <3>3 DEF TextAt
  <2> QED
    BY <2>1, <2>2
<1> QED
  BY <1>2, <1>4

LEMMA TextAtExists ==
  ASSUME NEW s, IsText(s)
  PROVE  \E f : DOMAIN f = 1 .. Len(s) + 1 /\ \A k \in 1 .. Len(s) + 1 : TextAt(s, f, k)
<1> DEFINE From(m) == \E f : /\ DOMAIN f = 1 .. Len(s) + 1
                            /\ \A k \in Len(s) + 1 - m .. Len(s) + 1 : TextAt(s, f, k)
           S == {m \in Nat : m <= Len(s) => From(m)}
<1>1. Len(s) \in Nat
  BY TextIs
<1>2. From(0)
  <2> DEFINE f == [k \in 1 .. Len(s) + 1 |-> <<>>]
  <2>1. f[Len(s) + 1] = <<>> /\ DOMAIN f = 1 .. Len(s) + 1
    BY <1>1
  <2> HIDE DEF f
  <2>2. TextAt(s, f, Len(s) + 1)
    BY <1>1, <2>1 DEF TextAt
  <2>3. \A k \in Len(s) + 1 - 0 .. Len(s) + 1 : k = Len(s) + 1
    BY <1>1
  <2> QED
    BY <2>1, <2>2, <2>3
<1>3. ASSUME NEW m \in Nat, m + 1 <= Len(s), From(m) PROVE From(m + 1)
  <2>1. PICK f : \A k \in Len(s) + 1 - m .. Len(s) + 1 : TextAt(s, f, k)
    BY <1>3
  <2>2. PICK b \in 1 .. Len(s) : b = Len(s) + 1 - (m + 1) /\ b + 1 = Len(s) + 1 - m
    BY <1>1, <1>3
  <2>3. \A k \in b + 1 .. Len(s) + 1 : TextAt(s, f, k)
    BY <2>1, <2>2
  <2>4. \E g : DOMAIN g = 1 .. Len(s) + 1 /\ \A k \in b .. Len(s) + 1 : TextAt(s, g, k)
    BY <2>3, TextAtExtends
  <2> QED
    BY <2>2, <2>4
<1> HIDE DEF From
<1>4. 0 \in S
  BY <1>2
<1>5. ASSUME NEW m \in Nat, m \in S PROVE m + 1 \in S
  BY <1>1, <1>3, <1>5
<1> HIDE DEF S
<1>6. Nat \subseteq S
  BY <1>4, <1>5, Induction
<1>7. From(Len(s))
  <2>1. Len(s) \in S
    BY <1>1, <1>6
  <2> QED
    BY <1>1, <2>1 DEF S
<1>8. Len(s) + 1 - Len(s) = 1
  BY <1>1
<1> QED
  BY <1>7, <1>8 DEF From

LEMMA ValuesIs ==
  ASSUME NEW s, IsText(s)
  PROVE  \E f : /\ \A k \in 1 .. Len(s) + 1 : TextAt(s, f, k)
               /\ C!Values(s) = f[1]
<1> DEFINE value(f, k) == IF k > Len(s) \/ C!CharacterAt(s, k) = 0 THEN <<>>
                          ELSE <<C!Value(SubSeq(s, k, k + C!CharacterAt(s, k) - 1))>> \o f[k + C!CharacterAt(s, k)]
           Defines(f) == f = [k \in 1 .. Len(s) + 1 |-> value(f, k)]
<1>1. PICK g : DOMAIN g = 1 .. Len(s) + 1 /\ \A k \in 1 .. Len(s) + 1 : TextAt(s, g, k)
  BY TextAtExists
<1>2. \E h : Defines(h)
  <2> DEFINE h == [k \in 1 .. Len(s) + 1 |-> g[k]]
  <2>1. \A k \in 1 .. Len(s) + 1 : g[k] = value(g, k)
    BY <1>1 DEF TextAt
  <2>2. \A k \in 1 .. Len(s) + 1 : h[k] = g[k]
    OBVIOUS
  <2> HIDE DEF h
  <2>3. \A k \in 1 .. Len(s) + 1 : value(h, k) = value(g, k)
    <3> SUFFICES ASSUME NEW k \in 1 .. Len(s), C!CharacterAt(s, k) # 0
                 PROVE  h[k + C!CharacterAt(s, k)] = g[k + C!CharacterAt(s, k)]
      BY TextIs
    <3>1. k \in Nat \ {0} /\ Len(s) \in Nat
      BY TextIs
    <3>2. C!CharacterAt(s, k) \in 0 .. 4 /\ k + C!CharacterAt(s, k) - 1 <= Len(s)
      BY <3>1, CharacterAtIs DEF Fits
    <3>3. k + C!CharacterAt(s, k) \in 1 .. Len(s) + 1
      BY <3>1, <3>2
    <3> QED
      BY <2>2, <3>3
  <2> HIDE DEF value
  <2>4. h = [k \in 1 .. Len(s) + 1 |-> value(h, k)]
    BY <2>1, <2>2, <2>3 DEF h
  <2> QED
    BY <2>4
<1> DEFINE f == CHOOSE f : Defines(f)
<1>3. Defines(f)
  BY <1>2, Zenon
<1>4. C!Values(s) = f[1]
  BY DEF C!Values
<1> HIDE DEF f
<1>5. \A k \in 1 .. Len(s) + 1 : f[k] = value(f, k)
  <2> HIDE DEF value
  <2> QED
    BY <1>3
<1>6. \A k \in 1 .. Len(s) + 1 : TextAt(s, f, k)
  BY <1>5 DEF TextAt
<1> QED
  BY <1>4, <1>6

(***************************************************************************)
(* What holds of the position after the last one, and of each position of  *)
(* which it holds further on, holds of all.                                *)
(***************************************************************************)
LEMMA Backwards ==
  ASSUME NEW n \in Nat, NEW S, n + 1 \in S,
         \A k \in 1 .. n : (\A j \in k + 1 .. n + 1 : j \in S) => k \in S
  PROVE  \A k \in 1 .. n + 1 : k \in S
<1> DEFINE U == {m \in 0 .. n : n + 1 - m \notin S}
<1>1. \A m \in 0 .. n : m \in U <=> n + 1 - m \notin S
  OBVIOUS
<1>2. U \subseteq 0 .. n /\ U \subseteq Nat
  OBVIOUS
<1> HIDE DEF U
<1>3. U = {}
  <2> SUFFICES ASSUME U # {} PROVE FALSE
    OBVIOUS
  <2>1. PICK m \in U : \A l \in U : m <= l
    BY <1>2, Least
  <2>2. m \in 0 .. n /\ n + 1 - m \notin S
    BY <1>1, <1>2
  <2>3. m # 0
    BY <2>2
  <2>4. PICK k \in 1 .. n : k = n + 1 - m
    BY <2>2, <2>3
  <2>5. ASSUME NEW j \in k + 1 .. n + 1 PROVE j \in S
    <3>1. n + 1 - j \in 0 .. n /\ n + 1 - j < m /\ n + 1 - (n + 1 - j) = j
      BY <2>2, <2>4
    <3>2. n + 1 - j \notin U
      BY <1>2, <2>1, <2>2, <3>1
    <3> QED
      BY <1>1, <3>1, <3>2
  <2> QED
    BY <2>2, <2>4, <2>5
<1>4. ASSUME NEW k \in 1 .. n + 1 PROVE k \in S
  <2>1. n + 1 - k \in 0 .. n /\ n + 1 - (n + 1 - k) = k
    OBVIOUS
  <2> QED
    BY <1>1, <1>3, <2>1
<1> QED
  BY <1>4

LEMMA Joins ==
  ASSUME NEW a, NEW b, IsText(a), IsText(b)
  PROVE  IsText(a \o b) /\ <<>> \o a = a /\ a \o <<>> = a
  BY ConcatProperties, ConcatEmptySeq DEF IsText

Grouped(a, b, c) == (a \o b) \o c = a \o (b \o c)

LEMMA Groups ==
  ASSUME NEW a, NEW b, NEW c, IsText(a), IsText(b), IsText(c)
  PROVE  Grouped(a, b, c)
  BY ConcatAssociative DEF IsText, Grouped

LEMMA EmptyText == IsText(<<>>) /\ Len(<<>>) = 0
  BY EmptySeq DEF IsText

LEMMA ValueIsInt ==
  ASSUME NEW c, IsText(c), C!IsCharacter(c)
  PROVE  C!Value(c) \in Int /\ IsText(<<C!Value(c)>>)
<1>1. Len(c) \in 1 .. 4 /\ \A j \in 1 .. Len(c) : c[j] \in Int
  BY CharacterLength, TextIs
<1>2. C!Value(c) \in Int
  <2>1. Len(c) = 1 \/ Len(c) = 2 \/ Len(c) = 3 \/ Len(c) = 4
    BY <1>1
  <2>2. CASE Len(c) = 1
    <3>1. c[1] \in Int /\ C!Value(c) = c[1]
      BY <1>1, <2>2 DEF C!Value
    <3> QED
      BY <3>1
  <2>3. CASE Len(c) = 2
    <3>1. c[1] \in Int /\ c[2] \in Int
      BY <1>1, <2>3
    <3>2. C!Value(c) = (c[1] - 192) * 64 + c[2] - 128
      BY <2>3 DEF C!Value
    <3> QED
      BY <3>1, <3>2
  <2>4. CASE Len(c) = 3
    <3>1. c[1] \in Int /\ c[2] \in Int /\ c[3] \in Int
      BY <1>1, <2>4
    <3>2. C!Value(c) = (c[1] - 224) * 4096 + (c[2] - 128) * 64 + c[3] - 128
      BY <2>4 DEF C!Value
    <3> QED
      BY <3>1, <3>2
  <2>5. CASE Len(c) = 4
    <3>1. c[1] \in Int /\ c[2] \in Int /\ c[3] \in Int /\ c[4] \in Int
      BY <1>1, <2>5
    <3>2. C!Value(c) = (c[1] - 240) * 262144 + (c[2] - 128) * 4096 + (c[3] - 128) * 64 + c[4] - 128
      BY <2>5 DEF C!Value
    <3> QED
      BY <3>1, <3>2
  <2> QED
    BY <2>1, <2>2, <2>3, <2>4, <2>5
<1> QED
  BY <1>2 DEF IsText

LEMMA CharacterAtPosition ==
  ASSUME NEW s, IsText(s), NEW k \in 1 .. Len(s), NEW n, n = C!CharacterAt(s, k), n # 0
  PROVE  /\ n \in 1 .. 4 /\ k + n \in k + 1 .. Len(s) + 1 /\ k + n - 1 <= Len(s)
         /\ IsText(SubSeq(s, k, k + n - 1)) /\ Len(SubSeq(s, k, k + n - 1)) = n
         /\ \A j \in 1 .. n : SubSeq(s, k, k + n - 1)[j] = s[k + j - 1]
         /\ C!IsCharacter(SubSeq(s, k, k + n - 1))
<1>1. Len(s) \in Nat /\ k \in Nat \ {0}
  BY TextIs
<1>2. n \in 1 .. 4 /\ Fits(s, k, n)
  BY <1>1, CharacterAtIs
<1>3. k + n - 1 <= Len(s) /\ C!IsCharacter(SubSeq(s, k, k + n - 1))
  BY <1>2 DEF Fits
<1>4. n \in Nat \ {0} /\ k + n \in k + 1 .. Len(s) + 1
  BY <1>1, <1>2, <1>3
<1>5. /\ IsText(SubSeq(s, k, k + n - 1)) /\ Len(SubSeq(s, k, k + n - 1)) = n
      /\ \A j \in 1 .. n : SubSeq(s, k, k + n - 1)[j] = s[k + j - 1]
  BY <1>1, <1>3, <1>4, Piece, Zenon
<1> QED
  BY <1>2, <1>3, <1>4, <1>5

LEMMA TextTyped ==
  ASSUME NEW s, IsText(s), NEW v, \A k \in 1 .. Len(s) + 1 : TextAt(s, v, k)
  PROVE  \A k \in 1 .. Len(s) + 1 : IsText(v[k])
<1> DEFINE S == {k \in 1 .. Len(s) + 1 : IsText(v[k])}
<1>1. Len(s) \in Nat
  BY TextIs
<1>2. Len(s) + 1 \in S
  <2>1. Len(s) + 1 \in 1 .. Len(s) + 1 /\ Len(s) + 1 > Len(s)
    BY <1>1
  <2>2. TextAt(s, v, Len(s) + 1)
    BY <2>1
  <2>3. v[Len(s) + 1] = <<>>
    BY <2>1, <2>2 DEF TextAt
  <2> QED
    BY <2>1, <2>3, EmptyText
<1>3. ASSUME NEW k \in 1 .. Len(s), \A j \in k + 1 .. Len(s) + 1 : j \in S
      PROVE  k \in S
  <2> DEFINE n == C!CharacterAt(s, k)
             x == <<C!Value(SubSeq(s, k, k + n - 1))>>
  <2>1. v[k] = IF k > Len(s) \/ n = 0 THEN <<>> ELSE x \o v[k + n]
    BY <1>1 DEF TextAt
  <2>2. CASE n = 0
    BY <1>1, <2>1, <2>2, EmptyText
  <2>3. CASE n # 0
    <3>1. k + n \in k + 1 .. Len(s) + 1 /\ IsText(x)
      BY <2>3, CharacterAtPosition, ValueIsInt
    <3>2. IsText(v[k + n])
      BY <1>3, <3>1
    <3> HIDE DEF n, x
    <3>3. v[k] = x \o v[k + n]
      BY <1>1, <2>1, <2>3
    <3>4. IsText(x \o v[k + n])
      BY <3>1, <3>2, Joins
    <3>5. IsText(v[k]) /\ k \in 1 .. Len(s) + 1
      BY <1>1, <3>3, <3>4
    <3> QED
      BY <3>5
  <2> QED
    BY <2>2, <2>3
<1> HIDE DEF S
<1>4. \A k \in 1 .. Len(s) + 1 : k \in S
  BY <1>1, <1>2, <1>3, Backwards
<1> QED
  BY <1>4 DEF S

(***************************************************************************)
(* t begins with s: the characters of s are characters of t.               *)
(***************************************************************************)
BeginsWith(t, s) == Len(s) <= Len(t) /\ \A j \in 1 .. Len(s) : t[j] = s[j]

KeptAt(s, t, k, n) ==
  C!CharacterAt(t, k) = n /\ SubSeq(t, k, k + n - 1) = SubSeq(s, k, k + n - 1)

LEMMA CharacterKept ==
  ASSUME NEW s, NEW t, IsText(s), IsText(t), BeginsWith(t, s),
         NEW k \in 1 .. Len(s), C!CharacterAt(s, k) # 0
  PROVE  KeptAt(s, t, k, C!CharacterAt(s, k))
<1>0. PICK n : n = C!CharacterAt(s, k) /\ n # 0
  OBVIOUS
<1> DEFINE c == SubSeq(s, k, k + n - 1)
           d == SubSeq(t, k, k + n - 1)
<1>1. /\ n \in 1 .. 4 /\ k + n - 1 <= Len(s)
      /\ IsText(c) /\ Len(c) = n /\ \A j \in 1 .. n : c[j] = s[k + j - 1]
      /\ C!IsCharacter(c)
  BY <1>0, CharacterAtPosition, ZenonT(30)
<1>2. Len(s) \in Nat /\ Len(t) \in Nat
  BY TextIs
<1>3. k \in Nat \ {0} /\ n \in Nat \ {0} /\ k + n - 1 <= Len(t)
  BY <1>1, <1>2 DEF BeginsWith
<1>4. IsText(d) /\ Len(d) = n /\ \A j \in 1 .. n : d[j] = t[k + j - 1]
  BY <1>3, Piece
<1> HIDE DEF c, d
<1>5. ASSUME NEW j \in 1 .. n PROVE d[j] = c[j]
  <2>1. k + j - 1 \in 1 .. Len(s)
    BY <1>1, <1>2
  <2>2. t[k + j - 1] = s[k + j - 1]
    BY <2>1 DEF BeginsWith
  <2> QED
    BY <1>1, <1>4, <2>2
<1>6. d = c
  BY <1>1, <1>4, <1>5, SeqEqual DEF IsText
<1>7. Fits(t, k, n)
  BY <1>1, <1>3, <1>6 DEF Fits, d
<1>8. C!CharacterAt(t, k) = n
  BY <1>1, <1>3, <1>7, CharacterAtIs
<1> QED
  BY <1>0, <1>6, <1>8 DEF c, d, KeptAt

Ends(s, f)  == \A k \in 1 .. Len(s) + 1 : EndAt(s, f, k)
Texts(s, v) == \A k \in 1 .. Len(s) + 1 : TextAt(s, v, k)

(***************************************************************************)
(* Text that is well-formed as far as s, and goes on with no character, or *)
(* with one.                                                               *)
(***************************************************************************)
LEMMA Continues ==
  ASSUME NEW s, NEW t, IsText(s), IsText(t), BeginsWith(t, s),
         C!WellFormedTo(s) = Len(s)
  PROVE  \E f, w : /\ C!WellFormedTo(t) = f[Len(s) + 1] /\ C!Values(t) = C!Values(s) \o w[Len(s) + 1]
                   /\ Ends(t, f) /\ Texts(t, w)
<1>11. PICK e : Ends(s, e) /\ C!WellFormedTo(s) = e[1]
  BY WellFormedToIs DEF Ends
<1>12. PICK f : Ends(t, f) /\ C!WellFormedTo(t) = f[1]
  BY WellFormedToIs DEF Ends
<1>13. PICK v : Texts(s, v) /\ C!Values(s) = v[1]
  BY ValuesIs DEF Texts
<1>14. PICK w : Texts(t, w) /\ C!Values(t) = w[1]
  BY ValuesIs DEF Texts
<1>15. e[1] = Len(s)
  BY <1>11
<1> DEFINE m == Len(s)
           Goes(k) == f[k] = f[m + 1] /\ w[k] = v[k] \o w[m + 1]
           S == {k \in 1 .. m + 1 : e[k] = m => Goes(k)}
<1> USE DEF Ends, Texts
<1>1. Len(s) \in Nat /\ Len(t) \in Nat /\ Len(s) <= Len(t)
  BY TextIs DEF BeginsWith
<1>2. (\A k \in 1 .. Len(s) + 1 : IsText(v[k])) /\ (\A k \in 1 .. Len(t) + 1 : IsText(w[k]))
  BY <1>13, <1>14, TextTyped
<1>3. IsText(w[m + 1])
  BY <1>1, <1>2
<1>4. m + 1 \in S
  <2>1. m + 1 \in 1 .. m + 1 /\ m + 1 > Len(s)
    BY <1>1
  <2>2. TextAt(s, v, m + 1)
    BY <1>13, <2>1
  <2>3. v[m + 1] = <<>>
    BY <2>1, <2>2 DEF TextAt
  <2>4. <<>> \o w[m + 1] = w[m + 1]
    BY <1>3, EmptyText, Joins
  <2>5. Goes(m + 1)
    BY <2>3, <2>4
  <2> HIDE DEF Goes
  <2> QED
    BY <2>1, <2>5
<1>5. ASSUME NEW k \in 1 .. m, \A j \in k + 1 .. m + 1 : j \in S
      PROVE  k \in S
  <2> SUFFICES ASSUME e[k] = m PROVE Goes(k)
    <3>1. k \in 1 .. m + 1
      BY <1>1
    <3> HIDE DEF Goes
    <3> QED
      BY <3>1
  <2> DEFINE n == C!CharacterAt(s, k)
             x == <<C!Value(SubSeq(s, k, k + n - 1))>>
  <2>1. k \in 1 .. Len(t) /\ k \in 1 .. Len(s) + 1 /\ k \in 1 .. Len(t) + 1 /\ ~ (k > Len(s))
        /\ ~ (k > Len(t))
    BY <1>1
  <2>2. n # 0
    <3>1. n = 0 => e[k] = k - 1
      BY <1>11, <2>1 DEF EndAt
    <3> QED
      BY <1>1, <3>1
  <2>3. /\ k + n \in k + 1 .. m + 1 /\ IsText(x)
    BY <2>2, CharacterAtPosition, ValueIsInt
  <2>4. /\ C!CharacterAt(t, k) = n
        /\ SubSeq(t, k, k + n - 1) = SubSeq(s, k, k + n - 1)
    <3>1. KeptAt(s, t, k, n)
      BY <2>2, CharacterKept
    <3> QED
      BY <3>1 DEF KeptAt
  <2>5. e[k] = e[k + n]
    BY <1>11, <2>1, <2>2 DEF EndAt
  <2>6. f[k] = f[k + n]
    <3>1. EndAt(t, f, k)
      BY <1>12, <2>1
    <3> QED
      BY <2>1, <2>2, <2>4, <3>1 DEF EndAt
  <2>7. v[k] = x \o v[k + n]
    BY <1>13, <2>1, <2>2 DEF TextAt
  <2>8. w[k] = x \o w[k + n]
    <3>1. TextAt(t, w, k)
      BY <1>14, <2>1
    <3>2. w[k] = <<C!Value(SubSeq(t, k, k + n - 1))>> \o w[k + n]
      <4> HIDE DEF n
      <4> QED
        BY <2>1, <2>2, <2>4, <3>1 DEF TextAt
    <3> QED
      BY <2>4, <3>2
  <2> HIDE DEF n, x
  <2>9. Goes(k + n)
    BY <1>5, <2>3, <2>5
  <2>10. IsText(v[k + n])
    BY <1>1, <1>2, <2>1, <2>3
  <2>11. (x \o v[k + n]) \o w[m + 1] = x \o (v[k + n] \o w[m + 1])
    <3>1. IsText(x) /\ IsText(v[k + n]) /\ IsText(w[m + 1])
      BY <1>3, <2>3, <2>10
    <3>2. Grouped(x, v[k + n], w[m + 1])
      BY <3>1, Groups
    <3> QED
      BY <3>2 DEF Grouped
  <2> QED
    BY <2>6, <2>7, <2>8, <2>9, <2>11
<1> HIDE DEF S, Goes
<1>6. \A k \in 1 .. m + 1 : k \in S
  BY <1>1, <1>4, <1>5, Backwards
<1>16. Goes(1)
  <2>1. 1 \in S
    BY <1>1, <1>6
  <2> QED
    BY <1>15, <2>1 DEF S
<1>17. C!WellFormedTo(t) = f[m + 1] /\ C!Values(t) = C!Values(s) \o w[m + 1]
  BY <1>12, <1>13, <1>14, <1>16 DEF Goes
<1> QED
  BY <1>12, <1>14, <1>17

LEMMA ValuesTyped ==
  ASSUME NEW s, IsText(s)
  PROVE  IsText(C!Values(s))
<1>1. PICK v : (\A k \in 1 .. Len(s) + 1 : TextAt(s, v, k)) /\ C!Values(s) = v[1]
  BY ValuesIs
<1>2. \A k \in 1 .. Len(s) + 1 : IsText(v[k])
  BY <1>1, TextTyped
<1>3. 1 \in 1 .. Len(s) + 1
  BY TextIs
<1> QED
  BY <1>1, <1>2, <1>3

LEMMA Stops ==
  ASSUME NEW s, NEW t, IsText(s), IsText(t), BeginsWith(t, s),
         C!WellFormedTo(s) = Len(s), C!CharacterAt(t, Len(s) + 1) = 0
  PROVE  C!WellFormedTo(t) = Len(s)
<1>1. Len(s) \in Nat /\ Len(t) \in Nat /\ Len(s) + 1 \in 1 .. Len(t) + 1
  BY TextIs DEF BeginsWith
<1>2. PICK f, w : /\ C!WellFormedTo(t) = f[Len(s) + 1]
                  /\ Ends(t, f)
  BY Continues
<1>3. EndAt(t, f, Len(s) + 1)
  BY <1>1, <1>2 DEF Ends
<1>4. f[Len(s) + 1] = Len(s) + 1 - 1
  BY <1>3 DEF EndAt
<1> QED
  BY <1>1, <1>2, <1>4

LEMMA EmptyIs == C!WellFormedTo(<<>>) = 0 /\ C!Values(<<>>) = <<>>
<1>1. IsText(<<>>) /\ Len(<<>>) = 0 /\ 1 \in 1 .. Len(<<>>) + 1 /\ 1 > Len(<<>>)
  BY EmptyText
<1>2. PICK f : (\A k \in 1 .. Len(<<>>) + 1 : EndAt(<<>>, f, k)) /\ C!WellFormedTo(<<>>) = f[1]
  BY <1>1, WellFormedToIs
<1>3. PICK w : (\A k \in 1 .. Len(<<>>) + 1 : TextAt(<<>>, w, k)) /\ C!Values(<<>>) = w[1]
  BY <1>1, ValuesIs
<1>4. EndAt(<<>>, f, 1) /\ TextAt(<<>>, w, 1)
  BY <1>1, <1>2, <1>3
<1>5. f[1] = 1 - 1 /\ w[1] = <<>>
  BY <1>1, <1>4 DEF EndAt, TextAt
<1> QED
  BY <1>2, <1>3, <1>5

LEMMA Grows ==
  ASSUME NEW s, NEW c, IsText(s), IsText(c), C!WellFormedTo(s) = Len(s), C!IsCharacter(c)
  PROVE  /\ C!WellFormedTo(s \o c) = Len(s \o c)
         /\ C!Values(s \o c) = C!Values(s) \o <<C!Value(c)>>
<1> DEFINE t == s \o c
           n == Len(c)
           m == Len(s)
<1>1. /\ IsText(t) /\ Len(t) = m + n
      /\ \A k \in 1 .. m + n : t[k] = IF k <= m THEN s[k] ELSE c[k - m]
  BY ConcatProperties DEF IsText
<1>2. m \in Nat /\ n \in 1 .. 4
  BY TextIs, CharacterLength
<1> HIDE DEF t
<1>3. BeginsWith(t, s)
  <2>1. Len(s) <= Len(t)
    BY <1>1, <1>2
  <2>2. \A j \in 1 .. Len(s) : t[j] = s[j]
    BY <1>1, <1>2
  <2> QED
    BY <2>1, <2>2 DEF BeginsWith
<1> HIDE DEF m, n
<1>4. SubSeq(t, m + 1, m + 1 + n - 1) = c
  <2> DEFINE d == SubSeq(t, m + 1, m + 1 + n - 1)
  <2>1. m + 1 \in Nat \ {0} /\ n \in Nat \ {0} /\ m + 1 + n - 1 <= Len(t)
    BY <1>1, <1>2
  <2>2. IsText(d) /\ Len(d) = n /\ \A j \in 1 .. n : d[j] = t[m + 1 + j - 1]
    BY <1>1, <2>1, Piece
  <2> HIDE DEF d
  <2>3. ASSUME NEW j \in 1 .. n PROVE d[j] = c[j]
    <3>1. m + 1 + j - 1 \in 1 .. m + n /\ ~ (m + 1 + j - 1 <= m) /\ (m + 1 + j - 1) - m = j
      BY <1>2
    <3>2. t[m + 1 + j - 1] = c[(m + 1 + j - 1) - m]
      BY <1>1, <3>1
    <3> QED
      BY <2>2, <3>1, <3>2
  <2>4. d = c
    BY <2>2, <2>3, SeqEqual DEF IsText, n
  <2> QED
    BY <2>4 DEF d
<1>5. C!CharacterAt(t, m + 1) = n
  <2>1. m + 1 + n - 1 <= Len(t)
    BY <1>1, <1>2
  <2>2. Fits(t, m + 1, n)
    BY <1>4, <2>1 DEF Fits
  <2>3. m + 1 \in Nat \ {0}
    BY <1>2
  <2> QED
    BY <1>1, <1>2, <2>2, <2>3, CharacterAtIs
<1> USE DEF m
<1>6. PICK f, w : /\ C!WellFormedTo(t) = f[m + 1] /\ C!Values(t) = C!Values(s) \o w[m + 1]
                  /\ Ends(t, f) /\ Texts(t, w)
  BY <1>1, <1>3, Continues
<1>7. /\ EndAt(t, f, m + 1) /\ TextAt(t, w, m + 1)
      /\ EndAt(t, f, m + 1 + n) /\ TextAt(t, w, m + 1 + n)
  <2>1. m + 1 \in 1 .. Len(t) + 1 /\ m + 1 + n \in 1 .. Len(t) + 1
    BY <1>1, <1>2
  <2> QED
    BY <1>6, <2>1 DEF Ends, Texts
<1>8. ~ (m + 1 > Len(t)) /\ m + 1 + n > Len(t) /\ n # 0 /\ m + 1 + n - 1 = Len(t)
  BY <1>1, <1>2
<1>9. f[m + 1 + n] = m + 1 + n - 1 /\ w[m + 1 + n] = <<>>
  <2>1. f[m + 1 + n] = m + 1 + n - 1
    BY <1>2, <1>7, <1>8 DEF EndAt
  <2>2. w[m + 1 + n] = <<>>
    BY <1>7, <1>8 DEF TextAt
  <2> QED
    BY <2>1, <2>2
<1>10. f[m + 1] = f[m + 1 + n]
  BY <1>5, <1>7, <1>8 DEF EndAt
<1>11. w[m + 1] = <<C!Value(c)>> \o w[m + 1 + n]
  BY <1>4, <1>5, <1>7, <1>8 DEF TextAt
<1>12. <<C!Value(c)>> \o <<>> = <<C!Value(c)>>
  BY ValueIsInt, EmptyText, Joins
<1>13. C!WellFormedTo(t) = Len(t)
  BY <1>6, <1>8, <1>9, <1>10
<1>14. C!Values(t) = C!Values(s) \o <<C!Value(c)>>
  BY <1>6, <1>9, <1>11, <1>12
<1> QED
  BY <1>13, <1>14 DEF t

(***************************************************************************)
(* The code units of a text, from the recursive definition of Units; w is  *)
(* the size of a code unit.                                                *)
(***************************************************************************)
UnitOf(w, cp) ==
  IF w = 2 /\ cp >= 65536
  THEN <<55296 + ((cp - 65536) \div 1024), 56320 + ((cp - 65536) % 1024)>>
  ELSE <<cp>>

UnitsOf(w, v) ==
  LET units[k \in 0 .. Len(v)] == IF k = 0 THEN <<>> ELSE units[k - 1] \o UnitOf(w, v[k])
  IN  units[Len(v)]

UnitAt(w, v, u, k) == u[k] = IF k = 0 THEN <<>> ELSE u[k - 1] \o UnitOf(w, v[k])

LEMMA UnitAtExists ==
  ASSUME NEW w, NEW v, IsText(v)
  PROVE  \E u : DOMAIN u = 0 .. Len(v) /\ \A k \in 0 .. Len(v) : UnitAt(w, v, u, k)
<1> DEFINE To(m) == \E u : DOMAIN u = 0 .. Len(v) /\ \A k \in 0 .. m : UnitAt(w, v, u, k)
           S == {m \in Nat : m <= Len(v) => To(m)}
<1>1. Len(v) \in Nat
  BY TextIs
<1>2. To(0)
  <2> DEFINE u == [k \in 0 .. Len(v) |-> <<>>]
  <2>1. u[0] = <<>> /\ DOMAIN u = 0 .. Len(v)
    BY <1>1
  <2> HIDE DEF u
  <2>2. UnitAt(w, v, u, 0)
    BY <2>1 DEF UnitAt
  <2>3. \A k \in 0 .. 0 : k = 0
    OBVIOUS
  <2> QED
    BY <2>1, <2>2, <2>3
<1>3. ASSUME NEW m \in Nat, m + 1 <= Len(v), To(m) PROVE To(m + 1)
  <2>1. PICK u : \A k \in 0 .. m : UnitAt(w, v, u, k)
    BY <1>3
  <2> DEFINE x == u[m] \o UnitOf(w, v[m + 1])
             y == [k \in 0 .. Len(v) |-> IF k = m + 1 THEN x ELSE u[k]]
  <2>2. y[m + 1] = x /\ (\A k \in 0 .. m : y[k] = u[k]) /\ DOMAIN y = 0 .. Len(v)
    <3> HIDE DEF x
    <3> QED
      BY <1>1, <1>3
  <2> HIDE DEF y
  <2>3. ASSUME NEW k \in 0 .. m PROVE UnitAt(w, v, y, k)
    <3>1. UnitAt(w, v, u, k) /\ y[k] = u[k] /\ (k # 0 => y[k - 1] = u[k - 1])
      BY <2>1, <2>2
    <3> QED
      BY <3>1 DEF UnitAt
  <2>4. UnitAt(w, v, y, m + 1)
    <3>1. y[m + 1] = y[m] \o UnitOf(w, v[m + 1]) /\ m + 1 # 0 /\ m + 1 - 1 = m
      <4>1. m \in 0 .. m /\ m + 1 # 0 /\ m + 1 - 1 = m
        OBVIOUS
      <4>2. y[m] = u[m]
        BY <2>2, <4>1
      <4> QED
        BY <2>2, <4>1, <4>2, Zenon
    <3>2. PICK k \in Nat : k = m + 1 /\ k # 0 /\ k - 1 = m
      OBVIOUS
    <3>3. UnitAt(w, v, y, k)
      BY <3>1, <3>2 DEF UnitAt
    <3> QED
      BY <3>2, <3>3
  <2>5. \A k \in 0 .. m + 1 : k \in 0 .. m \/ k = m + 1
    OBVIOUS
  <2> QED
    BY <2>2, <2>3, <2>4, <2>5
<1> HIDE DEF To
<1>4. 0 \in S
  BY <1>2
<1>5. ASSUME NEW m \in Nat, m \in S PROVE m + 1 \in S
  BY <1>1, <1>3, <1>5
<1> HIDE DEF S
<1>6. Nat \subseteq S
  BY <1>4, <1>5, Induction
<1>7. To(Len(v))
  <2>1. Len(v) \in S
    BY <1>1, <1>6
  <2> QED
    BY <1>1, <2>1 DEF S
<1> QED
  BY <1>7 DEF To

LEMMA UnitsIs ==
  ASSUME NEW w, NEW v, IsText(v)
  PROVE  \E u : (\A k \in 0 .. Len(v) : UnitAt(w, v, u, k)) /\ UnitsOf(w, v) = u[Len(v)]
<1> DEFINE value(u, k) == IF k = 0 THEN <<>> ELSE u[k - 1] \o UnitOf(w, v[k])
           Defines(u) == u = [k \in 0 .. Len(v) |-> value(u, k)]
<1>1. PICK g : DOMAIN g = 0 .. Len(v) /\ \A k \in 0 .. Len(v) : UnitAt(w, v, g, k)
  BY UnitAtExists
<1>2. \E h : Defines(h)
  <2> DEFINE h == [k \in 0 .. Len(v) |-> g[k]]
  <2>1. \A k \in 0 .. Len(v) : g[k] = value(g, k)
    BY <1>1 DEF UnitAt
  <2>2. \A k \in 0 .. Len(v) : h[k] = g[k]
    OBVIOUS
  <2> HIDE DEF h
  <2>3. \A k \in 0 .. Len(v) : value(h, k) = value(g, k)
    <3> SUFFICES ASSUME NEW k \in 1 .. Len(v) PROVE h[k - 1] = g[k - 1]
      BY TextIs
    <3>1. k - 1 \in 0 .. Len(v)
      BY TextIs
    <3> QED
      BY <2>2, <3>1
  <2> HIDE DEF value
  <2>4. h = [k \in 0 .. Len(v) |-> value(h, k)]
    BY <2>1, <2>2, <2>3 DEF h
  <2> QED
    BY <2>4
<1> DEFINE u == CHOOSE u : Defines(u)
<1>3. Defines(u)
  BY <1>2, Zenon
<1>4. UnitsOf(w, v) = u[Len(v)]
  BY DEF UnitsOf
<1> HIDE DEF u
<1>5. \A k \in 0 .. Len(v) : u[k] = value(u, k)
  <2> HIDE DEF value
  <2> QED
    BY <1>3
<1>6. \A k \in 0 .. Len(v) : UnitAt(w, v, u, k)
  BY <1>5 DEF UnitAt
<1> QED
  BY <1>4, <1>6

LEMMA NoUnits ==
  ASSUME NEW w
  PROVE  UnitsOf(w, <<>>) = <<>>
<1>1. IsText(<<>>) /\ Len(<<>>) = 0 /\ 0 \in 0 .. Len(<<>>)
  BY EmptyText
<1>2. PICK u : (\A k \in 0 .. Len(<<>>) : UnitAt(w, <<>>, u, k)) /\ UnitsOf(w, <<>>) = u[Len(<<>>)]
  BY <1>1, UnitsIs
<1>3. UnitAt(w, <<>>, u, 0)
  BY <1>1, <1>2
<1> QED
  BY <1>1, <1>2, <1>3 DEF UnitAt

LEMMA UnitsGrow ==
  ASSUME NEW w, NEW v, IsText(v), NEW cp \in Int
  PROVE  UnitsOf(w, v \o <<cp>>) = UnitsOf(w, v) \o UnitOf(w, cp)
<1> DEFINE x == v \o <<cp>>
           n == Len(v)
<1>1. IsText(<<cp>>) /\ Len(<<cp>>) = 1 /\ <<cp>>[1] = cp
  BY DEF IsText
<1>2. IsText(x) /\ Len(x) = n + 1
      /\ \A k \in 1 .. n + 1 : x[k] = IF k <= n THEN v[k] ELSE <<cp>>[k - n]
  BY <1>1, ConcatProperties DEF IsText
<1>3. n \in Nat
  BY TextIs
<1> HIDE DEF x
<1>4. x[n + 1] = cp
  <2>1. n + 1 \in 1 .. n + 1 /\ ~ (n + 1 <= n) /\ (n + 1) - n = 1
    BY <1>3
  <2> QED
    BY <1>1, <1>2, <2>1
<1>5. \A k \in 1 .. n : x[k] = v[k]
  <2>1. \A k \in 1 .. n : k \in 1 .. n + 1 /\ k <= n
    BY <1>3
  <2> QED
    BY <1>2, <2>1
<1>6. PICK u : (\A k \in 0 .. n : UnitAt(w, v, u, k)) /\ UnitsOf(w, v) = u[n]
  BY UnitsIs
<1>7. PICK y : (\A k \in 0 .. Len(x) : UnitAt(w, x, y, k)) /\ UnitsOf(w, x) = y[Len(x)]
  BY <1>2, UnitsIs
<1> DEFINE S == {k \in 0 .. n : y[k] # u[k]}
<1>8. \A k \in 0 .. n : k \in S <=> y[k] # u[k]
  OBVIOUS
<1>9. S \subseteq 0 .. n /\ S \subseteq Nat
  OBVIOUS
<1> HIDE DEF S
<1>10. S = {}
  <2> SUFFICES ASSUME S # {} PROVE FALSE
    OBVIOUS
  <2>1. PICK k \in S : \A l \in S : k <= l
    BY <1>9, Least
  <2>2. k \in 0 .. n /\ k \in 0 .. Len(x) /\ y[k] # u[k]
    BY <1>2, <1>3, <1>8, <1>9, <2>1
  <2>3. UnitAt(w, v, u, k) /\ UnitAt(w, x, y, k)
    BY <1>6, <1>7, <2>2
  <2>4. k # 0
    BY <2>2, <2>3 DEF UnitAt
  <2>5. k - 1 \in 0 .. n /\ k - 1 < k /\ k \in 1 .. n
    BY <1>3, <2>2, <2>4
  <2>6. k - 1 \notin S
    BY <1>9, <2>1, <2>2, <2>5
  <2>7. y[k - 1] = u[k - 1] /\ x[k] = v[k]
    BY <1>5, <1>8, <2>5, <2>6
  <2> QED
    BY <2>2, <2>3, <2>4, <2>7 DEF UnitAt
<1>11. y[n] = u[n]
  BY <1>3, <1>8, <1>10
<1>12. UnitAt(w, x, y, n + 1) /\ n + 1 # 0 /\ n + 1 - 1 = n
  <2>1. n + 1 \in 0 .. Len(x) /\ n + 1 # 0 /\ n + 1 - 1 = n
    BY <1>2, <1>3
  <2> QED
    BY <1>7, <2>1
<1>13. y[n + 1] = y[n] \o UnitOf(w, cp)
  BY <1>4, <1>12 DEF UnitAt
<1> QED
  BY <1>2, <1>6, <1>7, <1>11, <1>13 DEF x

(***************************************************************************)
(* The conversions hold the same text on both sides: wide is octets, in    *)
(* code units of w bytes.                                                  *)
(***************************************************************************)
Same(w, octets, wide) ==
  C!WellFormedTo(octets) = Len(octets) /\ UnitsOf(w, C!Values(octets)) = wide

LEMMA SameEmpty ==
  ASSUME NEW w PROVE Same(w, <<>>, <<>>)
  BY EmptyIs, EmptyText, NoUnits DEF Same

LEMMA SameGrows ==
  ASSUME NEW w, NEW octets, NEW wide, IsText(octets), Same(w, octets, wide),
         NEW c, IsText(c), C!IsCharacter(c)
  PROVE  Same(w, octets \o c, wide \o UnitOf(w, C!Value(c)))
<1>1. /\ C!WellFormedTo(octets \o c) = Len(octets \o c)
      /\ C!Values(octets \o c) = C!Values(octets) \o <<C!Value(c)>>
  BY Grows DEF Same
<1>2. UnitsOf(w, C!Values(octets) \o <<C!Value(c)>>)
        = UnitsOf(w, C!Values(octets)) \o UnitOf(w, C!Value(c))
  BY ValuesTyped, ValueIsInt, UnitsGrow
<1> QED
  BY <1>1, <1>2 DEF Same

LEMMA Consumes ==
  ASSUME NEW s, IsText(s), NEW k \in 1 .. Len(s), NEW n \in Nat \ {0}, k + n - 1 <= Len(s)
  PROVE  /\ SubSeq(s, 1, k + n - 1) = SubSeq(s, 1, k - 1) \o SubSeq(s, k, k + n - 1)
         /\ IsText(SubSeq(s, 1, k - 1)) /\ k + n \in 1 .. Len(s) + 1
<1>1. Len(s) \in Nat /\ \A j \in 1 .. Len(s) : s[j] \in Int
  BY TextIs
<1>2. PICK h \in 0 .. Len(s) : h = k - 1 /\ h + 1 = k
  <2>1. k - 1 \in 0 .. Len(s) /\ k - 1 + 1 = k
    BY <1>1
  <2> QED
    BY <2>1
<1>3. PICK m \in h .. Len(s) : m = k + n - 1
  BY <1>1, <1>2
<1>4. 1 \in 1 .. Len(s) + 1 /\ h \in 1 - 1 .. Len(s)
  BY <1>1, <1>2
<1>5. SubSeq(s, 1, h) \o SubSeq(s, h + 1, m) = SubSeq(s, 1, m)
  BY <1>3, <1>4, ConcatAdjacentSubSeq DEF IsText
<1>6. SubSeq(s, 1, h) \in Seq(Int)
  <2>1. \A j \in 1 .. h : s[j] \in Int
    BY <1>1, <1>2
  <2> QED
    BY <1>2, <2>1, SubSeqProperties
<1>7. k + n \in 1 .. Len(s) + 1
  BY <1>1
<1> QED
  BY <1>2, <1>3, <1>5, <1>6, <1>7 DEF IsText

(***************************************************************************)
(* What utf8to16 writes, and what utf16to8 makes of two surrogates.        *)
(***************************************************************************)
LEMMA UnitWritten ==
  ASSUME NEW w \in {2, 4}, NEW cp \in Int, C!is_code_point_valid(cp)
  PROVE  /\ (IF w = 2 THEN C!utf16(cp) ELSE <<cp>>) = UnitOf(w, cp)
         /\ IsText(UnitOf(w, cp))
<1>1. 0 <= cp /\ cp <= 1114111
  BY DEF C!is_code_point_valid, C!CODE_POINT_MAX
<1>2. CASE w = 2 /\ cp >= 65536
  <2> DEFINE a == 55296 + ((cp - 65536) \div 1024)
             b == 56320 + ((cp - 65536) % 1024)
  <2>1. UnitOf(w, cp) = <<a, b>>
    BY <1>2 DEF UnitOf
  <2>2. C!utf16(cp) = <<(cp \div 1024) + C!LEAD_OFFSET, (cp % 1024) + C!TRAIL_SURROGATE_MIN>>
    BY <1>2 DEF C!utf16
  <2>3. (cp \div 1024) + C!LEAD_OFFSET = a
    BY <1>1, <1>2 DEF C!LEAD_OFFSET, C!LEAD_SURROGATE_MIN
  <2>4. (cp % 1024) + C!TRAIL_SURROGATE_MIN = b
    BY <1>1, <1>2 DEF C!TRAIL_SURROGATE_MIN
  <2>5. a \in Int /\ b \in Int
    BY <1>1, <1>2
  <2> HIDE DEF a, b
  <2>6. IsText(<<a, b>>)
    BY <2>5 DEF IsText
  <2> QED
    BY <1>2, <2>1, <2>2, <2>3, <2>4, <2>6
<1>3. CASE ~ (w = 2 /\ cp >= 65536)
  <2>1. UnitOf(w, cp) = <<cp>> /\ IsText(<<cp>>)
    BY <1>3 DEF UnitOf, IsText
  <2>2. w = 2 => C!utf16(cp) = <<cp>>
    BY <1>3 DEF C!utf16
  <2> QED
    BY <2>1, <2>2
<1> QED
  BY <1>2, <1>3

LEMMA PairIs ==
  ASSUME NEW lead \in Int, NEW trail \in Int,
         C!is_lead_surrogate(lead), C!is_trail_surrogate(trail)
  PROVE  /\ C!Pair(lead, trail) \in Int /\ C!is_code_point_valid(C!Pair(lead, trail))
         /\ UnitOf(2, C!Pair(lead, trail)) = <<lead, trail>>
<1>1. lead \in 55296 .. 56319 /\ trail \in 56320 .. 57343
  BY DEF C!is_lead_surrogate, C!is_trail_surrogate, C!LEAD_SURROGATE_MIN, C!LEAD_SURROGATE_MAX,
         C!TRAIL_SURROGATE_MIN, C!TRAIL_SURROGATE_MAX
<1>2. PICK cp \in Int : cp = C!Pair(lead, trail)
                        /\ cp = lead * 1024 + trail - 56613888
  BY DEF C!Pair, C!SURROGATE_OFFSET, C!LEAD_OFFSET, C!LEAD_SURROGATE_MIN, C!TRAIL_SURROGATE_MIN
<1>3. 65536 <= cp /\ cp <= 1114111
  BY <1>1, <1>2
<1>4. C!is_code_point_valid(cp)
  BY <1>3 DEF C!is_code_point_valid, C!CODE_POINT_MAX, C!LEAD_SURROGATE_MIN, C!TRAIL_SURROGATE_MAX
<1>5. 55296 + ((cp - 65536) \div 1024) = lead /\ 56320 + ((cp - 65536) % 1024) = trail
  BY <1>1, <1>2, <1>3
<1>6. UnitOf(2, cp) = <<lead, trail>>
  BY <1>3, <1>5 DEF UnitOf
<1> QED
  BY <1>2, <1>4, <1>6

(***************************************************************************)
(* The inductive invariant of a conversion, as conditions on its           *)
(* variables: o is op, w wideSize, s src, k it, d dest, r ret.             *)
(***************************************************************************)
Unsigned16 == {u \in Int : 0 <= u /\ u <= 65535}

IsWide(s) == \A j \in 1 .. Len(s) : s[j] \in Unsigned16

Source(o, w, s) ==
  /\ o \in {"Utf8ToWchar", "WcharToUtf8"} /\ w \in {1, 2, 4}
  /\ IsText(s)
  /\ o = "Utf8ToWchar" => IsOctets(s)
  /\ o = "WcharToUtf8" /\ w = 2 => IsWide(s)

Inside(s, k) == k \in 1 .. Len(s) + 1

\* What was consumed and what was written are the same text.
SameSoFar(o, w, s, k, d) ==
  IF o = "Utf8ToWchar" THEN Same(w, SubSeq(s, 1, k - 1), d) ELSE Same(w, d, SubSeq(s, 1, k - 1))

\* The code units that were consumed are valid: surrogates in pairs only.
Lead(u)     == u \in Int /\ 55296 <= u /\ u <= 56319
Trailing(u) == u \in Int /\ 56320 <= u /\ u <= 57343

PairedTo(s, k) ==
  \A j \in 1 .. k - 1 :
    /\ Lead(s[j]) => j + 1 <= k - 1 /\ Trailing(s[j + 1])
    /\ Trailing(s[j]) => j > 1 /\ Lead(s[j - 1])

ValidTo(o, w, s, k) ==
  /\ o = "WcharToUtf8" /\ w = 4 => \A j \in 1 .. k - 1 : C!is_code_point_valid(s[j])
  /\ o = "WcharToUtf8" /\ w = 2 => PairedTo(s, k)

\* The element at k is none that can be converted.
Refused(o, w, s, k) ==
  /\ k <= Len(s)
  /\ o = "Utf8ToWchar" => C!validate_next(s, k) # "UTF8_OK"
  /\ o = "WcharToUtf8" /\ w = 4 => ~ C!is_code_point_valid(s[k])
  /\ o = "WcharToUtf8" /\ w = 2 =>
       /\ Lead(s[k]) \/ Trailing(s[k])
       /\ ~ (Lead(s[k]) /\ k < Len(s) /\ Trailing(s[k + 1]))

Ended(o, w, s, k, r) == w # 1 => IF r THEN k = Len(s) + 1 ELSE Refused(o, w, s, k)

ConversionInv ==
  cpc # "none" =>
    /\ cpc \in {"begin", "convert", "return"}
    /\ Source(op, wideSize, src) /\ Inside(src, it) /\ IsText(dest) /\ ret \in BOOLEAN
    /\ cpc = "begin" => it = 1 /\ ret
    /\ cpc # "begin" => SameSoFar(op, wideSize, src, it, dest) /\ ValidTo(op, wideSize, src, it)
    /\ cpc = "convert" => wideSize \in {2, 4} /\ ret
    /\ cpc = "return" => Ended(op, wideSize, src, it, ret)

(***************************************************************************)
(* One step of a conversion, whatever its variables hold.                  *)
(***************************************************************************)
LEMMA SameSoFarIs ==
  ASSUME NEW w, NEW s, NEW k, NEW d
  PROVE  /\ SameSoFar("Utf8ToWchar", w, s, k, d) <=> Same(w, SubSeq(s, 1, k - 1), d)
         /\ SameSoFar("WcharToUtf8", w, s, k, d) <=> Same(w, d, SubSeq(s, 1, k - 1))
  BY DEF SameSoFar

LEMMA Begun ==
  ASSUME NEW o, NEW w, NEW s, IsText(s)
  PROVE  Inside(s, 1) /\ SameSoFar(o, w, s, 1, <<>>) /\ ValidTo(o, w, s, 1)
<1>1. Inside(s, 1)
  BY TextIs DEF Inside
<1>2. SubSeq(s, 1, 1 - 1) = <<>>
  BY SubSeqEmpty
<1>3. SameSoFar(o, w, s, 1, <<>>)
  BY <1>2, SameEmpty DEF SameSoFar
<1>4. ValidTo(o, w, s, 1)
  <2>1. \A j \in 1 .. 1 - 1 : FALSE
    OBVIOUS
  <2> QED
    BY <2>1 DEF ValidTo, PairedTo
<1> QED
  BY <1>1, <1>3, <1>4

LEMMA Decoded ==
  ASSUME NEW w \in {2, 4}, NEW s, IsOctets(s), NEW k, Inside(s, k), NEW d, IsText(d),
         SameSoFar("Utf8ToWchar", w, s, k, d),
         k <= Len(s), C!validate_next(s, k) = "UTF8_OK", NEW n, n = C!sequence_length(s[k]),
         NEW cp, cp = C!get_sequence(s, k, n),
         NEW piece, piece = IF w = 2 THEN C!utf16(cp) ELSE <<cp>>
  PROVE  /\ Inside(s, k + n) /\ IsText(d \o piece)
         /\ SameSoFar("Utf8ToWchar", w, s, k + n, d \o piece)
<1> DEFINE m == k + n - 1
           c == SubSeq(s, k, m)
           x == SubSeq(s, 1, k - 1)
<1>1. IsText(s) /\ Len(s) \in Nat
  BY OctetsAreText, TextIs
<1>2. k \in 1 .. Len(s) /\ k \in Nat \ {0}
  BY <1>1 DEF Inside
<1>3. n \in 0 .. 4
  <2>1. PICK a \in 0 .. 255 : a = s[k]
    BY <1>2, OctetsAre
  <2>2. C!sequence_length(a) \in 0 .. 4
    BY LeadIs, Zenon
  <2> QED
    BY <2>1, <2>2
<1>4. n # 0 /\ m <= Len(s) /\ C!IsCharacter(c) /\ cp = C!Value(c)
  BY <1>2, <1>3, Validates
<1>5. n \in Nat \ {0}
  BY <1>3, <1>4
<1>6. IsText(c)
  BY <1>1, <1>2, <1>4, <1>5, Piece
<1>7. SubSeq(s, 1, m) = x \o c /\ IsText(x) /\ Inside(s, k + n)
  BY <1>1, <1>2, <1>4, <1>5, Consumes DEF Inside
<1>8. cp \in Int /\ C!is_code_point_valid(cp)
  <2>1. cp \in Int
    BY <1>4, <1>6, ValueIsInt
  <2>2. C!is_code_point_valid(cp)
    BY DEF C!validate_next
  <2> QED
    BY <2>1, <2>2
<1>9. piece = UnitOf(w, cp) /\ IsText(piece)
  BY <1>8, UnitWritten
<1>10. IsText(d \o piece)
  BY <1>9, Joins
<1>11. Same(w, x, d)
  BY DEF SameSoFar
<1> HIDE DEF c, x, m
<1>12. Same(w, x \o c, d \o piece)
  BY <1>4, <1>6, <1>7, <1>9, <1>11, SameGrows
<1>13. SameSoFar("Utf8ToWchar", w, s, k + n, d \o piece)
  <2>1. SubSeq(s, 1, k + n - 1) = x \o c
    BY <1>7 DEF m
  <2>2. (k + n) - 1 = k + n - 1
    BY <1>2, <1>5
  <2>3. Same(w, SubSeq(s, 1, (k + n) - 1), d \o piece)
    BY <1>12, <2>1, <2>2
  <2> QED
    BY <2>3, SameSoFarIs
<1> QED
  BY <1>7, <1>10, <1>13

LEMMA Encoded ==
  ASSUME NEW w \in {2, 4}, NEW s, IsText(s), NEW k, Inside(s, k), NEW d, IsText(d),
         SameSoFar("WcharToUtf8", w, s, k, d),
         NEW n \in Nat \ {0}, NEW cp \in Int, C!is_code_point_valid(cp),
         k + n - 1 <= Len(s), SubSeq(s, k, k + n - 1) = UnitOf(w, cp)
  PROVE  /\ Inside(s, k + n) /\ IsText(d \o C!append(cp))
         /\ SameSoFar("WcharToUtf8", w, s, k + n, d \o C!append(cp))
<1> DEFINE c == C!append(cp)
           x == SubSeq(s, 1, k - 1)
           y == UnitOf(w, cp)
<1>1. k \in 1 .. Len(s)
  BY TextIs DEF Inside
<1>2. SubSeq(s, 1, k + n - 1) = x \o y /\ k + n \in 1 .. Len(s) + 1
  <2> HIDE DEF y, x
  <2>1. SubSeq(s, 1, k + n - 1) = SubSeq(s, 1, k - 1) \o SubSeq(s, k, k + n - 1)
    BY <1>1, Consumes
  <2>2. k + n \in 1 .. Len(s) + 1
    BY <1>1, Consumes
  <2> QED
    BY <2>1, <2>2 DEF y, x
<1>3. IsText(c) /\ C!IsCharacter(c) /\ C!Value(c) = cp
  BY AppendIs
<1>4. Same(w, d, x)
  BY DEF SameSoFar
<1> HIDE DEF c, x
<1>5. IsText(d \o c)
  BY <1>3, Joins
<1>6. Same(w, d \o c, x \o y)
  BY <1>3, <1>4, SameGrows
<1>7. SameSoFar("WcharToUtf8", w, s, k + n, d \o c)
  <2>1. (k + n) - 1 = k + n - 1
    BY <1>1
  <2>2. Same(w, d \o c, SubSeq(s, 1, (k + n) - 1))
    BY <1>2, <1>6, <2>1
  <2> QED
    BY <2>2, SameSoFarIs
<1> QED
  BY <1>2, <1>5, <1>7 DEF c, Inside

(***************************************************************************)
(* One element, or two, that are the code units of a code point.           *)
(***************************************************************************)
LEMMA OneUnit ==
  ASSUME NEW s, IsText(s), NEW k \in 1 .. Len(s)
  PROVE  SubSeq(s, k, k + 1 - 1) = <<s[k]>> /\ k + 1 - 1 <= Len(s)
<1> DEFINE c == SubSeq(s, k, k + 1 - 1)
<1>1. Len(s) \in Nat /\ k \in Nat \ {0} /\ s[k] \in Int
  BY TextIs
<1>2. k + 1 - 1 <= Len(s) /\ k + 1 - 1 = k
  BY <1>1
<1>3. IsText(c) /\ Len(c) = 1 /\ \A j \in 1 .. 1 : c[j] = s[k + j - 1]
  BY <1>1, <1>2, Piece
<1> HIDE DEF c
<1>4. c[1] = s[k]
  BY <1>1, <1>2, <1>3
<1>5. <<s[k]>> \in Seq(Int) /\ Len(<<s[k]>>) = 1 /\ <<s[k]>>[1] = s[k]
  BY <1>1
<1>6. c = <<s[k]>>
  BY <1>3, <1>4, <1>5, SeqEqual DEF IsText
<1> QED
  BY <1>2, <1>6 DEF c

LEMMA TwoUnits ==
  ASSUME NEW s, IsText(s), NEW k \in 1 .. Len(s), k < Len(s)
  PROVE  SubSeq(s, k, k + 2 - 1) = <<s[k], s[k + 1]>> /\ k + 2 - 1 <= Len(s)
<1> DEFINE c == SubSeq(s, k, k + 2 - 1)
           t == <<s[k], s[k + 1]>>
<1>1. Len(s) \in Nat /\ k \in Nat \ {0} /\ s[k] \in Int /\ s[k + 1] \in Int
  BY TextIs
<1>2. k + 2 - 1 <= Len(s) /\ k + 1 - 1 = k /\ k + 2 - 1 = k + 1
  BY <1>1
<1>3. IsText(c) /\ Len(c) = 2 /\ \A j \in 1 .. 2 : c[j] = s[k + j - 1]
  BY <1>1, <1>2, Piece
<1> HIDE DEF c
<1>4. c[1] = s[k] /\ c[2] = s[k + 1]
  BY <1>1, <1>2, <1>3
<1>5. t \in Seq(Int) /\ Len(t) = 2 /\ t[1] = s[k] /\ t[2] = s[k + 1]
  BY <1>1
<1> HIDE DEF t
<1>6. \A j \in 1 .. 2 : c[j] = t[j]
  BY <1>4, <1>5
<1>7. c = t
  BY <1>3, <1>5, <1>6, SeqEqual DEF IsText
<1> QED
  BY <1>2, <1>7 DEF c, t

(***************************************************************************)
(* The code units a round accepts, and those it refuses.                   *)
(***************************************************************************)
LEMMA LeadOrTrailing ==
  ASSUME NEW u
  PROVE  ~ (Lead(u) /\ Trailing(u))
  BY DEF Lead, Trailing

LEMMA UnitIs ==
  ASSUME NEW u \in Unsigned16
  PROVE  /\ C!mask16(u) = u /\ u \in Int
         /\ C!is_lead_surrogate(u) <=> Lead(u)
         /\ C!is_trail_surrogate(u) <=> Trailing(u)
         /\ C!is_code_point_valid(u) <=> ~ (Lead(u) \/ Trailing(u))
<1>1. C!mask16(u) = u /\ u \in Int
  BY DEF C!mask16, Unsigned16
<1>2. /\ C!is_lead_surrogate(u) <=> Lead(u)
      /\ C!is_trail_surrogate(u) <=> Trailing(u)
  BY DEF Unsigned16, C!is_lead_surrogate, C!is_trail_surrogate, Lead, Trailing, C!LEAD_SURROGATE_MIN,
         C!LEAD_SURROGATE_MAX, C!TRAIL_SURROGATE_MIN, C!TRAIL_SURROGATE_MAX
<1>3. C!is_code_point_valid(u) <=> ~ (Lead(u) \/ Trailing(u))
  BY DEF Unsigned16, C!is_code_point_valid, Lead, Trailing, C!LEAD_SURROGATE_MIN, C!TRAIL_SURROGATE_MAX,
         C!CODE_POINT_MAX
<1> QED
  BY <1>1, <1>2, <1>3

LEMMA WideUnit ==
  ASSUME NEW s, IsText(s), IsWide(s), NEW k \in 1 .. Len(s)
  PROVE  /\ C!mask16(s[k]) = s[k] /\ s[k] \in Int
         /\ C!is_lead_surrogate(s[k]) <=> Lead(s[k])
         /\ C!is_trail_surrogate(s[k]) <=> Trailing(s[k])
         /\ C!is_code_point_valid(s[k]) <=> ~ (Lead(s[k]) \/ Trailing(s[k]))
<1>1. PICK u \in Unsigned16 : u = s[k]
  BY DEF IsWide
<1> QED
  BY <1>1, UnitIs

LEMMA Valid32 ==
  ASSUME NEW s, NEW k \in Nat, ValidTo("WcharToUtf8", 4, s, k), C!is_code_point_valid(s[k])
  PROVE  ValidTo("WcharToUtf8", 4, s, k + 1)
<1>1. \A j \in 1 .. k - 1 : C!is_code_point_valid(s[j])
  BY DEF ValidTo
<1>2. ASSUME NEW j \in 1 .. (k + 1) - 1 PROVE C!is_code_point_valid(s[j])
  <2>1. j \in 1 .. k - 1 \/ j = k
    OBVIOUS
  <2> QED
    BY <1>1, <2>1
<1> QED
  BY <1>2 DEF ValidTo

LEMMA ValidUnit ==
  ASSUME NEW s, NEW k \in Nat, ValidTo("WcharToUtf8", 2, s, k), ~ Lead(s[k]), ~ Trailing(s[k])
  PROVE  ValidTo("WcharToUtf8", 2, s, k + 1)
<1>1. PairedTo(s, k)
  BY DEF ValidTo
<1>2. ASSUME NEW j \in 1 .. (k + 1) - 1
      PROVE  /\ Lead(s[j]) => j + 1 <= (k + 1) - 1 /\ Trailing(s[j + 1])
             /\ Trailing(s[j]) => j > 1 /\ Lead(s[j - 1])
  <2>1. j \in 1 .. k - 1 \/ j = k
    OBVIOUS
  <2>2. CASE j \in 1 .. k - 1
    <3>1. j + 1 <= k - 1 => j + 1 <= (k + 1) - 1
      OBVIOUS
    <3> QED
      BY <1>1, <2>2, <3>1 DEF PairedTo
  <2> QED
    BY <2>1, <2>2
<1>3. PairedTo(s, k + 1)
  BY <1>2 DEF PairedTo
<1> QED
  BY <1>3 DEF ValidTo

LEMMA ValidPair ==
  ASSUME NEW s, NEW k \in Nat \ {0}, ValidTo("WcharToUtf8", 2, s, k),
         Lead(s[k]), Trailing(s[k + 1])
  PROVE  ValidTo("WcharToUtf8", 2, s, k + 2)
<1>1. PairedTo(s, k)
  BY DEF ValidTo
<1>2. ~ Trailing(s[k]) /\ ~ Lead(s[k + 1])
  BY LeadOrTrailing
<1>3. ASSUME NEW j \in 1 .. (k + 2) - 1
      PROVE  /\ Lead(s[j]) => j + 1 <= (k + 2) - 1 /\ Trailing(s[j + 1])
             /\ Trailing(s[j]) => j > 1 /\ Lead(s[j - 1])
  <2>1. j \in 1 .. k - 1 \/ j = k \/ j = k + 1
    OBVIOUS
  <2>2. CASE j \in 1 .. k - 1
    <3>1. j + 1 <= k - 1 => j + 1 <= (k + 2) - 1
      OBVIOUS
    <3> QED
      BY <1>1, <2>2, <3>1 DEF PairedTo
  <2>3. CASE j = k
    <3>1. k + 1 <= (k + 2) - 1
      OBVIOUS
    <3> QED
      BY <1>2, <2>3, <3>1
  <2>4. CASE j = k + 1
    <3>1. j > 1 /\ j - 1 = k
      BY <2>4
    <3> QED
      BY <1>2, <2>4, <3>1
  <2> QED
    BY <2>1, <2>2, <2>3, <2>4
<1>4. PairedTo(s, k + 2)
  BY <1>3 DEF PairedTo
<1> QED
  BY <1>4 DEF ValidTo

(***************************************************************************)
(* Success means the whole is valid, refusal that it is not.               *)
(***************************************************************************)
Valid(w, s) ==
  IF w = 4
  THEN \A k \in 1 .. Len(s) : C!is_code_point_valid(s[k])
  ELSE \A k \in 1 .. Len(s) :
         /\ Lead(s[k]) => k < Len(s) /\ Trailing(s[k + 1])
         /\ Trailing(s[k]) => k > 1 /\ Lead(s[k - 1])

LEMMA ValidWhole ==
  ASSUME NEW w \in {2, 4}, NEW s, IsText(s), ValidTo("WcharToUtf8", w, s, Len(s) + 1)
  PROVE  Valid(w, s)
<1>1. Len(s) \in Nat /\ (Len(s) + 1) - 1 = Len(s) /\ \A j \in 1 .. Len(s) : s[j] \in Int
  BY TextIs
<1>2. CASE w = 4
  <2>1. \A j \in 1 .. Len(s) : C!is_code_point_valid(s[j])
    BY <1>1, <1>2 DEF ValidTo
  <2> QED
    BY <1>2, <2>1 DEF Valid
<1>3. CASE w = 2
  <2>1. \A j \in 1 .. Len(s) :
          /\ Lead(s[j]) => j + 1 <= Len(s) /\ Trailing(s[j + 1])
          /\ Trailing(s[j]) => j > 1 /\ Lead(s[j - 1])
    BY <1>1, <1>3 DEF ValidTo, PairedTo
  <2>2. \A j \in 1 .. Len(s) : j + 1 <= Len(s) => j < Len(s)
    BY <1>1
  <2> QED
    BY <1>3, <2>1, <2>2 DEF Valid
<1> QED
  BY <1>2, <1>3

LEMMA InvalidHere ==
  ASSUME NEW w \in {2, 4}, NEW s, IsText(s), NEW k \in 1 .. Len(s),
         ValidTo("WcharToUtf8", w, s, k), Refused("WcharToUtf8", w, s, k)
  PROVE  ~ Valid(w, s)
<1>1. Len(s) \in Nat /\ s[k] \in Int
  BY TextIs
<1>2. CASE w = 4
  <2>1. ~ C!is_code_point_valid(s[k])
    BY <1>2 DEF Refused
  <2> QED
    BY <1>2, <2>1 DEF Valid
<1>3. CASE w = 2
  <2>1. Lead(s[k]) \/ Trailing(s[k])
    BY <1>3 DEF Refused
  <2>2. ~ (Lead(s[k]) /\ k < Len(s) /\ Trailing(s[k + 1]))
    BY <1>3 DEF Refused
  <2>3. PairedTo(s, k)
    BY <1>3 DEF ValidTo
  <2> SUFFICES ASSUME Valid(2, s) PROVE FALSE
    BY <1>3
  <2>4. /\ Lead(s[k]) => k < Len(s) /\ Trailing(s[k + 1])
        /\ Trailing(s[k]) => k > 1 /\ Lead(s[k - 1])
    BY DEF Valid
  <2>5. Trailing(s[k]) /\ k > 1 /\ Lead(s[k - 1])
    BY <2>1, <2>2, <2>4
  <2>6. k - 1 \in 1 .. k - 1 /\ ~ ((k - 1) + 1 <= k - 1)
    BY <2>5
  <2> QED
    BY <2>3, <2>5, <2>6 DEF PairedTo
<1> QED
  BY <1>2, <1>3

(***************************************************************************)
(* Every action of the conversions preserves the invariant.                *)
(***************************************************************************)
SameCall == op' = op /\ wideSize' = wideSize /\ src' = src

\* What holds of a conversion in its loop.
InLoop ==
  /\ cpc = "convert" /\ wideSize \in {2, 4} /\ ret = TRUE
  /\ Source(op, wideSize, src) /\ IsText(src) /\ Inside(src, it) /\ IsText(dest)
  /\ SameSoFar(op, wideSize, src, it, dest) /\ ValidTo(op, wideSize, src, it)

LEMMA LoopIs ==
  ASSUME ConversionInv, cpc = "convert"
  PROVE  InLoop
<1>1. ret \in BOOLEAN /\ ret
  BY DEF ConversionInv
<1>2. ret = TRUE
  BY <1>1
<1> QED
  BY <1>2 DEF ConversionInv, InLoop, Source

LEMMA Converted ==
  ASSUME InLoop, SameCall, cpc' = "convert", ret' = ret, Inside(src, it'), IsText(dest'),
         SameSoFar(op, wideSize, src, it', dest'), ValidTo(op, wideSize, src, it')
  PROVE  ConversionInv'
<1>1. ret' \in BOOLEAN /\ ret'
  BY DEF InLoop
<1>2. /\ Source(op', wideSize', src') /\ Inside(src', it') /\ wideSize' \in {2, 4}
      /\ SameSoFar(op', wideSize', src', it', dest') /\ ValidTo(op', wideSize', src', it')
  BY DEF InLoop, SameCall
<1> QED
  BY <1>1, <1>2 DEF ConversionInv

LEMMA Over ==
  ASSUME InLoop, SameCall, cpc' = "return", ret' \in BOOLEAN, it' = it, dest' = dest,
         Ended(op, wideSize, src, it, ret')
  PROVE  ConversionInv'
<1>1. /\ Source(op', wideSize', src') /\ Inside(src', it') /\ IsText(dest')
      /\ SameSoFar(op', wideSize', src', it', dest') /\ ValidTo(op', wideSize', src', it')
      /\ Ended(op', wideSize', src', it', ret')
  BY DEF InLoop, SameCall
<1> QED
  BY <1>1 DEF ConversionInv

LEMMA BeginKeeps ==
  ASSUME ConversionInv, C!Begin
  PROVE  ConversionInv'
<1>1. /\ cpc = "begin" /\ Source(op, wideSize, src) /\ it = 1 /\ ret \in BOOLEAN /\ ret
      /\ IsText(src)
  BY DEF ConversionInv, C!Begin, Source
<1>2. /\ op' = op /\ wideSize' = wideSize /\ src' = src /\ it' = 1 /\ dest' = <<>>
      /\ IF wideSize \in {2, 4} THEN cpc' = "convert" /\ ret' = ret
                                ELSE cpc' = "return" /\ ret' = FALSE
  BY <1>1 DEF C!Begin, C!call
<1>3. /\ Inside(src', it') /\ SameSoFar(op', wideSize', src', it', dest')
      /\ ValidTo(op', wideSize', src', it')
  BY <1>1, <1>2, Begun
<1>4. Source(op', wideSize', src') /\ IsText(dest')
  BY <1>1, <1>2, EmptyText
<1>5. CASE wideSize \in {2, 4}
  <2>1. cpc' = "convert" /\ ret' \in BOOLEAN /\ ret' /\ wideSize' \in {2, 4}
    BY <1>1, <1>2, <1>5
  <2> QED
    BY <1>3, <1>4, <2>1 DEF ConversionInv
<1>6. CASE wideSize \notin {2, 4}
  <2>1. cpc' = "return" /\ ret' \in BOOLEAN /\ wideSize' = 1
    BY <1>1, <1>2, <1>6 DEF Source
  <2>2. Ended(op', wideSize', src', it', ret')
    BY <2>1 DEF Ended
  <2> QED
    BY <1>3, <1>4, <2>1, <2>2 DEF ConversionInv
<1> QED
  BY <1>5, <1>6

LEMMA DecodeKeeps ==
  ASSUME ConversionInv, C!Decode
  PROVE  ConversionInv'
<1> DEFINE n == C!sequence_length(src[it])
           cp == C!get_sequence(src, it, n)
           piece == IF wideSize = 2 THEN C!utf16(cp) ELSE <<cp>>
           e == C!validate_next(src, it)
<1>1. InLoop /\ op = "Utf8ToWchar" /\ it <= Len(src)
  BY LoopIs DEF C!Decode, C!InLoop
<1>2. IF e = "UTF8_OK" THEN C!Convert(n, piece) ELSE C!Throw
  BY DEF C!Decode
<1>3. IsOctets(src)
  BY <1>1 DEF InLoop, Source
<1>4. CASE e = "UTF8_OK"
  <2>1. C!Convert(n, piece)
    BY <1>2, <1>4
  <2>2. Inside(src, it + n) /\ IsText(dest \o piece)
        /\ SameSoFar("Utf8ToWchar", wideSize, src, it + n, dest \o piece)
    BY <1>1, <1>3, <1>4, Decoded DEF InLoop
  <2> HIDE DEF n, piece
  <2>3. /\ SameCall /\ cpc' = "convert" /\ ret' = ret
        /\ it' = it + n /\ dest' = dest \o piece
    BY <1>1, <2>1 DEF C!Convert, C!call, InLoop, SameCall
  <2>4. ValidTo(op, wideSize, src, it')
    BY <1>1 DEF ValidTo
  <2>5. /\ Inside(src, it') /\ IsText(dest')
        /\ SameSoFar(op, wideSize, src, it', dest')
    BY <1>1, <2>2, <2>3
  <2> QED
    BY <1>1, <2>3, <2>4, <2>5, Converted
<1>5. CASE e # "UTF8_OK"
  <2>1. C!Throw
    BY <1>2, <1>5
  <2>2. /\ SameCall /\ cpc' = "return" /\ ret' = FALSE /\ it' = it /\ dest' = dest
    BY <2>1 DEF C!Throw, C!call, SameCall
  <2>3. Refused(op, wideSize, src, it)
    BY <1>1, <1>5, <2>2 DEF Refused
  <2>4. Ended(op, wideSize, src, it, ret')
    BY <2>2, <2>3 DEF Ended
  <2> QED
    BY <1>1, <2>2, <2>4, Over
<1> QED
  BY <1>4, <1>5

\* A round that encodes the code point of n code units.
LEMMA EncodeKeeps ==
  ASSUME InLoop, op = "WcharToUtf8", NEW n \in Nat \ {0}, NEW cp \in Int,
         C!is_code_point_valid(cp), it + n - 1 <= Len(src),
         SubSeq(src, it, it + n - 1) = UnitOf(wideSize, cp), C!Convert(n, C!append(cp)),
         ValidTo("WcharToUtf8", wideSize, src, it + n)
  PROVE  ConversionInv'
<1>1. /\ Inside(src, it + n) /\ IsText(dest \o C!append(cp))
      /\ SameSoFar("WcharToUtf8", wideSize, src, it + n, dest \o C!append(cp))
  BY Encoded DEF InLoop
<1>2. /\ SameCall /\ cpc' = "convert" /\ ret' = ret
      /\ it' = it + n /\ dest' = dest \o C!append(cp)
  BY DEF C!Convert, C!call, InLoop, SameCall
<1>3. /\ Inside(src, it') /\ IsText(dest')
      /\ SameSoFar(op, wideSize, src, it', dest') /\ ValidTo(op, wideSize, src, it')
  BY <1>1, <1>2
<1> QED
  BY <1>2, <1>3, Converted

LEMMA Encode32Keeps ==
  ASSUME ConversionInv, C!Encode32
  PROVE  ConversionInv'
<1>1. InLoop /\ op = "WcharToUtf8" /\ wideSize = 4 /\ it <= Len(src)
  BY LoopIs DEF C!Encode32, C!InLoop
<1>2. IF C!is_code_point_valid(src[it]) THEN C!Convert(1, C!append(src[it]))
                                        ELSE C!Throw
  BY DEF C!Encode32
<1>3. IsText(src) /\ it \in 1 .. Len(src) /\ it \in Nat /\ src[it] \in Int
  <2>1. IsText(src) /\ it \in 1 .. Len(src) /\ it \in Nat
    BY <1>1, TextIs DEF InLoop, Inside
  <2> QED
    BY <2>1, TextIs
<1>4. CASE C!is_code_point_valid(src[it])
  <2>1. SubSeq(src, it, it + 1 - 1) = <<src[it]>> /\ it + 1 - 1 <= Len(src)
    BY <1>3, OneUnit
  <2>2. UnitOf(wideSize, src[it]) = <<src[it]>>
    BY <1>1 DEF UnitOf
  <2>3. ValidTo("WcharToUtf8", wideSize, src, it + 1)
    <3>1. ValidTo("WcharToUtf8", 4, src, it)
      BY <1>1 DEF InLoop
    <3>2. ValidTo("WcharToUtf8", 4, src, it + 1)
      BY <1>3, <1>4, <3>1, Valid32
    <3> QED
      BY <1>1, <3>2
  <2>4. C!Convert(1, C!append(src[it])) /\ 1 \in Nat \ {0}
    BY <1>2, <1>4
  <2> QED
    BY <1>1, <1>3, <1>4, <2>1, <2>2, <2>3, <2>4, EncodeKeeps
<1>5. CASE ~ C!is_code_point_valid(src[it])
  <2>1. C!Throw
    BY <1>2, <1>5
  <2>2. /\ SameCall /\ cpc' = "return" /\ ret' = FALSE /\ it' = it /\ dest' = dest
    BY <2>1 DEF C!Throw, C!call, SameCall
  <2>3. Refused(op, wideSize, src, it)
    BY <1>1, <1>5 DEF Refused
  <2>4. Ended(op, wideSize, src, it, ret')
    BY <2>2, <2>3 DEF Ended
  <2> QED
    BY <1>1, <2>2, <2>4, Over
<1> QED
  BY <1>4, <1>5

\* What a round of utf16to8 has before it.
LEMMA Loop16 ==
  ASSUME ConversionInv, C!InLoop("WcharToUtf8"), wideSize = 2
  PROVE  /\ InLoop /\ op = "WcharToUtf8" /\ IsText(src) /\ IsWide(src)
         /\ it \in 1 .. Len(src) /\ it \in Nat \ {0} /\ it <= Len(src)
         /\ ValidTo("WcharToUtf8", 2, src, it)
<1>1. InLoop /\ op = "WcharToUtf8" /\ it <= Len(src)
  BY LoopIs DEF C!InLoop
<1>2. IsText(src) /\ IsWide(src) /\ ValidTo("WcharToUtf8", 2, src, it) /\ Inside(src, it)
  BY <1>1 DEF InLoop, Source
<1>3. it \in 1 .. Len(src) /\ it \in Nat \ {0}
  BY <1>1, <1>2, TextIs DEF Inside
<1> QED
  BY <1>1, <1>2, <1>3

LEMMA EncodePairKeeps ==
  ASSUME ConversionInv, C!EncodePair
  PROVE  ConversionInv'
<1>1. /\ C!InLoop("WcharToUtf8") /\ wideSize = 2 /\ C!Paired(it)
      /\ C!Convert(2, C!append(C!Pair(C!mask16(src[it]), C!mask16(src[it + 1]))))
  BY DEF C!EncodePair
<1>2. /\ InLoop /\ op = "WcharToUtf8" /\ IsText(src) /\ IsWide(src)
      /\ it \in 1 .. Len(src) /\ it \in Nat \ {0} /\ ValidTo("WcharToUtf8", 2, src, it)
  BY <1>1, Loop16
<1>3. /\ C!is_lead_surrogate(C!mask16(src[it]))
      /\ it < Len(src) /\ C!is_trail_surrogate(C!mask16(src[it + 1]))
  BY <1>1 DEF C!Paired
<1>4. it + 1 \in 1 .. Len(src)
  BY <1>2, <1>3, TextIs
<1>5. /\ C!mask16(src[it]) = src[it] /\ src[it] \in Int
      /\ C!mask16(src[it + 1]) = src[it + 1] /\ src[it + 1] \in Int
      /\ Lead(src[it]) /\ Trailing(src[it + 1])
      /\ C!is_lead_surrogate(src[it]) /\ C!is_trail_surrogate(src[it + 1])
  BY <1>2, <1>3, <1>4, WideUnit
<1>6. PICK cp \in Int : cp = C!Pair(src[it], src[it + 1]) /\ C!is_code_point_valid(cp)
                        /\ UnitOf(2, cp) = <<src[it], src[it + 1]>>
  BY <1>5, PairIs
<1>7. SubSeq(src, it, it + 2 - 1) = <<src[it], src[it + 1]>> /\ it + 2 - 1 <= Len(src)
  BY <1>2, <1>3, TwoUnits
<1>8. ValidTo("WcharToUtf8", 2, src, it + 2)
  BY <1>2, <1>5, ValidPair
<1>9. C!Convert(2, C!append(cp)) /\ 2 \in Nat \ {0}
  BY <1>1, <1>5, <1>6
<1>10. SubSeq(src, it, it + 2 - 1) = UnitOf(wideSize, cp)
  BY <1>1, <1>6, <1>7
<1> QED
  BY <1>1, <1>2, <1>6, <1>7, <1>8, <1>9, <1>10, EncodeKeeps

LEMMA EncodeUnitKeeps ==
  ASSUME ConversionInv, C!EncodeUnit
  PROVE  ConversionInv'
<1>1. /\ C!InLoop("WcharToUtf8") /\ wideSize = 2 /\ C!is_code_point_valid(C!mask16(src[it]))
      /\ C!Convert(1, C!append(C!mask16(src[it])))
  BY DEF C!EncodeUnit
<1>2. /\ InLoop /\ op = "WcharToUtf8" /\ IsText(src) /\ IsWide(src)
      /\ it \in 1 .. Len(src) /\ it \in Nat \ {0} /\ ValidTo("WcharToUtf8", 2, src, it)
  BY <1>1, Loop16
<1>3. /\ C!mask16(src[it]) = src[it] /\ C!is_code_point_valid(src[it]) /\ src[it] \in Int
      /\ ~ Lead(src[it]) /\ ~ Trailing(src[it])
  BY <1>1, <1>2, WideUnit
<1>4. SubSeq(src, it, it + 1 - 1) = <<src[it]>> /\ it + 1 - 1 <= Len(src)
  BY <1>2, OneUnit
<1>5. UnitOf(wideSize, src[it]) = <<src[it]>>
  <2>1. ~ (src[it] >= 65536)
    <3>1. PICK u \in Unsigned16 : u = src[it]
      BY <1>2 DEF IsWide
    <3>2. ~ (u >= 65536)
      BY DEF Unsigned16
    <3> QED
      BY <3>1, <3>2
  <2> QED
    BY <2>1 DEF UnitOf
<1>6. ValidTo("WcharToUtf8", 2, src, it + 1)
  BY <1>2, <1>3, ValidUnit
<1>7. C!Convert(1, C!append(src[it])) /\ 1 \in Nat \ {0}
  BY <1>1, <1>3
<1> QED
  BY <1>1, <1>2, <1>3, <1>4, <1>5, <1>6, <1>7, EncodeKeeps

LEMMA LoneSurrogateKeeps ==
  ASSUME ConversionInv, C!LoneSurrogate
  PROVE  ConversionInv'
<1>1. /\ C!InLoop("WcharToUtf8") /\ wideSize = 2
      /\ ~ C!Paired(it) /\ ~ C!is_code_point_valid(C!mask16(src[it]))
      /\ C!Throw
  BY DEF C!LoneSurrogate
<1>2. /\ InLoop /\ op = "WcharToUtf8" /\ IsText(src) /\ IsWide(src)
      /\ it \in 1 .. Len(src) /\ it \in Nat \ {0} /\ it <= Len(src)
  BY <1>1, Loop16
<1>3. Lead(src[it]) \/ Trailing(src[it])
  BY <1>1, <1>2, WideUnit
<1>4. ~ (Lead(src[it]) /\ it < Len(src) /\ Trailing(src[it + 1]))
  <2> SUFFICES ASSUME Lead(src[it]), it < Len(src), Trailing(src[it + 1]) PROVE C!Paired(it)
    BY <1>1
  <2>1. it + 1 \in 1 .. Len(src)
    BY <1>2, TextIs
  <2>2. /\ C!is_lead_surrogate(C!mask16(src[it]))
        /\ C!is_trail_surrogate(C!mask16(src[it + 1]))
    BY <1>2, <2>1, WideUnit
  <2> QED
    BY <2>2 DEF C!Paired
<1>5. /\ SameCall /\ cpc' = "return" /\ ret' = FALSE /\ it' = it /\ dest' = dest
  BY <1>1 DEF C!Throw, C!call, SameCall
<1>6. Refused(op, wideSize, src, it)
  BY <1>1, <1>2, <1>3, <1>4 DEF Refused
<1>7. Ended(op, wideSize, src, it, ret')
  BY <1>5, <1>6 DEF Ended
<1> QED
  BY <1>2, <1>5, <1>7, Over

LEMMA ReturnKeeps ==
  ASSUME ConversionInv, C!Return
  PROVE  ConversionInv'
<1>1. InLoop /\ it > Len(src)
  BY LoopIs DEF C!Return
<1>2. /\ SameCall /\ cpc' = "return" /\ ret' = ret /\ it' = it /\ dest' = dest
  BY DEF C!Return, C!call, SameCall
<1>3. it = Len(src) + 1 /\ ret' = TRUE
  BY <1>1, <1>2, TextIs DEF InLoop, Inside
<1>4. Ended(op, wideSize, src, it, ret')
  BY <1>3 DEF Ended
<1> QED
  BY <1>1, <1>2, <1>3, <1>4, Over

(***************************************************************************)
(* The invariant holds of every reachable state: a conversion's own steps  *)
(* preserve it, and no other routine writes its variables.                 *)
(***************************************************************************)
LEMMA StartsWithInv == Init => ConversionInv
<1> SUFFICES ASSUME Init PROVE ConversionInv
  OBVIOUS
<1>1. C!Init \/ cpc = "none"
  BY DEF Init, NoConversion
<1>2. CASE cpc = "none"
  BY <1>2 DEF ConversionInv
<1>3. CASE C!Init
  <2>1. /\ wideSize \in WideSizes /\ it = 1 /\ ret = TRUE /\ cpc = "begin"
        /\ dest = <<0>>
        /\ \/ op = "Utf8ToWchar" /\ src \in OctetStrings
           \/ op = "WcharToUtf8" /\ src \in WideStrings /\ \A k \in 1 .. Len(src) : C!IsWchar(src[k])
    BY <1>3 DEF C!Init
  <2>2. wideSize \in {1, 2, 4} /\ IsText(dest)
    BY <2>1, ConversionsAssumption DEF IsText
  <2>3. CASE op = "Utf8ToWchar" /\ src \in OctetStrings
    <3>1. IsOctets(src) /\ IsText(src)
      BY <2>3, ConversionsAssumption, OctetsAreText DEF IsOctets
    <3>2. Source(op, wideSize, src)
      BY <2>2, <2>3, <3>1 DEF Source
    <3> QED
      BY <2>1, <2>2, <3>1, <3>2, Begun DEF ConversionInv
  <2>4. CASE op = "WcharToUtf8" /\ src \in WideStrings /\ \A k \in 1 .. Len(src) : C!IsWchar(src[k])
    <3>1. IsText(src)
      BY <2>4, ConversionsAssumption DEF IsText
    <3>2. wideSize = 2 => IsWide(src)
      <4>1. \A u \in Int : wideSize = 2 /\ C!IsWchar(u) => u \in Unsigned16
        BY DEF C!IsWchar, Unsigned16
      <4> QED
        BY <2>4, <3>1, <4>1, TextIs DEF IsWide
    <3>3. Source(op, wideSize, src)
      BY <2>2, <2>4, <3>1, <3>2 DEF Source
    <3> QED
      BY <2>1, <2>2, <3>1, <3>3, Begun DEF ConversionInv
  <2> QED
    BY <2>1, <2>3, <2>4
<1> QED
  BY <1>1, <1>2, <1>3

LEMMA StepKeepsInv == ConversionInv /\ [Next]_vars => ConversionInv'
<1> SUFFICES ASSUME ConversionInv, [Next]_vars PROVE ConversionInv'
  OBVIOUS
<1>1. C!Next \/ UNCHANGED conversion
  BY DEF Next, vars
<1>2. CASE C!Next
  BY <1>2, BeginKeeps, DecodeKeeps, Encode32Keeps, EncodePairKeeps, EncodeUnitKeeps,
     LoneSurrogateKeeps, ReturnKeeps DEF C!Next
<1>3. CASE UNCHANGED conversion
  BY <1>3 DEF conversion, ConversionInv
<1> QED
  BY <1>1, <1>2, <1>3

LEMMA ConversionInvHolds == Spec => []ConversionInv
  BY StartsWithInv, StepKeepsInv, PTL DEF Spec

(***************************************************************************)
(* What the invariant says of text that was refused.                       *)
(***************************************************************************)
LEMMA Refusal ==
  ASSUME NEW w, NEW s, IsOctets(s), NEW k \in 1 .. Len(s), NEW d,
         Same(w, SubSeq(s, 1, k - 1), d), C!validate_next(s, k) # "UTF8_OK"
  PROVE  C!WellFormedTo(s) = k - 1
<1> DEFINE x == SubSeq(s, 1, k - 1)
<1>1. IsText(s) /\ Len(s) \in Nat /\ k \in Nat \ {0}
  BY OctetsAreText, TextIs
<1>2. C!CharacterAt(s, k) = 0
  <2> SUFFICES ASSUME C!CharacterAt(s, k) # 0 PROVE FALSE
    OBVIOUS
  <2>1. PICK n : n = C!CharacterAt(s, k)
    OBVIOUS
  <2>2. n \in 1 .. 4 /\ Fits(s, k, n)
    BY <1>1, <2>1, CharacterAtIs
  <2>3. n \in Nat \ {0} /\ n \in 0 .. 4 /\ n # 0
    BY <2>2
  <2>4. n = C!sequence_length(s[k])
    BY <1>1, <2>2, <2>3, FitsLength
  <2>5. k + n - 1 <= Len(s) /\ C!IsCharacter(SubSeq(s, k, k + n - 1))
    BY <2>2 DEF Fits
  <2> QED
    BY <2>3, <2>4, <2>5, Validates
<1>3. IsText(x) /\ Len(x) = k - 1 /\ \A j \in 1 .. k - 1 : x[j] = s[j]
  <2>1. PICK h \in 0 .. Len(s) : h = k - 1
    BY <1>1
  <2>2. \A j \in 1 .. h : s[j] \in Int
    BY <1>1, <2>1, TextIs
  <2>3. /\ SubSeq(s, 1, h) \in Seq(Int) /\ Len(SubSeq(s, 1, h)) = h - 1 + 1
        /\ \A j \in 1 .. h - 1 + 1 : SubSeq(s, 1, h)[j] = s[1 + j - 1]
    <3>1. 1 <= h => SubSeq(s, 1, h) \in Seq(Int)
      BY <2>1, <2>2, SubSeqProperties
    <3> QED
      BY <2>1, <2>2, SubSeqProperties
  <2>4. h - 1 + 1 = h /\ \A j \in 1 .. h : 1 + j - 1 = j
    BY <2>1
  <2> QED
    BY <2>1, <2>3, <2>4 DEF IsText
<1>4. C!WellFormedTo(x) = Len(x)
  BY DEF Same
<1> HIDE DEF x
<1>5. BeginsWith(s, x)
  BY <1>1, <1>3 DEF BeginsWith
<1>6. Len(x) + 1 = k
  BY <1>1, <1>3
<1> QED
  BY <1>1, <1>2, <1>3, <1>4, <1>5, <1>6, Stops

LEMMA WholeText ==
  ASSUME NEW s, IsText(s)
  PROVE  SubSeq(s, 1, (Len(s) + 1) - 1) = s
<1>1. (Len(s) + 1) - 1 = Len(s)
  BY TextIs
<1>2. SubSeq(s, 1, Len(s)) = s
  BY SubSeqProperties DEF IsText
<1> QED
  BY <1>1, <1>2

LEMMA UnitsBridge ==
  ASSUME NEW v
  PROVE  C!Units(v) = UnitsOf(wideSize, v)
  BY DEF C!Units, UnitsOf, UnitOf

\* The ranges of code units, as the reference writes them.
Scalar(u)   == 0 <= u /\ u <= 1114111 /\ u \notin 55296 .. 57343
HighUnit(u) == u \in 55296 .. 56319
LowUnit(u)  == u \in 56320 .. 57343

LEMMA IntervalIs ==
  ASSUME NEW u, NEW a \in Int, NEW b \in Int
  PROVE  u \in a .. b <=> u \in Int /\ a <= u /\ u <= b
  OBVIOUS

LEMMA HighLow ==
  ASSUME NEW u
  PROVE  (HighUnit(u) <=> Lead(u)) /\ (LowUnit(u) <=> Trailing(u))
<1>1. HighUnit(u) <=> Lead(u)
  BY IntervalIs DEF HighUnit, Lead
<1>2. LowUnit(u) <=> Trailing(u)
  BY IntervalIs DEF LowUnit, Trailing
<1> QED
  BY <1>1, <1>2

LEMMA ScalarIs ==
  ASSUME NEW u \in Int
  PROVE  Scalar(u) <=> C!is_code_point_valid(u)
<1>1. u \in 55296 .. 57343 <=> 55296 <= u /\ u <= 57343
  BY IntervalIs
<1>2. C!is_code_point_valid(u) <=> 0 <= u /\ u <= 1114111 /\ ~ (55296 <= u /\ u <= 57343)
  BY DEF C!is_code_point_valid, C!LEAD_SURROGATE_MIN, C!TRAIL_SURROGATE_MAX, C!CODE_POINT_MAX
<1> QED
  BY <1>1, <1>2 DEF Scalar

LEMMA ValidIs ==
  ASSUME NEW s, IsText(s), wideSize \in {2, 4}
  PROVE  C!IsValidWide(s) <=> Valid(wideSize, s)
<1>1. C!IsValidWide(s) <=>
        IF wideSize = 4
        THEN \A k \in 1 .. Len(s) : Scalar(s[k])
        ELSE \A k \in 1 .. Len(s) :
               /\ HighUnit(s[k]) => k < Len(s) /\ LowUnit(s[k + 1])
               /\ LowUnit(s[k]) => k > 1 /\ HighUnit(s[k - 1])
  BY DEF C!IsValidWide, Scalar, HighUnit, LowUnit
<1>2. \A k \in 1 .. Len(s) : Scalar(s[k]) <=> C!is_code_point_valid(s[k])
  BY TextIs, ScalarIs
<1>3. CASE wideSize = 4
  BY <1>1, <1>2, <1>3 DEF Valid
<1>4. CASE wideSize # 4
  BY <1>1, <1>4, HighLow DEF Valid
<1> QED
  BY <1>3, <1>4

LEMMA InvSameText == ConversionInv => SameText
<1> SUFFICES ASSUME ConversionInv, cpc # "none", cpc # "begin"
             PROVE  C!WellFormedTo(C!Octets) = Len(C!Octets) /\ C!Units(C!Values(C!Octets)) = C!Wide
  BY DEF SameText, C!SameText
<1>1. SameSoFar(op, wideSize, src, it, dest) /\ op \in {"Utf8ToWchar", "WcharToUtf8"}
  BY DEF ConversionInv, Source
<1>2. Same(wideSize, C!Octets, C!Wide)
  <2>1. CASE op = "Utf8ToWchar"
    <3>1. C!Octets = SubSeq(src, 1, it - 1) /\ C!Wide = dest
      BY <2>1 DEF C!Octets, C!Wide, C!Consumed
    <3> QED
      BY <1>1, <2>1, <3>1, SameSoFarIs
  <2>2. CASE op = "WcharToUtf8"
    <3>1. C!Wide = SubSeq(src, 1, it - 1) /\ C!Octets = dest
      BY <2>2 DEF C!Octets, C!Wide, C!Consumed
    <3> QED
      BY <1>1, <2>2, <3>1, SameSoFarIs
  <2> QED
    BY <1>1, <2>1, <2>2
<1> QED
  BY <1>2, UnitsBridge DEF Same

(***************************************************************************)
(* Utf8ToWchar and WcharToUtf8 leave in dest the exact conversion of what  *)
(* they consumed, at every round and when they give up (Utilities.cpp:300, *)
(* 318, 364), whatever the text and whatever dest held before.             *)
(***************************************************************************)
THEOREM SameTextCorrect == Spec => []SameText
  BY ConversionInvHolds, InvSameText, PTL

\* A conversion that is over and was not refused for its wideSize.
LEMMA OverIs ==
  ASSUME ConversionInv, cpc = "return", wideSize # 1
  PROVE  /\ op \in {"Utf8ToWchar", "WcharToUtf8"} /\ wideSize \in {2, 4} /\ IsText(src)
         /\ op = "Utf8ToWchar" => IsOctets(src)
         /\ ret \in BOOLEAN /\ Inside(src, it)
         /\ SameSoFar(op, wideSize, src, it, dest) /\ ValidTo(op, wideSize, src, it)
         /\ ret => it = Len(src) + 1
         /\ ~ ret => Refused(op, wideSize, src, it) /\ it \in 1 .. Len(src)
<1>1. /\ Source(op, wideSize, src) /\ Inside(src, it) /\ ret \in BOOLEAN
      /\ SameSoFar(op, wideSize, src, it, dest) /\ ValidTo(op, wideSize, src, it)
      /\ Ended(op, wideSize, src, it, ret)
  BY DEF ConversionInv
<1>2. /\ op \in {"Utf8ToWchar", "WcharToUtf8"} /\ wideSize \in {2, 4} /\ IsText(src)
      /\ op = "Utf8ToWchar" => IsOctets(src)
  BY <1>1 DEF Source
<1>3. ret => it = Len(src) + 1
  BY <1>1 DEF Ended
<1>4. ~ ret => Refused(op, wideSize, src, it)
  BY <1>1 DEF Ended
<1>5. ~ ret => it \in 1 .. Len(src)
  <2>1. ~ ret => it <= Len(src)
    BY <1>4 DEF Refused
  <2> QED
    BY <1>1, <1>2, <2>1, TextIs DEF Inside
<1> QED
  BY <1>1, <1>2, <1>3, <1>4, <1>5

\* A decoding that was refused stopped where its text stops being well-formed.
LEMMA RefusedOctets ==
  ASSUME ConversionInv, cpc = "return", wideSize # 1, op = "Utf8ToWchar", ~ ret
  PROVE  /\ IsOctets(src) /\ it \in 1 .. Len(src) /\ C!WellFormedTo(src) = it - 1
         /\ Same(wideSize, SubSeq(src, 1, it - 1), dest)
<1>1. /\ IsOctets(src) /\ it \in 1 .. Len(src) /\ Refused("Utf8ToWchar", wideSize, src, it)
      /\ SameSoFar("Utf8ToWchar", wideSize, src, it, dest)
  BY OverIs
<1>2. C!validate_next(src, it) # "UTF8_OK"
  BY <1>1 DEF Refused
<1>3. Same(wideSize, SubSeq(src, 1, it - 1), dest)
  BY <1>1, SameSoFarIs
<1> QED
  BY <1>1, <1>2, <1>3, Refusal

LEMMA ConvertedOctets ==
  ASSUME ConversionInv, cpc = "return", wideSize # 1, op = "Utf8ToWchar", ret
  PROVE  C!WellFormedTo(src) = Len(src) /\ Same(wideSize, src, dest)
<1>1. /\ IsText(src) /\ it = Len(src) + 1
      /\ SameSoFar("Utf8ToWchar", wideSize, src, it, dest)
  BY OverIs
<1>2. Same(wideSize, SubSeq(src, 1, (Len(src) + 1) - 1), dest)
  BY <1>1, SameSoFarIs
<1>3. Same(wideSize, src, dest)
  BY <1>1, <1>2, WholeText
<1> QED
  BY <1>3 DEF Same

LEMMA InvAcceptsExactly == ConversionInv => AcceptsExactly
<1> SUFFICES ASSUME ConversionInv, cpc = "return", wideSize # 1
             PROVE  ret <=> IF op = "Utf8ToWchar" THEN C!WellFormedTo(src) = Len(src)
                                                  ELSE C!IsValidWide(src)
  BY DEF AcceptsExactly, C!AcceptsExactly
<1>1. /\ op \in {"Utf8ToWchar", "WcharToUtf8"} /\ wideSize \in {2, 4} /\ IsText(src)
      /\ ret \in BOOLEAN
  BY OverIs
<1>2. CASE op = "Utf8ToWchar"
  <2>1. ret => C!WellFormedTo(src) = Len(src)
    BY <1>2, ConvertedOctets
  <2>2. ~ ret => C!WellFormedTo(src) # Len(src)
    <3> SUFFICES ASSUME ~ ret PROVE C!WellFormedTo(src) # Len(src)
      OBVIOUS
    <3>1. it \in 1 .. Len(src) /\ C!WellFormedTo(src) = it - 1 /\ Len(src) \in Nat
      BY <1>1, <1>2, RefusedOctets, TextIs
    <3> QED
      BY <3>1
  <2> QED
    BY <1>2, <2>1, <2>2
<1>3. CASE op = "WcharToUtf8"
  <2>1. ValidTo("WcharToUtf8", wideSize, src, it)
    BY <1>3, OverIs
  <2>2. ASSUME ret PROVE Valid(wideSize, src)
    <3>1. it = Len(src) + 1
      BY <2>2, OverIs
    <3> QED
      BY <1>1, <2>1, <3>1, ValidWhole
  <2>3. ASSUME ~ ret PROVE ~ Valid(wideSize, src)
    <3>1. Refused("WcharToUtf8", wideSize, src, it) /\ it \in 1 .. Len(src)
      BY <1>3, <2>3, OverIs
    <3> QED
      BY <1>1, <2>1, <3>1, InvalidHere
  <2>4. C!IsValidWide(src) <=> Valid(wideSize, src)
    BY <1>1, ValidIs
  <2> QED
    BY <1>3, <2>2, <2>3, <2>4
<1> QED
  BY <1>1, <1>2, <1>3

(***************************************************************************)
(* A conversion succeeds for well-formed text and for nothing else: UTF-8  *)
(* as the Unicode standard's table has it, UTF-16 with its surrogates in   *)
(* pairs, UTF-32 of scalar values.                                         *)
(***************************************************************************)
THEOREM AcceptsExactlyCorrect == Spec => []AcceptsExactly
  BY ConversionInvHolds, InvAcceptsExactly, PTL

LEMMA InvCutAtCharacter == ConversionInv => CutAtCharacter
<1> DEFINE whole == SubSeq(src, 1, C!WellFormedTo(src))
<1> SUFFICES ASSUME ConversionInv, cpc = "return", wideSize # 1, op = "Utf8ToWchar"
             PROVE  dest = C!Units(C!Values(whole))
  BY DEF CutAtCharacter, C!CutAtCharacter
<1>1. Same(wideSize, whole, dest)
  <2>1. CASE ret
    <3>1. C!WellFormedTo(src) = Len(src) /\ Same(wideSize, src, dest)
      BY <2>1, ConvertedOctets
    <3>2. SubSeq(src, 1, Len(src)) = src
      BY OverIs, SubSeqProperties DEF IsText
    <3> QED
      BY <3>1, <3>2
  <2>2. CASE ~ ret
    BY <2>2, RefusedOctets
  <2> QED
    BY <2>1, <2>2
<1> QED
  BY <1>1, UnitsBridge DEF Same

(***************************************************************************)
(* Text that ends inside a character (the comment at Utilities.cpp:278-280)*)
(* or is malformed is converted up to the first character that is cut or   *)
(* malformed, for every text of any length.                                *)
(***************************************************************************)
THEOREM CutAtCharacterCorrect == Spec => []CutAtCharacter
  BY ConversionInvHolds, InvCutAtCharacter, PTL
=============================================================================
