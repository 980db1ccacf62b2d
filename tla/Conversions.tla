----------------------------- MODULE Conversions -----------------------------
(***************************************************************************)
(* Utf8ToWchar and WcharToUtf8: one call, which converts src into dest one *)
(* code point at a time over the library Utf8 and returns whether all of   *)
(* it could be converted.  AnyStringToWchar and AnyStringToUtf8 make the   *)
(* same call and ignore what it returns, so what is left in dest matters.  *)
(***************************************************************************)
EXTENDS Utf8

CONSTANTS
  OctetStrings,  \* what a program converts from UTF-8
  WideStrings,   \* what it converts to UTF-8
  WideSizes      \* sizeof (wchar_t), which the platform chooses

VARIABLES
  op, wideSize, src,
  it,     \* the position the loop has reached in src
  dest,
  ret,    \* what the call returns
  pc

vars == <<op, wideSize, src, it, dest, ret, pc>>
call == <<op, wideSize, src>>

\* What a wchar_t can hold: two bytes are unsigned, four may be negative.
IsWchar(u) == wideSize = 2 => 0 <= u /\ u <= 65535

\* dest is the caller's string and may hold anything.
Init ==
  /\ wideSize \in WideSizes
  /\ \/ op = "Utf8ToWchar" /\ src \in OctetStrings
     \/ op = "WcharToUtf8" /\ src \in WideStrings /\ \A k \in 1 .. Len(src) : IsWchar(src[k])
  /\ it = 1
  /\ dest = <<0>>
  /\ ret = TRUE
  /\ pc = "begin"

\* Utf8ToWchar converts a null src as an empty one; its callers that first take
\* the length of src cannot be given one.
Begin_NoClear ==
  /\ pc = "begin"
  /\ IF wideSize \in {2, 4} THEN pc' = "convert" /\ UNCHANGED ret
                            ELSE pc' = "return" /\ ret' = FALSE
  /\ UNCHANGED <<call, it, dest>>

Begin ==
  /\ pc = "begin"
  /\ dest' = <<>>
  /\ IF wideSize \in {2, 4} THEN pc' = "convert" /\ UNCHANGED ret
                            ELSE pc' = "return" /\ ret' = FALSE
  /\ UNCHANGED <<call, it>>

\* The exception caught inside the loop, which then tries again.
Throw_InLoop ==
  /\ ret' = FALSE
  /\ UNCHANGED <<call, it, dest, pc>>

\* A failure that gives the caller an empty string.
Throw_Clears ==
  /\ dest' = <<>>
  /\ ret' = FALSE
  /\ pc' = "return"
  /\ UNCHANGED <<call, it>>

\* utf8::exception is caught by value, which drops what the derived exception
\* knows: neither the caller nor the log is told why the conversion failed.
Throw ==
  /\ ret' = FALSE
  /\ pc' = "return"
  /\ UNCHANGED <<call, it, dest>>

\* One round of a conversion loop: n elements of src become piece.
Convert(n, piece) ==
  /\ dest' = dest \o piece
  /\ it' = it + n
  /\ UNCHANGED <<call, ret, pc>>

InLoop(o) == pc = "convert" /\ op = o /\ it <= Len(src)

(***************************************************************************)
(* utf8to16 and utf8to32                                                   *)
(***************************************************************************)
Decode ==
  /\ InLoop("Utf8ToWchar")
  /\ LET length == sequence_length(src[it])
         cp     == get_sequence(src, it, length)
     IN  IF validate_next(src, it) = "UTF8_OK"
         THEN Convert(length, IF wideSize = 2 THEN utf16(cp) ELSE <<cp>>)
         ELSE Throw

(***************************************************************************)
(* utf32to8                                                                *)
(***************************************************************************)
Encode32 ==
  /\ InLoop("WcharToUtf8") /\ wideSize = 4
  /\ IF is_code_point_valid(src[it])
     THEN Convert(1, append(src[it]))
     ELSE Throw

(***************************************************************************)
(* utf16to8                                                                *)
(***************************************************************************)
mask16(u) == u % 65536

Paired(k) ==
  /\ is_lead_surrogate(mask16(src[k]))
  /\ k < Len(src) /\ is_trail_surrogate(mask16(src[k + 1]))

EncodePair ==
  /\ InLoop("WcharToUtf8") /\ wideSize = 2
  /\ Paired(it)
  /\ Convert(2, append(Pair(mask16(src[it]), mask16(src[it + 1]))))

EncodeUnit ==
  /\ InLoop("WcharToUtf8") /\ wideSize = 2
  /\ is_code_point_valid(mask16(src[it]))
  /\ Convert(1, append(mask16(src[it])))

LoneSurrogate ==
  /\ InLoop("WcharToUtf8") /\ wideSize = 2
  /\ ~ Paired(it) /\ ~ is_code_point_valid(mask16(src[it]))
  /\ Throw

Return ==
  /\ pc = "convert"
  /\ it > Len(src)
  /\ pc' = "return"
  /\ UNCHANGED <<call, it, dest, ret>>

Next ==
  \/ Begin \/ Decode \/ Encode32 \/ EncodePair \/ EncodeUnit \/ LoneSurrogate
  \/ Return

-----------------------------------------------------------------------------
(***************************************************************************)
(* Reference: the well-formed byte sequences of the Unicode standard (its  *)
(* table 3-7), what they stand for, and UTF-16.                            *)
(***************************************************************************)
Trail == 128 .. 191

WellFormedRows ==
  { <<0 .. 127>>,
    <<194 .. 223, Trail>>,
    <<{224}, 160 .. 191, Trail>>,
    <<(225 .. 239) \ {237}, Trail, Trail>>,
    <<{237}, 128 .. 159, Trail>>,
    <<{240}, 144 .. 191, Trail, Trail>>,
    <<241 .. 243, Trail, Trail, Trail>>,
    <<{244}, 128 .. 143, Trail, Trail>> }

Begins(s, row) == Len(s) <= Len(row) /\ \A k \in 1 .. Len(s) : s[k] \in row[k]

IsCharacter(s) == \E row \in WellFormedRows : Len(s) = Len(row) /\ Begins(s, row)

Value(s) ==
  CASE Len(s) = 1 -> s[1]
    [] Len(s) = 2 -> (s[1] - 192) * 64 + s[2] - 128
    [] Len(s) = 3 -> (s[1] - 224) * 4096 + (s[2] - 128) * 64 + s[3] - 128
    [] Len(s) = 4 -> (s[1] - 240) * 262144 + (s[2] - 128) * 4096
                       + (s[3] - 128) * 64 + s[4] - 128

\* The length of the well-formed character at position k, 0 if there is none.
CharacterAt(s, k) ==
  LET fits == {n \in 1 .. 4 : k + n - 1 <= Len(s) /\ IsCharacter(SubSeq(s, k, k + n - 1))}
  IN  IF fits = {} THEN 0 ELSE CHOOSE n \in fits : TRUE

\* How far s is well-formed, and the code points of s that far.
WellFormedTo(s) ==
  LET end[k \in 1 .. Len(s) + 1] ==
        IF k > Len(s) \/ CharacterAt(s, k) = 0 THEN k - 1 ELSE end[k + CharacterAt(s, k)]
  IN  end[1]

Values(s) ==
  LET cps[k \in 1 .. Len(s) + 1] ==
        IF k > Len(s) \/ CharacterAt(s, k) = 0 THEN <<>>
        ELSE <<Value(SubSeq(s, k, k + CharacterAt(s, k) - 1))>> \o cps[k + CharacterAt(s, k)]
  IN  cps[1]

Units(cps) ==
  LET units[k \in 0 .. Len(cps)] ==
        IF k = 0 THEN <<>>
        ELSE units[k - 1] \o
               IF wideSize = 2 /\ cps[k] >= 65536
               THEN <<55296 + ((cps[k] - 65536) \div 1024), 56320 + ((cps[k] - 65536) % 1024)>>
               ELSE <<cps[k]>>
  IN  units[Len(cps)]

IsValidWide(s) ==
  IF wideSize = 4
  THEN \A k \in 1 .. Len(s) : 0 <= s[k] /\ s[k] <= 1114111 /\ s[k] \notin 55296 .. 57343
  ELSE \A k \in 1 .. Len(s) :
         /\ s[k] \in 55296 .. 56319 => k < Len(s) /\ s[k + 1] \in 56320 .. 57343
         /\ s[k] \in 56320 .. 57343 => k > 1 /\ s[k - 1] \in 55296 .. 56319

-----------------------------------------------------------------------------
Consumed == SubSeq(src, 1, it - 1)
Octets == IF op = "Utf8ToWchar" THEN Consumed ELSE dest
Wide   == IF op = "Utf8ToWchar" THEN dest ELSE Consumed

(***************************************************************************)
(* At every round, and so also when the conversion gives up and its caller *)
(* does not look (Utilities.cpp:300, 318, 364), dest is the exact          *)
(* conversion of what was consumed: nothing of an earlier string, no       *)
(* overlong, cut or surrogate character, and no wrong code point.          *)
(***************************************************************************)
SameText ==
  pc # "begin" => WellFormedTo(Octets) = Len(Octets) /\ Units(Values(Octets)) = Wide

(***************************************************************************)
(* A conversion succeeds for well-formed text only, and for all of it.     *)
(***************************************************************************)
AcceptsExactly ==
  pc = "return" /\ wideSize # 1 =>
    (ret <=> IF op = "Utf8ToWchar" THEN WellFormedTo(src) = Len(src) ELSE IsValidWide(src))

(***************************************************************************)
(* The comment at Utilities.cpp:278-280: a packet may end in the middle of *)
(* a character, and the caller of the failed conversion waits for the next *)
(* one.  All he gets is the string: it holds every character before the    *)
(* one that is cut or malformed, however far that is, and so tells him     *)
(* where in his packet that character begins.                              *)
(***************************************************************************)
CutAtCharacter ==
  pc = "return" /\ wideSize # 1 /\ op = "Utf8ToWchar" =>
    dest = Units(Values(SubSeq(src, 1, WellFormedTo(src))))

=============================================================================
