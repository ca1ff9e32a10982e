------------------------------ MODULE SmbText ------------------------------
(***************************************************************************)
(* Names and passwords are UTF-8 in the program and UTF-16 on the wire:    *)
(* the two conversions of unicode.c.  A string is a sequence of bytes, none *)
(* of them 0, or of 16-bit units; past its end there is a 0.               *)
(***************************************************************************)
EXTENDS Naturals, Sequences, FiniteSets, SequencesExt

CONSTANTS
  Bytes,             \* bytes that strings are made of
  Units              \* 16-bit units that strings are made of

ASSUME TextAssumption == Bytes \subseteq 1 .. 255 /\ Units \subseteq 1 .. 65535

ByteAt(s, i) == IF i \in DOMAIN s THEN s[i] ELSE 0

\* The 1 bits a byte begins with.
l1(c) == Cardinality({t \in {128, 192, 224, 240, 248, 252, 254, 255} : c >= t})

Surrogate(code) == code \in 55296 .. 57343
Leading(code) == code \in 55296 .. 56319
Trailing(code) == code \in 56320 .. 57343

\* The units of a code point, none when there is no such code point.
UnitsOf(cp) ==
  IF cp > 1114111 \/ Surrogate(cp) THEN <<>>
  ELSE IF cp < 65536 THEN <<cp>>
  ELSE <<55296 + (cp - 65536) \div 1024, 56320 + (cp % 1024)>>

\* The least code point that may be spelt in so many bytes.
Shortest(l) == <<0, 128, 2048, 65536>>[l]
AnyLength(l) == 0                                        \* mutant of Shortest

\* The units of the code point at i, and where the next one begins.
validate_utf8_cp(s, i) ==
  LET l == l1(s[i])
      spelt == \A k \in 1 .. l - 1 : l1(ByteAt(s, i + k)) = 1
      cp == FoldLeft(LAMBDA n, c : 64 * n + (c % 64), s[i] % 2 ^ (7 - l),
                     SubSeq(s, i + 1, i + l - 1))
  IN IF l = 0 THEN [units |-> <<s[i]>>, next |-> i + 1]
     ELSE IF l \in 2 .. 4 /\ spelt /\ cp >= Shortest(l)
          THEN [units |-> UnitsOf(cp), next |-> i + l]
     ELSE [units |-> <<>>, next |-> i + 1]

\* Nothing is converted when any of it is not UTF-8.
Invalid == [ok |-> FALSE, units |-> <<>>]
smb2_utf8_to_utf16(s) ==
  LET From[i \in 1 .. Len(s) + 1] ==
        IF i > Len(s) THEN [ok |-> TRUE, units |-> <<>>]
        ELSE LET cp == validate_utf8_cp(s, i)
                 rest == From[cp.next]
             IN IF cp.units = <<>> \/ ~rest.ok THEN Invalid
                ELSE [ok |-> TRUE, units |-> cp.units \o rest.units]
  IN From[1]

-----------------------------------------------------------------------------
\* A pair of surrogates is one code point.
Paired(u, i) == Leading(u[i]) /\ i < Len(u) /\ Trailing(u[i + 1])
After(u, i) == IF Paired(u, i) THEN i + 2 ELSE i + 1

\* Memory is allocated for what this adds up to.
SizeAt(u, i) ==
  IF u[i] < 128 THEN 1 ELSE IF u[i] < 2048 THEN 2
  ELSE IF Paired(u, i) THEN 4 ELSE 3
utf16_size(u) ==
  LET From[i \in 1 .. Len(u) + 1] ==
        IF i > Len(u) THEN 0 ELSE SizeAt(u, i) + From[After(u, i)]
  IN From[1]

Continuation(code, low) == 128 + ((code \div low) % 64)
ReplacementChar == <<239, 191, 189>>

BytesAt(u, i) ==
  LET code == IF Paired(u, i)
              THEN 65536 + 1024 * (u[i] % 1024) + (u[i + 1] % 1024) ELSE u[i]
  IN IF code < 128 THEN <<code>>
     ELSE IF code < 2048 THEN <<192 + code \div 64, Continuation(code, 1)>>
     ELSE IF Surrogate(code) THEN ReplacementChar
     ELSE IF code < 65536
          THEN <<224 + code \div 4096, Continuation(code, 64),
                 Continuation(code, 1)>>
     ELSE <<240 + code \div 262144, Continuation(code, 4096),
            Continuation(code, 64), Continuation(code, 1)>>

smb2_utf16_to_utf8(u) ==
  LET From[i \in 1 .. Len(u) + 1] ==
        IF i > Len(u) THEN <<>> ELSE BytesAt(u, i) \o From[After(u, i)]
  IN From[1]

-----------------------------------------------------------------------------
WellFormed(u) ==
  \A i \in DOMAIN u : /\ Leading(u[i]) => Paired(u, i)
                      /\ Trailing(u[i]) => i > 1 /\ Paired(u, i - 1)

\* What is written fits what was allocated and can be read back, whatever
\* units a server sends; a string without a lone surrogate survives both
\* ways, and no other bytes than those are taken for UTF-8.
TextArrives ==
  /\ \A u \in SeqOf(Units, 3) :
       LET s == smb2_utf16_to_utf8(u)
           again == smb2_utf8_to_utf16(s)
       IN /\ Len(s) = utf16_size(u)
          /\ again.ok
          /\ again.units = u <=> WellFormed(u)
  /\ \A s \in SeqOf(Bytes, 4) :
       LET u == smb2_utf8_to_utf16(s)
       IN u.ok => WellFormed(u.units) /\ smb2_utf16_to_utf8(u.units) = s
=============================================================================
