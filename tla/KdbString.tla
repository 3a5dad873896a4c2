----------------------------- MODULE KdbString -----------------------------
(***************************************************************************)
(* The string functions of package/webface/kdb.c: str_escape and           *)
(* str_unescape, the line format of db_serialize and parse_pair, and       *)
(* match_wildcard.  A string is a sequence of character codes 1 .. 255; C  *)
(* reads the codes above 127 as negative where char is signed (MIPS, x86)  *)
(* and as they are where it is not (ARM).                                  *)
(*                                                                         *)
(* The state is one input of these functions, grown one character a step.  *)
(***************************************************************************)
EXTENDS Integers, Sequences, SequencesExt

CONSTANTS
    RecordChars, MaxRecord,     \* characters and length of names and values
    PatternChars, MaxPattern    \* the same of patterns and strings

ASSUME AlphabetAssumption == RecordChars \cup PatternChars \subseteq 1 .. 255

VARIABLES
    signed,         \* is char signed in this build?
    input,          \* what the strings are for: "record" or "pattern"
    first, second   \* two strings: name and value, or pattern and string

vars == <<signed, input, first, second>>

\* Characters by name.
BEL == 7
NL == 10
SPACE == 32
QUOTE == 34
HASH == 35
APOS == 39
STAR == 42
ZERO == 48
EQ == 61
BACKSLASH == 92
DEL == 127

-----------------------------------------------------------------------------
(* Escapes.                                                                *)

\* \a \b \t \n \v \f \r and their letters.
Letter == [c \in 7 .. 13 |-> <<97, 98, 116, 110, 118, 102, 114>>[c - 6]]

\* The value of the char c in an expression.
CInt(c) == IF signed /\ c > 127 THEN c - 256 ELSE c

Digit(n) == ZERO + (n % 8)

Octal(c) == <<BACKSLASH, Digit(CInt(c) \div 64), Digit(CInt(c) \div 8), Digit(CInt(c))>>

\* Mutant of EscapeChar: '=' is left as it is.
EscapeCharButEq(c) ==
    CASE c = BEL -> <<BACKSLASH, Letter[BEL], BACKSLASH, Letter[8]>>
      [] c \in 8 .. 13 -> <<BACKSLASH, Letter[c]>>
      [] c \in {BACKSLASH, QUOTE, APOS} -> <<BACKSLASH, c>>
      [] OTHER -> IF CInt(c) <= SPACE \/ CInt(c) >= DEL \/ c = HASH
                  THEN Octal(c) ELSE <<c>>

\* The case for '\a' has no break: it goes on into the one for '\b'.
EscapeChar(c) ==
    CASE c = BEL -> <<BACKSLASH, Letter[BEL], BACKSLASH, Letter[8]>>
      [] c \in 8 .. 13 -> <<BACKSLASH, Letter[c]>>
      [] c \in {BACKSLASH, QUOTE, APOS} -> <<BACKSLASH, c>>
      [] OTHER -> IF CInt(c) <= SPACE \/ CInt(c) >= DEL \/ c \in {EQ, HASH}
                  THEN Octal(c) ELSE <<c>>

str_escape(s) == FlattenSeq([i \in DOMAIN s |-> EscapeChar(s[i])])

IsOctal(c) == c \in ZERO .. ZERO + 7

\* How many of the three characters from i on are read as octal digits.
OctalDigits(s, i) ==
    CHOOSE n \in 1 .. 3 :
        /\ \A k \in 0 .. n - 1 : i + k <= Len(s) /\ IsOctal(s[i + k])
        /\ n = 3 \/ i + n > Len(s) \/ ~IsOctal(s[i + n])

\* *q is a char: the sum wraps at 256.
OctalValue(s, i, n) ==
    FoldLeft(LAMBDA v, c : (v * 8 + c - ZERO) % 256, 0, SubSeq(s, i, i + n - 1))

\* str_unescape from position i on.  A backslash at the very end, which
\* str_escape never makes, sends the C code past the end of the string.
RECURSIVE UnescapeFrom(_, _)
UnescapeFrom(s, i) ==
    IF i > Len(s) THEN << >>
    ELSE IF s[i] # BACKSLASH \/ i = Len(s)
    THEN <<s[i]>> \o UnescapeFrom(s, i + 1)
    ELSE IF IsOctal(s[i + 1])
    THEN LET n == OctalDigits(s, i + 1)
         IN  <<OctalValue(s, i + 1, n)>> \o UnescapeFrom(s, i + 1 + n)
    ELSE LET code == {c \in DOMAIN Letter : Letter[c] = s[i + 1]}
         IN  (IF code = {} THEN <<s[i + 1]>> ELSE <<CHOOSE c \in code : TRUE>>)
                \o UnescapeFrom(s, i + 2)

str_unescape(s) == UnescapeFrom(s, 1)

-----------------------------------------------------------------------------
(* The line of a record.                                                   *)

db_serialize(n, v) == str_escape(n) \o <<EQ>> \o str_escape(v) \o <<NL>>

\* One '\n' at the end is dropped; the first '=' ends the name.
parse_pair(str) ==
    LET s == IF str # << >> /\ Last(str) = NL THEN Front(str) ELSE str
        eqs == {i \in DOMAIN s : s[i] = EQ}
        eq == CHOOSE i \in eqs : \A j \in eqs : i <= j
    IN  IF eqs = {} \/ eq = 1 THEN [ok |-> FALSE, name |-> << >>, value |-> << >>]
        ELSE [ok |-> TRUE, name |-> SubSeq(s, 1, eq - 1),
              value |-> SubSeq(s, eq + 1, Len(s))]

\* fgets gives db_unserialize the text up to the first '\n'.
FirstLine(s) ==
    LET nls == {i \in DOMAIN s : s[i] = NL}
    IN  IF nls = {} THEN s
        ELSE SubSeq(s, 1, CHOOSE i \in nls : \A j \in nls : i <= j)

db_unserialize(line) ==
    LET p == parse_pair(line)
    IN  [p EXCEPT !.name = str_unescape(@), !.value = str_unescape(@)]

-----------------------------------------------------------------------------
(* Wildcards.                                                              *)

\* match_wildcard with pattern_p at i and string_p at j.  Behind a '*' the
\* next pattern character is looked for as it stands.
RECURSIVE MatchFrom(_, _, _, _)
MatchFrom(p, s, i, j) ==
    IF i > Len(p) THEN j > Len(s)
    ELSE IF p[i] = STAR
    THEN \/ i = Len(p)
         \/ \E k \in j .. Len(s) :
               s[k] = p[i + 1] /\ MatchFrom(p, s, i + 1, k)
    ELSE LET h == IF p[i] = BACKSLASH /\ i < Len(p) THEN i + 1 ELSE i
         IN  j <= Len(s) /\ p[h] = s[j] /\ MatchFrom(p, s, h + 1, j + 1)

\* Mutant of match_wildcard: the rest of the string is not looked at.
match_prefix(p, s) == \E k \in 0 .. Len(s) : MatchFrom(p, SubSeq(s, 1, k), 1, 1)

match_wildcard(p, s) == MatchFrom(p, s, 1, 1)

\* What the comment above match_wildcard says: '*' matches any sequence of
\* zero or more characters, a character behind a backslash is literal.
RECURSIVE Documented(_, _)
Documented(p, s) ==
    IF p = << >> THEN s = << >>
    ELSE IF p[1] = STAR
    THEN \E k \in 1 .. Len(s) + 1 : Documented(Tail(p), SubSeq(s, k, Len(s)))
    ELSE LET q == IF p[1] = BACKSLASH /\ Len(p) > 1 THEN Tail(p) ELSE p
         IN  s # << >> /\ q[1] = s[1] /\ Documented(Tail(q), Tail(s))

-----------------------------------------------------------------------------
Init ==
    /\ signed \in BOOLEAN /\ input \in {"record", "pattern"}
    /\ first = << >> /\ second = << >>

Alphabet == IF input = "record" THEN RecordChars ELSE PatternChars
MaxLen == IF input = "record" THEN MaxRecord ELSE MaxPattern

GrowFirst(c) ==
    /\ Len(first) < MaxLen
    /\ first' = Append(first, c)
    /\ UNCHANGED <<signed, input, second>>

GrowSecond(c) ==
    /\ Len(second) < MaxLen
    /\ second' = Append(second, c)
    /\ UNCHANGED <<signed, input, first>>

Next == \E c \in Alphabet : GrowFirst(c) \/ GrowSecond(c)

Spec == Init /\ [][Next]_vars

-----------------------------------------------------------------------------
(* Properties.                                                             *)

\* A record that db_write has written is the record that db_read reads back:
\* no character of a name or value can end the name or the line early,
\* digits behind an octal escape are not taken for part of it, and the octal
\* escapes of a negative char wrap back (kdb.c 209-262, 1019-1134).  The name
\* must not be empty, and neither string has a '\a', which comes back as \a\b.
RecordReadsBack ==
    (input = "record" /\ first # << >> /\ ~Contains(first \o second, BEL)) =>
        LET line == db_serialize(first, second)
        IN  /\ FirstLine(line) = line
            /\ db_unserialize(line) =
                  [ok |-> TRUE, name |-> first, value |-> second]

\* Is some '*' of the pattern followed by another one or by a backslash?
Doubled(p) ==
    \E i \in 1 .. Len(p) - 1 : p[i] = STAR /\ p[i + 1] \in {STAR, BACKSLASH}

\* match_wildcard finds what its comment says it finds, if no '*' of the
\* pattern is followed by '*' or '\': it never backtracks into an earlier '*'
\* and does not need to (kdb.c 1167-1195).
MatchesAsDocumented ==
    (input = "pattern" /\ ~Doubled(first)) =>
        (match_wildcard(first, second) <=> Documented(first, second))

=============================================================================
