----------------------------- MODULE LibString -----------------------------
(***************************************************************************)
(* libs/string.c, and printnum() of libs/printfmt.c.  Memory is a function *)
(* from addresses to bytes; a function that writes returns the memory it   *)
(* leaves, byte by byte in the order of the code, so that areas may        *)
(* overlap.                                                                *)
(***************************************************************************)
EXTENDS Integers, Sequences, FiniteSets

\* strlen() and strnlen(): the loop stands at the byte of number n.
RECURSIVE Scanned(_, _, _, _)
Scanned(m, s, n, len) ==
    IF n < len /\ m[s + n] # 0 THEN Scanned(m, s, n + 1, len) ELSE n
strnlen(m, s, len) == Scanned(m, s, 0, len)
strlen(m, s) == Scanned(m, s, 0, Cardinality(DOMAIN m))

RECURSIVE strcpy(_, _, _)
strcpy(m, dst, src) ==
    LET w == [m EXCEPT ![dst] = m[src]]
    IN  IF m[src] = 0 THEN w ELSE strcpy(w, dst + 1, src + 1)

RECURSIVE strncpy(_, _, _, _)
strncpy(m, dst, src, len) ==
    IF len = 0 THEN m
    ELSE strncpy([m EXCEPT ![dst] = m[src]], dst + 1,
                 IF m[src] # 0 THEN src + 1 ELSE src, len - 1)

RECURSIVE strcmp(_, _, _)
strcmp(m, s1, s2) ==
    IF m[s1] # 0 /\ m[s1] = m[s2] THEN strcmp(m, s1 + 1, s2 + 1) ELSE m[s1] - m[s2]

RECURSIVE strncmp(_, _, _, _)
strncmp(m, s1, s2, n) ==
    IF n > 0 /\ m[s1] # 0 /\ m[s1] = m[s2] THEN strncmp(m, s1 + 1, s2 + 1, n - 1)
    ELSE IF n = 0 THEN 0 ELSE m[s1] - m[s2]

RECURSIVE memcmp(_, _, _, _)
memcmp(m, v1, v2, n) ==
    IF n = 0 THEN 0
    ELSE IF m[v1] # m[v2] THEN m[v1] - m[v2] ELSE memcmp(m, v1 + 1, v2 + 1, n - 1)

\* strfind() stops at c or at the end; strchr() returns -1 for the end.
RECURSIVE strfind(_, _, _)
strfind(m, s, c) == IF m[s] \in {0, c} THEN s ELSE strfind(m, s + 1, c)
strchr(m, s, c) == LET f == strfind(m, s, c) IN IF m[f] = 0 THEN -1 ELSE f

RECURSIVE memset(_, _, _, _)
memset(m, s, c, n) == IF n = 0 THEN m ELSE memset([m EXCEPT ![s] = c], s + 1, c, n - 1)

RECURSIVE memcpy(_, _, _, _)
memcpy(m, dst, src, n) ==
    IF n = 0 THEN m ELSE memcpy([m EXCEPT ![dst] = m[src]], dst + 1, src + 1, n - 1)

\* From the end, if dst lies in the area to be copied.  Mutation: never.
MutForward(m, dst, src, n) == memcpy(m, dst, src, n)
RECURSIVE Backward(_, _, _, _)
Backward(m, d, s, n) ==
    IF n = 0 THEN m ELSE Backward([m EXCEPT ![d - 1] = m[s - 1]], d - 1, s - 1, n - 1)
memmove(m, dst, src, n) ==
    IF src < dst /\ src + n > dst THEN Backward(m, dst + n, src + n, n)
    ELSE memcpy(m, dst, src, n)

-----------------------------------------------------------------------------
\* Characters by their codes.
Blank == {9, 32}
Plus == 43
Minus == 45
LetterX == 120

\* The value of a digit; others are above every base.
Digit(c) == IF c \in 48 .. 57 THEN c - 48
            ELSE IF c \in 97 .. 122 THEN c - 97 + 10
            ELSE IF c \in 65 .. 90 THEN c - 65 + 10 ELSE 99

RECURSIVE SkipBlanks(_, _)
SkipBlanks(m, s) == IF m[s] \in Blank THEN SkipBlanks(m, s + 1) ELSE s

RECURSIVE Digits(_, _, _, _)
Digits(m, s, base, val) ==
    IF Digit(m[s]) >= base THEN [val |-> val, endptr |-> s]
    ELSE Digits(m, s + 1, base, val * base + Digit(m[s]))

\* strtol(): blanks, a sign, a prefix, digits.
strtol(m, s, base) ==
    LET a == SkipBlanks(m, s)
        b == IF m[a] \in {Plus, Minus} THEN a + 1 ELSE a
        hex == base \in {0, 16} /\ m[b] = 48 /\ m[b + 1] = LetterX
        r == IF hex THEN Digits(m, b + 2, 16, 0)
             ELSE IF base = 0 /\ m[b] = 48 THEN Digits(m, b + 1, 8, 0)
             ELSE Digits(m, b, IF base = 0 THEN 10 ELSE base, 0)
    IN  IF m[a] = Minus THEN [r EXCEPT !.val = -@] ELSE r

\* printnum(): the characters it puts out.
DigitChar(d) == IF d < 10 THEN 48 + d ELSE 97 + d - 10
Padding(width, padc) == IF width > 1 THEN [i \in 1 .. width - 1 |-> padc] ELSE <<>>
RECURSIVE printnum(_, _, _, _)
printnum(num, base, width, padc) ==
    (IF num >= base THEN printnum(num \div base, base, width - 1, padc)
     ELSE Padding(width, padc))
    \o <<DigitChar(num % base)>>

-----------------------------------------------------------------------------
CONSTANTS MemSize, CharSet     \* the memories that are tried

Where == 0 .. MemSize - 1
Memory == {m \in [Where -> CharSet] : m[MemSize - 1] = 0}

\* An area of n bytes at a lies in the memory.
Fit(a, n) == a + n <= MemSize
Moved(m, dst, src, n) ==
    [a \in Where |-> IF dst <= a /\ a < dst + n THEN m[src + a - dst] ELSE m[a]]

\* memmove() moves what was there, wherever the areas lie; memcpy() does when
\* dst is not inside the area to be copied, and strcpy() and strncpy() do for
\* strings apart from their copy, the latter padding it.
CopyFacts ==
    \A m \in Memory, dst, src \in Where, n \in 0 .. MemSize :
        LET len == strlen(m, src)
            apart(k) == dst + k <= src \/ src + k <= dst
        IN  Fit(dst, n) =>
            /\ Fit(src, n) =>
                  /\ memmove(m, dst, src, n) = Moved(m, dst, src, n)
                  /\ dst <= src \/ src + n <= dst =>
                        memcpy(m, dst, src, n) = Moved(m, dst, src, n)
            /\ n = len + 1 /\ apart(n) => strcpy(m, dst, src) = Moved(m, dst, src, n)
            /\ dst + n <= src \/ src + len < dst =>
                  strncpy(m, dst, src, n) =
                      IF n <= len THEN Moved(m, dst, src, n)
                      ELSE memset(Moved(m, dst, src, len), dst + len, 0, n - len)

Sign(i) == IF i < 0 THEN -1 ELSE IF i = 0 THEN 0 ELSE 1

\* The number of the first byte in which two areas differ, or n.
Common(m, s1, s2, n) ==
    CHOOSE k \in 0 .. n : /\ \A i \in 0 .. k - 1 : m[s1 + i] = m[s2 + i]
                          /\ k < n => m[s1 + k] # m[s2 + k]

\* The comparisons agree with each other and with the first difference, and do
\* not look behind the end of a string or the n-th byte.
CompareFacts ==
    \A m \in Memory, s1, s2 \in Where, n \in 0 .. MemSize :
        LET l == strnlen(m, s1, n)
            least == IF l < n THEN l + 1 ELSE n
        IN  /\ Fit(s1, n) /\ Fit(s2, n) =>
                  LET k == Common(m, s1, s2, n)
                  IN  memcmp(m, s1, s2, n) = IF k = n THEN 0 ELSE m[s1 + k] - m[s2 + k]
            /\ Fit(s1, least) /\ Fit(s2, least) =>
                  strncmp(m, s1, s2, n) = memcmp(m, s1, s2, least)
            /\ n > strlen(m, s1) => strncmp(m, s1, s2, n) = strcmp(m, s1, s2)
            /\ Sign(strcmp(m, s1, s2)) = -Sign(strcmp(m, s2, s1))
            /\ strchr(m, s1, 0) = -1 /\ strfind(m, s1, 0) = s1 + strlen(m, s1)

UpperX == 88

\* A string as a memory, with a null behind it.
CString(str) == [a \in 0 .. Len(str) |-> IF a < Len(str) THEN str[a + 1] ELSE 0]

\* What printnum() prints, strtol() reads back to the last character, padded
\* or signed, with the prefixes of hexadecimal and octal numbers or without.
\* The prefix "0X", which the comment on strtol() has as well (string.c:199), is
\* read as the number 0.
Reads(str, base, num) == strtol(CString(str), 0, base) = [val |-> num, endptr |-> Len(str)]
NumberFacts ==
    \A num \in 0 .. 40, base \in {2, 8, 10, 16}, width \in {-1, 1, 4} :
        LET digits == printnum(num, base, width, 48)
        IN  /\ Reads(digits, base, num)
            /\ Reads(<<32, 9, Minus>> \o printnum(num, base, width, 48), base, -num)
            /\ Reads(printnum(num, base, width, 32), base, num)
            /\ base = 16 => /\ Reads(<<48, LetterX>> \o digits, 0, num)
                            /\ Reads(<<Plus, 48, LetterX>> \o digits, 16, num)
                            /\ strtol(CString(<<48, UpperX>> \o digits), 0, 16)
                                  = [val |-> 0, endptr |-> 1]
            /\ base = 8 => Reads(<<48>> \o digits, 0, num)
            /\ base = 10 /\ num > 0 => Reads(printnum(num, 10, width, 32), 0, num)
=============================================================================
