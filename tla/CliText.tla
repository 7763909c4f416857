------------------------------- MODULE CliText -------------------------------
(***************************************************************************)
(* What aft-mtp-cli makes of the text of a line: the tokens                *)
(* (cli/arg_lexer.l, cli/Tokenizer.cpp), the arguments (cli/MakeTuple.h),  *)
(* the parts of a path, and the word that is completed.  A text is the     *)
(* sequence of its bytes.                                                  *)
(***************************************************************************)
EXTENDS Integers, SequencesExt

Space == 32
Quote == 34
Slash == 47
Backslash == 92

Escaped(c) ==
    CASE c = 110 -> 10 [] c = 116 -> 9 [] c = 102 -> 12 [] c = 114 -> 13 [] c = 98 -> 8 [] OTHER -> c

Break == -1

\* What the rules write, and where they end an argument.
Lexed(s) ==
    LET f[p \in 1 .. Len(s) + 2, quoted \in BOOLEAN] ==
            LET pair == p < Len(s) /\ s[p] = Backslash
            IN  CASE p > Len(s) -> <<>>
                  [] p <= Len(s) /\ s[p] = Quote -> f[p + 1, ~quoted]
                  [] pair /\ quoted -> <<Escaped(s[p + 1])>> \o f[p + 2, quoted]
                  [] pair /\ ~quoted /\ s[p + 1] = Space -> <<Space>> \o f[p + 2, quoted]
                  [] p <= Len(s) /\ ~quoted /\ s[p] = Space -> <<Break>> \o f[p + 1, quoted]
                  [] OTHER -> <<s[p]>> \o f[p + 1, quoted]
    IN  f[1, FALSE]

Split(s, mark) ==
    FoldLeft(LAMBDA parts, c : IF c = mark THEN Append(parts, <<>>)
                               ELSE Append(Front(parts), Append(Last(parts), c)), <<<<>>>>, s)

\* An argument of nothing is none.
NextArguments(parts) == SelectSeq(parts, LAMBDA part : part # <<>>)
Tokens(s) == NextArguments(Split(Lexed(s), Break))

\* What jellyfin-sync writes for a name: quote, _quote_str.
QuoteFor(s) ==
    <<Quote>>
    \o FlattenSeq([n \in DOMAIN s |-> IF s[n] \in {Quote, Backslash} THEN <<Backslash, s[n]>>
                                      ELSE <<s[n]>>])
    \o <<Quote>>

\* A u32 as operator>> reads it: the digits it begins with, 0 without any (the sign
\* it takes too is left out).
Convert(s) ==
    LET digits == IF \E n \in DOMAIN s : s[n] \notin 48 .. 57
                  THEN SelectInSeq(s, LAMBDA c : c \notin 48 .. 57) - 1 ELSE Len(s)
    IN  FoldLeft(LAMBDA v, c : 10 * v + c - 48, 0, SubSeq(s, 1, digits))

-----------------------------------------------------------------------------
(* Paths *)

GetFilename(s) == Last(Split(s, Slash))
GetDirname(s) == IF Contains(s, Slash) THEN SubSeq(s, 1, Len(s) - Len(GetFilename(s)) - 1) ELSE <<>>

\* The path of a text as Session::Resolve walks it.
ToPath(s) ==
    [abs |-> s # <<>> /\ s[1] = Slash,
     parts |-> SelectSeq(Split(s, Slash), LAMBDA part : part # <<>>)]

\* Mutant: a name with a space is left as it is.
EscapePathNot(s) == s

EscapePath(s) == IF Contains(s, Space) THEN <<Quote>> \o s \o <<Quote>> ELSE s

Lower(c) == IF c \in 65 .. 90 THEN c + 32 ELSE c
BeginsWith(s, prefix) ==
    Len(prefix) <= Len(s) /\ \A n \in DOMAIN prefix : Lower(s[n]) = Lower(prefix[n])

\* The word readline completes: what follows the last space, quote or backslash.
Word(s) ==
    LET breaks == {0} \cup {n \in DOMAIN s : s[n] \in {Space, Quote, Backslash}}
    IN  SubSeq(s, 1 + (CHOOSE n \in breaks : \A k \in breaks : k <= n), Len(s))
=============================================================================
