-------------------------------- MODULE Lex --------------------------------
(***************************************************************************)
(* The two lexers: of .tam sources (tamal-lang) and of assembly            *)
(* (tamal-asm).  A text is a sequence of characters, a token holds the     *)
(* range of its lexeme, and of an assembly number also its value.  The     *)
(* lexers of Asm and Syntax start behind these, with names for lexemes.    *)
(***************************************************************************)
EXTENDS Result, Integers, SequencesExt

CONSTANT MaxInt     \* the largest literal, i64::MAX in the code

LowerDigits == <<"0", "1", "2", "3", "4", "5", "6", "7", "8", "9",
                 "a", "b", "c", "d", "e", "f">>
UpperDigits == <<"0", "1", "2", "3", "4", "5", "6", "7", "8", "9",
                 "A", "B", "C", "D", "E", "F">>

\* Letters: those of the digits, and x, stand for all.
Decimals == {LowerDigits[n] : n \in 1..10}
IdentStart == (ToSet(LowerDigits) \cup ToSet(UpperDigits) \cup {"_", "x", "X"}) \ Decimals
IdentContinue == IdentStart \cup Decimals
Blank == {" ", "\t", "\r"}

Tok(k, from, to) == [k |-> k, from |-> from, to |-> to]
Lexeme(s, tok) == SubSeq(s, tok.from, tok.to - 1)

\* Where the characters from i on stop being members of set.
After(s, i, set) ==
    CHOOSE j \in i..Len(s) + 1 :
        /\ \A n \in i..j-1 : s[n] \in set
        /\ j = Len(s) + 1 \/ s[j] \notin set

\* The text from i on begins with w.
At(s, i, w) == i + Len(w) - 1 <= Len(s) /\ SubSeq(s, i, i + Len(w) - 1) = w

\* The first place from i on where w begins, and 0 if there is none.
Find(s, i, w) ==
    LET places == {j \in i..Len(s) : At(s, j, w)}
    IN  IF places = {} THEN 0 ELSE CHOOSE j \in places : \A k \in places : j <= k

\* i64::from_str_radix on digits, of which the lexers leave no sign.
FromRadix(digits, radix) ==
    LET Of(c) == {n \in 0..radix-1 : c \in {LowerDigits[n+1], UpperDigits[n+1]}}
        value[n \in 0..Len(digits)] ==
            IF n = 0 THEN 0 ELSE value[n-1] * radix + CHOOSE d \in Of(digits[n]) : TRUE
    IN  IF digits = <<>> \/ (\E n \in DOMAIN digits : Of(digits[n]) = {})
        THEN Err("not a number")
        ELSE IF value[Len(digits)] > MaxInt THEN Err("too large") ELSE Ok(value[Len(digits)])

RadixAt(s, i) ==
    CASE At(s, i, <<"0", "x">>) \/ At(s, i, <<"0", "X">>) -> 16
      [] At(s, i, <<"0", "b">>) \/ At(s, i, <<"0", "B">>) -> 2
      [] OTHER -> 10

-----------------------------------------------------------------------------
(* Plausible bugs, for the mutants.                                        *)

StopsAtUnderscore(s, i) == After(s, i, IdentContinue \ {"_"})

-----------------------------------------------------------------------------
(* tamal-asm.                                                              *)

NumberEnd(s, i) == After(s, i, IdentContinue)

\* A number from i on: the token, or why it is none.
AsmNumber(s, i) ==
    LET first == IF s[i] = "-" THEN i + 1 ELSE i
        radix == RadixAt(s, first)
        digits == IF radix = 10 THEN first ELSE first + 2
        end == NumberEnd(s, digits)
        Signed(mag) == Ok(Tok("num", i, end) @@ [n |-> IF s[i] = "-" THEN -mag ELSE mag])
    IN  IF end = digits THEN Err("malformed number literal")
        ELSE Bind(FromRadix(SubSeq(s, digits, end - 1), radix), Signed)

\* The token that begins at i, which is not blank and not in a comment.
AsmToken(s, i) ==
    CASE s[i] \in {"\n", ",", ":"} -> Ok(Tok(s[i], i, i + 1))
      [] s[i] = "." ->
           IF After(s, i + 1, IdentContinue) = i + 1 THEN Err("empty directive after .")
           ELSE Ok(Tok("dir", i, After(s, i + 1, IdentContinue)))
      [] s[i] \in Decimals \cup {"-"} -> AsmNumber(s, i)
      [] s[i] \in IdentStart -> Ok(Tok("id", i, After(s, i, IdentContinue)))
      [] OTHER -> Err("unexpected character")

RECURSIVE AsmLexFrom(_, _, _)
AsmLexFrom(s, i, toks) ==
    CASE i > Len(s) -> Ok(Append(toks, Tok("eof", i, i)))
      [] i <= Len(s) /\ s[i] \in Blank -> AsmLexFrom(s, i + 1, toks)
      [] i <= Len(s) /\ s[i] \in {"#", ";"} ->
           AsmLexFrom(s, After(s, i, ToSet(s) \ {"\n"}), toks)
      [] OTHER -> Bind(AsmToken(s, i), LAMBDA t : AsmLexFrom(s, t.to, Append(toks, t)))

AsmLex(s) == AsmLexFrom(s, 1, <<>>)

-----------------------------------------------------------------------------
(* tamal-lang.                                                             *)

Puncts == {"\n", "{", "}", ",", "[", "]", "(", ")", "=", ":", "^", "+"}

TamToken(s, i) ==
    CASE At(s, i, <<"-", ">">>) -> Ok(Tok("->", i, i + 2))
      [] At(s, i, <<"+", "+">>) -> Ok(Tok("++", i, i + 2))
      [] s[i] \in Puncts /\ ~At(s, i, <<"+", "+">>) -> Ok(Tok(s[i], i, i + 1))
      [] s[i] \in IdentStart -> Ok(Tok("id", i, After(s, i, IdentContinue)))
      [] s[i] \in Decimals -> Ok(Tok("num", i, After(s, i, IdentContinue)))
      [] OTHER -> Err("unexpected character")

RECURSIVE TamLexFrom(_, _, _)
TamLexFrom(s, i, toks) ==
    CASE i > Len(s) -> Ok(Append(toks, Tok("eof", i, i)))
      [] i <= Len(s) /\ s[i] \in Blank -> TamLexFrom(s, i + 1, toks)
      [] At(s, i, <<"/", "/">>) -> TamLexFrom(s, After(s, i, ToSet(s) \ {"\n"}), toks)
      [] At(s, i, <<"/", "*">>) ->
           LET close == Find(s, i + 2, <<"*", "/">>)
           IN  IF close = 0 THEN Err("unterminated block comment")
               ELSE TamLexFrom(s, close + 2, toks)
      [] OTHER -> Bind(TamToken(s, i), LAMBDA t : TamLexFrom(s, t.to, Append(toks, t)))

TamLex(s) == TamLexFrom(s, 1, <<>>)

\* The value of a number's lexeme, its separators dropped first.
ParseNumber(lexeme) ==
    LET s == SelectSeq(lexeme, LAMBDA c : c # "_")
    IN  IF RadixAt(s, 1) = 10 THEN FromRadix(s, 10)
        ELSE FromRadix(SubSeq(s, 3, Len(s)), RadixAt(s, 1))

\* A raw statement as it is handed to the assembler: its lexemes, verbatim.
RawLine(s, toks) ==
    LET Piece(t) == IF t.k = "," THEN <<",", " ">> ELSE Lexeme(s, t)
        operands == FlattenSeq([n \in 1..Len(toks) - 1 |-> Piece(toks[n + 1])])
    IN  <<"\t">> \o Lexeme(s, toks[1]) \o (IF operands = <<>> THEN <<>> ELSE <<" ">>)
          \o operands \o <<"\n">>

=============================================================================
