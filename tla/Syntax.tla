------------------------------- MODULE Syntax -------------------------------
(***************************************************************************)
(* The grammar of the language (tamal-lang parser.rs): tokens to the tree  *)
(* of a module.  Tokens and spans are those of Asm: a span is the index of *)
(* its first token.  A literal that no i64 holds has a negative upper half.*)
(* Every parse of a part is Got(what it read, where to go on) or an error. *)
(***************************************************************************)
EXTENDS Asm

CONSTANT MaxUnroll      \* the cap of a repeat or recv count, 1024 in the code

ASSUME MaxUnrollAssumption == MaxUnroll \in Nat

Punct(k) == Tok(k, "")

Statements == {"pass", "fail", "send", "crc_region", "config", "frame", "recv",
               "wait_state", "expect", "repeat"}
Types == {"byte", "int", "bytes"}
Discard == ""           \* a recv target without a name; no identifier is empty

Got(v, next) == Ok([v |-> v, next |-> next])

RECURSIVE SkipNewlines(_, _)
SkipNewlines(t, i) == IF t[i].k = "nl" THEN SkipNewlines(t, i+1) ELSE i

\* Keep what r read and consume a token of a kind, with newlines before it.
Then(t, r, kind, what) ==
    Bind(r, LAMBDA x : IF t[x.next].k = kind THEN Got(x.v, x.next + 1)
                       ELSE Err(Diag(x.next, what)))
OnNextLines(t, r) == Bind(r, LAMBDA x : Got(x.v, SkipNewlines(t, x.next)))

Ident(t, i) == Then(t, Got(t[i], i), "id", "expected an identifier")

\* end_stmt: a newline is consumed, a closing brace or the end is left.
Ended(t, r) ==
    Bind(r, LAMBDA x :
         CASE t[x.next].k = "nl" -> Got(x.v, x.next + 1)
           [] t[x.next].k \in {"}", "eof"} -> Got(x.v, x.next)
           [] OTHER -> Err(Diag(x.next, "expected end of statement")))

Binary(op, lhs, rhs) == [e |-> "bin", op |-> op, lhs |-> lhs, rhs |-> rhs, at |-> lhs.at]

-----------------------------------------------------------------------------
(* Expressions: ++ binds loosest, then ^, then the primaries.              *)

LiteralValue(tok) ==
    IF tok.n[1] < 0 THEN Err("invalid number literal")
    ELSE Ok(tok.n[1] * 2^16 + tok.n[2])

ParseType(t, i) ==
    Bind(Ident(t, i), LAMBDA x :
         IF x.v.v \in Types THEN Got(x.v.v, x.next) ELSE Err(Diag(i, "unknown type")))

RECURSIVE ParseChain(_, _, _), ChainRest(_, _, _, _), ParsePrimary(_, _),
          ParseList(_, _, _, _, _)

ParseExpr(t, i) == ParseChain(t, i, "++")

Deeper(t, i, op) == IF op = "++" THEN ParseChain(t, i, "^") ELSE ParsePrimary(t, i)

ParseChain(t, i, op) ==
    Bind(Deeper(t, i, op), LAMBDA x : ChainRest(t, x.next, op, x.v))

ChainRest(t, i, op, lhs) ==
    IF t[i].k # op THEN Got(lhs, i)
    ELSE Bind(Deeper(t, i+1, op), LAMBDA x :
              ChainRest(t, x.next, op, Binary(op, lhs, x.v)))

ParseArgs(t, i) == Then(t, ParseList(t, i, ")", "arg", <<>>), ")", "expected )")

ParsePrimary(t, i) ==
    CASE t[i].k = "num" ->
           IF IsOk(LiteralValue(t[i]))
           THEN Got([e |-> "int", n |-> LiteralValue(t[i]).ok, at |-> i], i+1)
           ELSE Err(Diag(i, "invalid number literal"))
      [] t[i].k = "id" /\ t[i+1].k = "(" ->
           Bind(ParseArgs(t, i+2), LAMBDA x :
                Got([e |-> "call", func |-> t[i].v, args |-> x.v, at |-> i], x.next))
      [] t[i].k = "id" /\ t[i+1].k # "(" ->
           Got([e |-> "name", name |-> t[i].v, at |-> i], i+1)
      [] t[i].k = "[" ->
           Bind(Then(t, ParseList(t, i+1, "]", "elem", <<>>), "]", "expected ]"),
                LAMBDA x : Got([e |-> "bytes", elems |-> x.v, at |-> i], x.next))
      [] t[i].k = "(" ->
           Then(t, OnNextLines(t, ParseExpr(t, SkipNewlines(t, i+1))), ")", "expected )")
      [] OTHER -> Err(Diag(i, "expected an expression"))

ParseArg(t, i) ==
    IF t[i].k = "id" /\ t[i+1].k = "="
    THEN Bind(ParseExpr(t, SkipNewlines(t, i+2)), LAMBDA x :
              Got([name |-> t[i].v, value |-> x.v, at |-> i], x.next))
    ELSE Bind(ParseExpr(t, i), LAMBDA x :
              Got([name |-> "", value |-> x.v, at |-> x.v.at], x.next))

\* A repeated name is reported before its type or default is looked at.
ParseParam(t, i, before) ==
    Bind(Ident(t, i), LAMBDA name :
    IF \E n \in DOMAIN before : before[n].name = name.v.v
    THEN Err(Diag(i, "duplicate parameter"))
    ELSE Bind(Then(t, Got(0, i+1), ":", "expected : and a type"), LAMBDA colon :
         Bind(ParseType(t, colon.next), LAMBDA ty :
         LET Param(default) == [name |-> name.v.v, ty |-> ty.v, default |-> default, at |-> i]
         IN  IF t[ty.next].k # "=" THEN Got(Param(<<>>), ty.next)
             ELSE Bind(ParseExpr(t, ty.next + 1), LAMBDA x :
                       Got(Param(<<x.v>>), x.next)))))

ParseItem(t, i, kind, before) ==
    CASE kind = "elem"  -> ParseExpr(t, i)
      [] kind = "arg"   -> ParseArg(t, i)
      [] kind = "param" -> ParseParam(t, i, before)

\* Items up to the closing token, which is left; newlines do not end it and
\* a trailing comma is allowed.
ParseList(t, i, close, kind, before) ==
    LET j == SkipNewlines(t, i)
    IN  IF t[j].k = close THEN Got(before, j)
        ELSE Bind(OnNextLines(t, ParseItem(t, j, kind, before)), LAMBDA x :
             IF t[x.next].k = ","
             THEN ParseList(t, x.next + 1, close, kind, Append(before, x.v))
             ELSE Got(Append(before, x.v), x.next))

-----------------------------------------------------------------------------
(* Statements.                                                             *)

RECURSIVE ParseTargets(_, _, _), ParseRawOperands(_, _, _), ParseSends(_, _, _),
          ParseBlock(_, _, _, _)

ParseTargets(t, i, before) ==
    Bind(Ident(t, i), LAMBDA x :
    LET got == Append(before, IF x.v.v = "_" THEN Discard ELSE x.v.v)
    IN  IF t[x.next].k = "," THEN ParseTargets(t, SkipNewlines(t, x.next + 1), got)
        ELSE Got(got, x.next))

\* The operands of a raw instruction, kept as they are.
ParseRawOperands(t, i, before) ==
    IF t[i].k \notin {"num", "id"} THEN Err(Diag(i, "expected an operand"))
    ELSE LET got == Append(before, t[i])
         IN  IF t[i+1].k = "," THEN ParseRawOperands(t, i+2, got) ELSE Got(got, i+1)

\* The sends of a crc_region, up to and including its closing brace.
ParseSends(t, i, before) ==
    LET j == SkipNewlines(t, i)
    IN  CASE t[j].k = "}" -> Got(before, j+1)
          [] t[j].k = "eof" -> Err(Diag(j, "missing }"))
          [] OTHER ->
               Bind(Ident(t, j), LAMBDA kw :
               IF kw.v.v # "send" THEN Err(Diag(j, "only send is allowed"))
               ELSE Bind(Ended(t, ParseExpr(t, j+1)), LAMBDA x :
                         ParseSends(t, x.next, Append(before, x.v))))

\* Four words between commas.
ParseConfig(t, i) ==
    LET Fits(n) == i+n <= Len(t) /\ t[i+n].k = (IF n % 2 = 1 THEN "id" ELSE ",")
        wrong == {n \in 1..7 : ~Fits(n)}
    IN  IF wrong = {} THEN Got(<<t[i+1], t[i+3], t[i+5], t[i+7]>>, i+8)
        ELSE Err(Diag(i + (CHOOSE n \in wrong : \A m \in wrong : n <= m),
                      "expected an identifier or a comma"))

\* The targets of a recv: a literal count of discards, or a list.
ParseRecv(t, i) ==
    IF t[i+1].k # "num" THEN ParseTargets(t, i+1, <<>>)
    ELSE LET count == LiteralValue(t[i+1])
         IN  IF ~IsOk(count) THEN Err(Diag(i+1, "invalid recv count"))
             ELSE IF count.ok \notin 0..MaxUnroll
                  THEN Err(Diag(i+1, "recv count out of range"))
                  ELSE Got([n \in 1..count.ok |-> Discard], i+2)

ParseExpect(t, i) ==
    Bind(Ident(t, i+1), LAMBDA crc :
    IF crc.v.v # "crc" THEN Err(Diag(i+1, "expected crc"))
    ELSE Bind(Ident(t, i+2), LAMBDA els :
         IF els.v.v # "else" THEN Err(Diag(i+2, "expected else"))
         ELSE ParseExpr(t, i+3)))

\* A send and whether its CRC is appended.
ParseSend(t, i) ==
    Bind(ParseExpr(t, i+1), LAMBDA x :
    IF t[x.next].k # "+" THEN Got([bytes |-> x.v, crc |-> FALSE], x.next)
    ELSE Bind(Ident(t, x.next + 1), LAMBDA kw :
         IF kw.v.v # "crc8" THEN Err(Diag(x.next + 1, "expected crc8"))
         ELSE Got([bytes |-> x.v, crc |-> TRUE], kw.next)))

ParseRepeat(t, i) ==
    Bind(Then(t, ParseExpr(t, i+1), "{", "expected {"), LAMBDA count :
    Bind(ParseBlock(t, count.next, "repeat", <<>>), LAMBDA x :
         Got([count |-> count.v, body |-> x.v], x.next)))

\* What is not a keyword: a proc call when a parenthesis follows, else raw.
ParseOther(t, i) ==
    IF t[i+1].k = "("
    THEN Bind(ParseArgs(t, i+2), LAMBDA x :
              Got([s |-> "call", name |-> t[i].v, args |-> x.v], x.next))
    ELSE Bind(IF t[i+1].k \in {"nl", "}", "eof"} THEN Got(<<>>, i+1)
              ELSE ParseRawOperands(t, i+1, <<>>),
              LAMBDA x : Got([s |-> "raw", name |-> t[i].v, operands |-> x.v], x.next))

ParseStmt(t, i) ==
    LET word == t[i].v
        After(r, F(_)) ==           \* the statement of the parts r read
            Ended(t, Bind(r, LAMBDA x : Got([s |-> word, at |-> i] @@ F(x.v), x.next)))
        Brace == Then(t, Got(0, i+1), "{", "expected {")
    IN  CASE t[i].k # "id" -> Err(Diag(i, "expected an identifier"))
          [] word = "pass" -> After(Got(<<>>, i+1), LAMBDA v : v)
          [] word = "fail" -> After(Then(t, Got(t[i+1], i+1), "num", "expected a number"),
                                    LAMBDA v : [code |-> v])
          [] word = "send" -> After(ParseSend(t, i), LAMBDA v : v)
          [] word = "crc_region" ->
               After(Bind(Brace, LAMBDA b : ParseSends(t, b.next, <<>>)),
                     LAMBDA v : [sends |-> v])
          [] word = "config" -> After(ParseConfig(t, i), LAMBDA v : [words |-> v])
          [] word = "frame" ->
               After(Bind(Brace, LAMBDA b : ParseBlock(t, b.next, "frame", <<>>)),
                     LAMBDA v : [body |-> v])
          [] word = "recv" -> After(ParseRecv(t, i), LAMBDA v : [targets |-> v])
          [] word = "wait_state" ->
               After(IF t[i+1].k = "id" THEN Got(t[i+1].v, i+2) ELSE Got(Discard, i+1),
                     LAMBDA v : [bind |-> v])
          [] word = "expect" -> After(ParseExpect(t, i), LAMBDA v : [else |-> v])
          [] word = "repeat" -> After(ParseRepeat(t, i), LAMBDA v : v)
          [] word \notin Statements ->
               Ended(t, Bind(ParseOther(t, i), LAMBDA x : Got([at |-> i] @@ x.v, x.next)))

ParseBlock(t, i, what, before) ==
    LET j == SkipNewlines(t, i)
    IN  CASE t[j].k = "}" -> Got(before, j+1)
          [] t[j].k = "eof" -> Err(Diag(j, "missing }"))
          [] OTHER -> Bind(ParseStmt(t, j), LAMBDA x :
                           ParseBlock(t, x.next, what, Append(before, x.v)))

-----------------------------------------------------------------------------
(* Items.                                                                  *)

NoItems == [consts |-> <<>>, fns |-> <<>>, procs |-> <<>>, tests |-> <<>>]

\* The name and the parameter list of a fn or proc, its parenthesis closed.
ParseSignature(t, i) ==
    Bind(Then(t, Ident(t, i), "(", "expected ("), LAMBDA name :
    Bind(Then(t, ParseList(t, name.next, ")", "param", <<>>), ")", "expected )"),
         LAMBDA x : Got([name |-> name.v.v, at |-> i, params |-> x.v], x.next)))

ParseConst(t, i) ==
    Bind(Then(t, Ident(t, i), "=", "expected ="), LAMBDA name :
    Bind(Ended(t, ParseExpr(t, name.next)), LAMBDA x :
         Got([name |-> name.v.v, at |-> i, value |-> x.v], x.next)))

ParseFn(t, i) ==
    Bind(Then(t, ParseSignature(t, i), "->", "expected ->"), LAMBDA sig :
    Bind(Then(t, ParseType(t, sig.next), "{", "expected {"), LAMBDA ret :
    Bind(Ended(t, Then(t, OnNextLines(t, ParseExpr(t, SkipNewlines(t, ret.next))),
                       "}", "expected }")),
         LAMBDA x : Got(sig.v @@ [ret |-> ret.v, body |-> x.v], x.next))))

ParseProc(t, i) ==
    Bind(Then(t, ParseSignature(t, i), "{", "expected {"), LAMBDA sig :
    Bind(Ended(t, ParseBlock(t, sig.next, "proc", <<>>)), LAMBDA x :
         Got(sig.v @@ [body |-> x.v], x.next)))

ParseTest(t, i) ==
    Bind(Then(t, Ident(t, i), "{", "expected {"), LAMBDA name :
    Bind(ParseBlock(t, name.next, "test", <<>>), LAMBDA x :
         Got([name |-> name.v.v, at |-> i, stmts |-> x.v], x.next)))

RECURSIVE ParseItems(_, _, _)
ParseItems(t, i, items) ==
    LET j == SkipNewlines(t, i)
        Into(list, r) == Bind(r, LAMBDA x :
            ParseItems(t, x.next, [items EXCEPT ![list] = Append(@, x.v)]))
    IN  CASE t[j].k = "eof" -> Ok(items)
          [] t[j].k \notin {"id", "eof"} -> Err(Diag(j, "expected an identifier"))
          [] t[j].k = "id" ->
               CASE t[j].v = "const" -> Into("consts", ParseConst(t, j+1))
                 [] t[j].v = "fn"    -> Into("fns", ParseFn(t, j+1))
                 [] t[j].v = "proc"  -> Into("procs", ParseProc(t, j+1))
                 [] t[j].v = "test"  -> Into("tests", ParseTest(t, j+1))
                 [] OTHER -> Err(Diag(j, "expected const, fn, proc, or test"))

ParseModule(source) == ParseItems(Append(source, Eof), 1, NoItems)

=============================================================================
