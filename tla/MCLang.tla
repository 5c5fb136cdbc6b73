------------------------------- MODULE MCLang -------------------------------
(***************************************************************************)
(* The compiler on programs that are written down as trees, each printed   *)
(* on as few lines as it can be and on as many; and on programs with one   *)
(* fault planted at a known place.  What a program says is defined here on *)
(* its tree, without the compiler, and compared with what the rig does     *)
(* with the compiled words.                                                *)
(***************************************************************************)
EXTENDS Emit, FiniteSets

VARIABLES
    intended,   \* the program as it was written
    airy        \* the layout of its text

mcVars == <<vars, intended, airy>>

Rig == INSTANCE Alu
RigCrc == INSTANCE Crc

-----------------------------------------------------------------------------
(* Trees, and their text.                                                  *)

IntLit(n) == [e |-> "int", n |-> n]
Name(n) == [e |-> "name", name |-> n]
Bytes(elems) == [e |-> "bytes", elems |-> elems]
Cat(l, r) == [e |-> "bin", op |-> "++", lhs |-> l, rhs |-> r]
ExOr(l, r) == [e |-> "bin", op |-> "^", lhs |-> l, rhs |-> r]
Pos(v) == [name |-> "", value |-> v]
By(name, v) == [name |-> name, value |-> v]
Call(f, args) == [e |-> "call", func |-> f, args |-> args]
Param(name, ty, default) == [name |-> name, ty |-> ty, default |-> default]

Between(items, sep) ==
    LET Step(text, x) == IF text = <<>> THEN x ELSE text \o sep \o x
    IN  FoldLeft(Step, <<>>, items)

\* A bracketed list: one line, or an item per line and a trailing comma.
List(open, items, close, wide) ==
    LET sep == IF wide THEN <<Comma, NL>> ELSE <<Comma>>
    IN  <<Punct(open)>> \o (IF wide THEN <<NL>> ELSE <<>>) \o Between(items, sep)
          \o (IF wide /\ items # <<>> THEN sep ELSE <<>>) \o <<Punct(close)>>

RECURSIVE ExprText(_, _)
ArgsText(args, wide) ==
    List("(", [n \in DOMAIN args |->
                 (IF args[n].name = "" THEN <<>> ELSE <<Id(args[n].name), Punct("=")>>)
                   \o ExprText(args[n].value, wide)], ")", wide)
ExprText(e, wide) ==
    CASE e.e = "int" -> <<Num(e.n)>>
      [] e.e = "name" -> <<Id(e.name)>>
      [] e.e = "bytes" ->
           List("[", [n \in DOMAIN e.elems |-> ExprText(e.elems[n], wide)], "]", wide)
      [] e.e = "bin" -> ExprText(e.lhs, wide) \o <<Punct(e.op)>>
                          \o (IF wide \/ e.rhs.e = "bin"
                              THEN <<Punct("(")>> \o ExprText(e.rhs, wide) \o <<Punct(")")>>
                              ELSE ExprText(e.rhs, wide))
      [] e.e = "call" -> <<Id(e.func)>> \o ArgsText(e.args, wide)

RECURSIVE StmtText(_, _)
Block(stmts, wide) ==
    <<Punct("{")>> \o (IF wide THEN <<NL>> ELSE <<>>)
      \o Between([n \in DOMAIN stmts |-> StmtText(stmts[n], wide)], <<NL>>)
      \o (IF wide THEN <<NL, NL, Punct("}")>> ELSE <<Punct("}")>>)
StmtText(s, wide) ==
    CASE s.s = "verbatim" -> s.text
      [] s.s = "pass" -> <<Id("pass")>>
      [] s.s = "fail" -> <<Id("fail"), s.code>>
      [] s.s = "raw" -> <<Id(s.name)>> \o Between([n \in DOMAIN s.operands |->
                                                   <<s.operands[n]>>], <<Comma>>)
      [] s.s = "send" -> <<Id("send")>> \o ExprText(s.bytes, wide)
                           \o (IF s.crc THEN <<Punct("+"), Id("crc8")>> ELSE <<>>)
      [] s.s = "crc_region" ->
           <<Id("crc_region")>>
             \o Block([n \in DOMAIN s.sends |-> [s |-> "send", bytes |-> s.sends[n],
                                                 crc |-> FALSE]], wide)
      [] s.s = "config" -> <<Id("config")>> \o Between([n \in 1..4 |-> <<s.words[n]>>], <<Comma>>)
      [] s.s = "frame" -> <<Id("frame")>> \o Block(s.body, wide)
      [] s.s = "recv" ->
           <<Id("recv")>>
             \o (IF ToSet(s.targets) = {Discard} /\ ~wide THEN <<Num(Len(s.targets))>>
                 ELSE Between([n \in DOMAIN s.targets |->
                        <<Id(IF s.targets[n] = Discard THEN "_" ELSE s.targets[n])>>],
                        IF wide THEN <<Comma, NL>> ELSE <<Comma>>))
      [] s.s = "wait_state" -> <<Id("wait_state")>>
                                 \o (IF s.bind = Discard THEN <<>> ELSE <<Id(s.bind)>>)
      [] s.s = "expect" -> <<Id("expect"), Id("crc"), Id("else")>> \o ExprText(s.else, wide)
      [] s.s = "repeat" -> <<Id("repeat")>> \o ExprText(s.count, wide) \o Block(s.body, wide)
      [] s.s = "call" -> <<Id(s.name)>> \o ArgsText(s.args, wide)

ParamsText(params, wide) ==
    List("(", [n \in DOMAIN params |->
                 <<Id(params[n].name), Colon, Id(params[n].ty)>>
                   \o (IF params[n].default = <<>> THEN <<>>
                       ELSE <<Punct("=")>> \o ExprText(params[n].default[1], wide))], ")", wide)

\* extra is text that stands for items the tree has no form for.
ProgramText(p, wide) ==
    FlattenSeq([n \in DOMAIN p.consts |->
        <<Id("const"), Id(p.consts[n].name), Punct("=")>>
          \o ExprText(p.consts[n].value, wide) \o <<NL>>])
    \o FlattenSeq([n \in DOMAIN p.procs |->
        <<Id("proc"), Id(p.procs[n].name)>> \o ParamsText(p.procs[n].params, wide)
          \o Block(p.procs[n].body, wide) \o <<NL>>])
    \o <<Id("test"), Id("t")>> \o Block(p.stmts, wide) \o <<NL>>
    \o FlattenSeq([n \in DOMAIN p.fns |->
        <<Id("fn"), Id(p.fns[n].name)>> \o ParamsText(p.fns[n].params, wide)
          \o <<Punct("->"), Id(p.fns[n].ret), Punct("{")>> \o (IF wide THEN <<NL>> ELSE <<>>)
          \o ExprText(p.fns[n].body, wide)
          \o (IF wide THEN <<NL>> ELSE <<>>) \o <<Punct("}"), NL>>])
    \o p.extra

-----------------------------------------------------------------------------
(* What a program says: the values of its expressions, and what goes over  *)
(* the bus when the target answers with the bytes of r, then with zeros.   *)

RECURSIVE Value(_, _, _)

\* The parameters of a callee, by position or by name or by default.
Bound(params, args, scope, p) ==
    LET Given(n) == {k \in DOMAIN args : args[k].name = params[n].name
                                           \/ (args[k].name = "" /\ k = n)}
        At(name) == CHOOSE n \in DOMAIN params : params[n].name = name
    IN  [name \in {params[n].name : n \in DOMAIN params} |->
            IF Given(At(name)) # {}
            THEN Value(args[CHOOSE k \in Given(At(name)) : TRUE].value, scope, p)
            ELSE Value(params[At(name)].default[1], <<>>, p)]

Called(list, name) == list[CHOOSE n \in DOMAIN list : list[n].name = name]

Value(e, scope, p) ==
    CASE e.e = "int" -> e.n
      [] e.e = "name" -> IF e.name \in DOMAIN scope THEN scope[e.name]
                         ELSE Value(Called(p.consts, e.name).value, <<>>, p)
      [] e.e = "bytes" -> [n \in DOMAIN e.elems |-> Value(e.elems[n], scope, p)]
      [] e.e = "bin" /\ e.op = "++" -> Value(e.lhs, scope, p) \o Value(e.rhs, scope, p)
      [] e.e = "bin" /\ e.op = "^" -> Value(e.lhs, scope, p) ^^ Value(e.rhs, scope, p)
      [] e.e = "call" ->
           LET Arg == Value(e.args[1].value, scope, p)
               fn == Called(p.fns, e.func)
           IN  CASE e.func = "len"  -> Len(Arg)
                 [] e.func = "lo"   -> Arg % 256
                 [] e.func = "hi"   -> Arg \div 256
                 [] e.func = "crc8" -> Crc8(Arg)
                 [] e.func \notin Builtins ->
                      Value(fn.body, Bound(fn.params, e.args, scope, p), p)

Puts(bytes) == [n \in DOMAIN bytes |-> <<"put", bytes[n]>>]
Answer(r, n) == IF n <= Len(r) THEN r[n] ELSE 0

\* A run so far: the bus, the answers read, those since the last crc_reset,
\* the codes of the verdicts that failed in the frame, and the halt code.
Running(st) == st.halt = -1
Reset(st) == [st EXCEPT !.crc = <<>>]
See(st, events) == [st EXCEPT !.bus = @ \o events]
Read(st, r) == [st EXCEPT !.bus = Append(@, <<"get">>), !.next = @ + 1,
                          !.crc = Append(@, Answer(r, st.next))]
Stop(st, code) == [st EXCEPT !.halt = code]

RECURSIVE Does(_, _, _, _, _), Times(_, _, _, _, _, _), Poll(_, _)
Poll(st, r) == LET got == Read(Reset(st), r)
               IN  IF Answer(r, st.next) = WaitStateCode THEN Poll(got, r) ELSE got
Times(n, body, scope, p, r, st) ==
    IF n = 0 THEN st ELSE Times(n - 1, body, scope, p, r, Does(body, scope, p, r, st))

\* The statements in turn, up to a halt.
Does(stmts, scope, p, r, start) ==
    LET Sent(bytes, crc) == Puts(bytes \o (IF crc THEN <<Crc8(bytes)>> ELSE <<>>))
        Step(st, s) ==
            IF ~Running(st) THEN st ELSE
            CASE s.s = "pass" -> Stop(st, 0)
              [] s.s = "fail" -> Stop(st, s.code.n[2])
              [] s.s = "raw" /\ s.name = "halt" -> Stop(st, s.operands[1].n[2])
              [] s.s = "raw" /\ s.name = "put_byte" -> See(st, Puts(<<s.operands[1].n[2]>>))
              [] s.s = "raw" /\ s.name = "crc_reset" -> Reset(st)
              [] s.s = "send" -> See(st, Sent(Value(s.bytes, scope, p), s.crc))
              [] s.s = "crc_region" ->
                   See(st, Sent(FlattenSeq([n \in DOMAIN s.sends |->
                                              Value(s.sends[n], scope, p)]), TRUE))
              [] s.s = "config" -> See(st, <<<<"config", s.words[4].v>>>>)
              [] s.s = "recv" -> FoldLeft(LAMBDA x, target : Read(x, r), st, s.targets)
              [] s.s = "wait_state" -> Poll(st, r)
              [] s.s = "expect" ->
                   LET got == Read(st, r)
                       good == Last(got.crc) = Crc8(Front(got.crc))
                   IN  IF good THEN got
                       ELSE [got EXCEPT !.failed = Append(@, Value(s.else, scope, p))]
              [] s.s = "frame" ->
                   LET body == Does(s.body, scope, p, r, See(st, <<<<"cs", 0>>>>))
                       closed == [See(body, <<<<"cs", 1>>>>) EXCEPT !.failed = <<>>]
                   IN  IF body.failed = <<>> THEN closed ELSE Stop(closed, Head(body.failed))
              [] s.s = "repeat" ->
                   Times(Value(s.count, scope, p), s.body, scope, p, r, st)
              [] s.s = "call" ->
                   LET proc == Called(p.procs, s.name)
                   IN  Does(proc.body, Bound(proc.params, s.args, scope, p), p, r, st)
    IN  FoldLeft(Step, start, stmts)

Meaning(p, r) ==
    LET end == Does(p.stmts, <<>>, p, r,
                    [bus |-> <<>>, next |-> 1, crc |-> <<>>, failed |-> <<>>, halt |-> -1])
    IN  [bus |-> end.bus, halt |-> end.halt]

-----------------------------------------------------------------------------
(* What the rig does with the words: its decoder, ALU, comparator and CRC. *)

MaxInstructions == 200      \* bound on a run of the words

RECURSIVE Executes(_, _, _)
Executes(words, r, m) ==
    LET w == words[m.pc + 1]
        op == Rig!Decode(w)
        Goes(events, rest) ==
            Executes(words, r, [rest EXCEPT !.pc = @ + 1, !.bus = @ \o events,
                                            !.fuel = @ - 1])
        Writes(rest, v) == [rest EXCEPT !.regs[w.rd] = IF w.rd = 0 THEN {} ELSE v]
        byte == Rig!ToBits(Answer(r, m.next), 8)
        Signed11 == IF w.imm >= 1024 THEN w.imm - 2048 ELSE w.imm
    IN  IF m.pc \notin 0..Len(words)-1 \/ m.fuel = 0 THEN [bus |-> m.bus, halt |-> -2]
        ELSE CASE op = "HALT" -> [bus |-> m.bus, halt |-> w.imm]
               [] op = "PUT_BYTE_IMM" -> Goes(<<<<"put", w.imm>>>>, m)
               [] op = "GET_BYTE" ->
                    Goes(<<<<"get">>>>, [Writes(m, byte) EXCEPT !.next = @ + 1,
                                           !.crc = RigCrc!CrcUpdate(@, byte)])
               [] op = "CS_ASSERT" -> Goes(<<<<"cs", 0>>>>, m)
               [] op = "CS_DEASSERT" -> Goes(<<<<"cs", 1>>>>, m)
               [] op = "SET_CONFIG" -> Goes(<<<<"config", Alerts[w.imm + 1]>>>>, m)
               [] op = "CRC_RESET" -> Goes(<<>>, [m EXCEPT !.crc = {}])
               [] op = "RDSR" -> Goes(<<>>, Writes(m, m.crc))
               [] op \in Rig!DataOps ->
                    Goes(<<>>, Writes(m, Rig!DataResult(op, w, m.regs[w.rs1],
                                                        m.regs[w.rs2], 32)))
               [] op \in Rig!Branches ->
                    IF Rig!BranchTaken(op, m.regs[w.rs1], m.regs[w.rs2])
                    THEN Executes(words, r, [m EXCEPT !.pc = @ + Signed11, !.fuel = @ - 1])
                    ELSE Goes(<<>>, m)

Execution(instrs, r) ==
    Executes([n \in DOMAIN instrs |-> Encode(instrs[n])], r,
             [pc |-> 0, regs |-> [n \in 0..15 |-> {}], crc |-> {}, next |-> 1,
              bus |-> <<>>, fuel |-> MaxInstructions])

-----------------------------------------------------------------------------
(* The programs.                                                           *)

N(n) == IntLit(n)
Send(e, crc) == [s |-> "send", bytes |-> e, crc |-> crc]
Region(sends) == [s |-> "crc_region", sends |-> sends]
Recv(targets) == [s |-> "recv", targets |-> targets]
WaitState(bind) == [s |-> "wait_state", bind |-> bind]
Expect(code) == [s |-> "expect", else |-> code]
Frame(body) == [s |-> "frame", body |-> body]
Repeat(count, body) == [s |-> "repeat", count |-> count, body |-> body]
CallStmt(name, args) == [s |-> "call", name |-> name, args |-> args]
Raw(name, operands) == [s |-> "raw", name |-> name, operands |-> operands]
Pass == [s |-> "pass"]
FailWith(n) == [s |-> "fail", code |-> Num(n)]
Config(alert) == [s |-> "config", words |-> <<Id("controller"), Id("x1"), Id("sck20"), Id(alert)>>]
Verbatim(text) == [s |-> "verbatim", text |-> text]

Consts ==
    <<[name |-> "k", value |-> N(2)], [name |-> "x", value |-> N(5)],
      [name |-> "hdr", value |-> Cat(Bytes(<<N(70)>>), Bytes(<<Name("k")>>))],
      [name |-> "both", value |-> Call("pair", <<Pos(N(1))>>)]>>

\* f0 names a constant that poll, its caller, has a parameter of the name of.
Fns ==
    <<[name |-> "f0", params |-> <<>>, ret |-> "bytes", body |-> Bytes(<<Name("x")>>)],
      [name |-> "pair", params |-> <<Param("a", "byte", <<>>), Param("b", "int", <<Name("k")>>)>>,
       ret |-> "bytes", body |-> Bytes(<<Name("a"), ExOr(Name("b"), Name("a"))>>)],
      [name |-> "twice", params |-> <<Param("a", "byte", <<>>)>>, ret |-> "bytes",
       body |-> Cat(Call("pair", <<Pos(Name("a"))>>),
                    Call("pair", <<By("b", Name("a")), By("a", N(9))>>))]>>

Procs ==
    <<[name |-> "poll", params |-> <<Param("x", "byte", <<>>), Param("code", "byte", <<N(9)>>)>>,
       body |-> <<WaitState("r"), Recv(<<"d">>), Expect(Name("code")), Send(Call("f0", <<>>), FALSE)>>],
      [name |-> "whole", params |-> <<Param("n", "int", <<>>), Param("data", "bytes", <<>>)>>,
       body |-> <<Frame(<<Send(Name("data"), TRUE),
                          Repeat(Name("n"), <<Recv(<<Discard>>)>>)>>)>>]>>

Program(stmts) ==
    [consts |-> Consts, fns |-> Fns, procs |-> Procs, stmts |-> stmts,
     extra |-> <<>>, culprit |-> <<>>]

\* What may stand in a frame.
Menu ==
    {Send(Cat(Bytes(<<N(1), ExOr(N(3), ExOr(Name("k"), N(255)))>>), Name("hdr")), TRUE),
     Send(Call("twice", <<Pos(N(7))>>), FALSE),
     Send(Bytes(<<Call("lo", <<Pos(N(515))>>), Call("hi", <<Pos(N(515))>>),
                  Call("crc8", <<Pos(Name("hdr"))>>), Call("len", <<Pos(Name("both"))>>)>>), FALSE),
     Region(<<Bytes(<<N(1)>>), Name("hdr")>>),
     Recv(<<Discard, Discard>>), Recv(<<"a", Discard>>),
     WaitState(Discard), WaitState("r"), Expect(N(3)),
     Raw("put_byte", <<Num(7)>>), Raw("crc_reset", <<>>),
     Repeat(N(2), <<Recv(<<Discard>>), Expect(Name("k"))>>),
     CallStmt("poll", <<By("code", N(4)), By("x", N(8))>>)}

Sound ==
    {Program(<<Config("alert_io1"), Frame(<<s1, s2>>), Pass>>) : s1, s2 \in Menu}
    \cup {Program(<<Repeat(N(2), <<Frame(<<s>>)>>), FailWith(7)>>) : s \in Menu}
    \cup {Program(<<CallStmt("whole", <<Pos(N(1)), Pos(Name("hdr"))>>),
                    Frame(<<Repeat(Name("k"), <<s>>)>>), Raw("halt", <<Num(4)>>)>>) : s \in Menu}

\* Answers with and without wait states, with good and bad CRCs.
Ready == <<8, 17, Crc8(<<8, 17>>)>>
Answers ==
    {<<>>, Ready, Ready \o Ready, <<15, 15>> \o Ready, Ready \o <<15>> \o Ready,
     <<8, 17, 1>> \o Ready, Ready \o <<8, 17, 1>>, <<8, Crc8(<<8>>)>> \o Ready}

\* Texts with a fault in them, wherever a statement may stand.
Word(name) == <<Id(name)>>
SendText(toks) == Word("send") \o toks
SendCall(f, args) == SendText(ExprText(Call(f, args), FALSE))
Faults ==
    {<<Id("li"), Id("x20"), Comma, Num(5)>>, Word("bogus"), <<Id("halt"), Num(256)>>,
     <<Id("j"), Id("nowhere")>>, Word("put_byte"), <<Id("put_byte"), Num(1), Comma, Comma>>,
     <<Id("put_byte"), Num(10) @@ [spaced |-> TRUE]>>, <<Id("nop"), Punct("[")>>,
     <<Num(77)>>, Word("call"), <<Id("wait_state"), Num(5)>>, <<Id("fail"), Id("nope")>>,
     SendText(<<Punct("["), Num(256), Punct("]")>>), SendText(Word("nope")),
     SendText(<<Punct("["), Punct("("), Num(1), Punct("]")>>),
     SendText(<<Punct("["), Num(1), Num(1), Punct("]")>>), SendText(<<Punct("+")>>),
     SendText(<<Punct("["), Lit(-1, 0), Punct("]")>>), SendText(Word("k")),
     SendText(<<Id("hdr"), Punct("+"), Id("crc9")>>),
     SendText(<<Id("hdr"), Punct("^"), Num(5)>>), SendText(<<Id("hdr"), Punct("++"), Num(5)>>),
     SendText(<<Punct("["), Id("len"), Punct("("), Num(1), Punct(")"), Punct("]")>>),
     SendCall("lo", <<Pos(N(1)), Pos(N(2))>>), SendCall("hi", <<By("a", N(1))>>),
     SendCall("k", <<Pos(N(1))>>), SendCall("pair", <<Pos(N(1)), Pos(N(2)), Pos(N(3))>>),
     SendCall("pair", <<By("c", N(1))>>), SendCall("pair", <<By("a", N(1)), Pos(N(2))>>),
     SendCall("pair", <<Pos(N(1)), By("a", N(2))>>), SendCall("pair", <<By("b", N(1))>>),
     SendCall("pair", <<Pos(Name("hdr"))>>), <<Id("recv"), Num(9)>>, <<Id("recv"), Comma>>,
     <<Id("recv"), Lit(-1, 0)>>,
     Word("recv") \o Between([n \in 1..6 |-> <<Id("a")>>], <<Comma>>),
     <<Id("expect"), Id("crc9")>>, <<Id("expect"), Id("crc"), Id("or")>>,
     <<Id("crc_region"), Punct("{"), Id("recv"), Num(1), Punct("}")>>,
     <<Id("crc_region"), Num(1)>>, <<Id("config"), Id("target"), Comma, Comma>>,
     <<Id("repeat"), Num(9), Punct("{"), Punct("}")>>,
     <<Id("repeat"), Id("hdr"), Punct("{"), Punct("}")>>, <<Id("repeat"), Num(1), Id("nop")>>,
     <<Id("unknown"), Punct("("), Punct(")")>>, <<Id("f0"), Punct("("), NL, NL, Punct(")")>>,
     \* in q, a recursion; elsewhere a call of q without its argument
     <<Id("q"), Punct("("), NL, NL, Punct(")")>>}
OutsideFrames == {<<Id("expect"), Id("crc"), Id("else"), Num(1)>>,
                  <<Id("config"), Id("target"), Comma, Id("x1"), Comma, Id("sck20"), Comma, Id("alert_pin")>>}
InFrames ==
    {<<Id("fail"), Num(1)>>, <<Id("frame"), Punct("{"), NL, Punct("}")>>,
     Word("config") \o Between([n \in 1..4 |-> <<Id("x1")>>], <<Comma>>),
     <<Id("expect"), Id("crc"), Id("else"), Num(999)>>,
     <<Id("expect"), Id("crc"), Id("else"), Id("nope")>>}

\* q has the planted statement in its body.
WithQ(stmts, s) ==
    [Program(stmts) EXCEPT
        !.procs = Append(@, [name |-> "q", params |-> <<Param("z", "int", <<>>)>>, body |-> <<s>>])]
CallQ == CallStmt("q", <<Pos(N(1))>>)
Idle == Raw("nop", <<>>)

AtTop(s)    == WithQ(<<Config("alert_pin"), s, Pass>>, Idle)
InFrame(s)  == WithQ(<<Frame(<<Recv(<<"r">>), s, Idle>>), Pass>>, Idle)
InRepeat(s) == WithQ(<<Repeat(N(2), <<Send(Name("both"), FALSE), s, Idle>>), Pass>>, Idle)
InProc(s)   == WithQ(<<CallQ, Idle, Pass>>, s)

Planted(p, text) == [p EXCEPT !.culprit = text]
PlantedIn(contexts, text) == {Planted(c, text) : c \in contexts}

AroundOf(text) == LET s == Verbatim(text) IN {AtTop(s), InRepeat(s), InProc(s)}

\* More than the budgets allow: the outermost expansion is blamed.
Large(n) == Repeat(N(4), <<Repeat(N(4), <<Send(Bytes([i \in 1..n |-> N(1)]), FALSE)>>)>>)
Outermost == <<Id("repeat"), Num(2)>>

TestName == <<Id("test"), Id("t")>>

\* Items with a fault in them.
Fn(name, params, ret, body) ==
    <<Id("fn"), Id(name), Punct("(")>> \o params \o <<Punct(")"), Punct("->"), Id(ret), Punct("{")>>
      \o body \o <<Punct("}"), NL>>
A(ty) == <<Id("a"), Colon, Id(ty)>>
One == <<Num(1)>>
ConstZ(value) == <<Id("const"), Id("z"), Punct("=")>> \o value \o <<NL>>
Calls(f) == <<Id(f), Punct("("), Punct(")")>>
Extras ==
    {<<Id("const"), Id("k"), Punct("="), Num(1), NL>>, ConstZ(Word("nope")), ConstZ(Calls("poll")),
     <<Id("const"), Id("z"), Num(1), NL>>, Fn("lo", <<>>, "int", One), Fn("send", <<>>, "int", One),
     Fn("f0", <<>>, "int", One), <<Id("proc"), Id("f0"), Punct("("), Punct(")"), Punct("{"), Punct("}")>>,
     <<Id("proc"), Id("poll"), Punct("("), Punct(")"), Punct("{"), Punct("}")>>,
     <<Id("proc"), Id("frame"), Punct("("), Punct(")"), Punct("{"), Punct("}")>>,
     <<Id("test"), Id("u"), Punct("{"), Id("pass"), Punct("}")>>, Word("bogus"), <<Num(77)>>,
     Fn("g", A("byte") \o <<Comma>> \o A("byte"), "int", One), Fn("g", A("word"), "int", One),
     Fn("g", Word("a"), "int", One), Fn("g", <<>>, "word", One),
     Fn("g", <<>>, "int", One \o One), Fn("g", <<Num(1)>>, "int", One),
     Fn("g", <<>>, "byte", <<Num(256)>>) \o ConstZ(Calls("g")),
     Fn("g", <<>>, "int", Calls("g")) \o ConstZ(Calls("g")),
     Fn("g", A("byte") \o <<Punct("="), Num(300)>>, "int", Word("a")) \o ConstZ(Calls("g")),
     Fn("g", A("int") \o <<Punct("=")>> \o Calls("g"), "int", One) \o ConstZ(Calls("g")),
     <<Id("test"), Num(1)>>, <<Id("fn"), Id("g"), Num(1)>>,
     <<Id("proc"), Id("g"), Punct("("), Punct(")"), Punct("{"), Id("nop"), NL>>,
     <<Id("proc"), Id("g"), Punct("("), Punct(")"), Punct("{"), Id("crc_region"), Punct("{"), NL>>}

Faulty ==
    UNION {PlantedIn(AroundOf(text) \cup {InFrame(Verbatim(text))}, text) : text \in Faults}
    \cup UNION {PlantedIn(AroundOf(text), text) : text \in OutsideFrames}
    \cup {Planted(InFrame(Verbatim(text)), text) : text \in InFrames}
    \cup {Planted(InFrame(Pass), TestName)}
    \cup {Planted([Program(<<Frame(<<>>)>>) EXCEPT !.procs = <<>>], TestName),
          Planted(AtTop(Repeat(N(4), <<Send(Bytes([i \in 1..11 |-> N(1)]), FALSE)>>)), TestName)}
    \cup {Planted(InRepeat(Large(n)), Outermost) : n \in {0, 6}}
    \cup {[Program(<<Pass>>) EXCEPT !.extra = text, !.culprit = text] : text \in Extras}

MCInit ==
    /\ intended \in Sound \cup Faulty /\ airy \in BOOLEAN
    /\ source = ProgramText(intended, airy)
    /\ Init

MCNext == Next /\ UNCHANGED <<intended, airy>>

MCSpec == MCInit /\ [][MCNext]_mcVars

-----------------------------------------------------------------------------
(* Properties.                                                             *)

\* A program without a fault compiles, and its words, run by the rig, put on
\* the bus what its text says, byte for byte and edge for edge, and halt with
\* the same code: through every constant, default and parameter, every inlined
\* proc and unrolled repeat, wait states polled away, and verdicts that are
\* branched on only when CS# is high again (parser.rs to encoder.rs to the rig).
RunsAsWritten ==
    intended.culprit = <<>> =>
        /\ phase # "failed"
        /\ phase = "done" =>
             \A r \in Answers : Execution(program, r) = Meaning(intended, r)

\* Where the text of the planted fault is in the source.
Culprit ==
    LET n == Len(intended.culprit)
        start == CHOOSE i \in 1..Len(source)-n+1 : SubSeq(source, i, i+n-1) = intended.culprit
    IN  start..start + n

\* A fault is reported, by whichever stage finds it, and every diagnostic
\* points into the statement or item at fault in the .tam source: also when
\* it is the assembler that complains of a line that a proc or a repeat has
\* expanded several times (emit.rs remap), and for a budget into the outermost
\* expansion (emit.rs budget_error).
BlamesTheCulprit ==
    intended.culprit # <<>> =>
        /\ phase # "done"
        /\ \A n \in DOMAIN diags : diags[n].at \in Culprit

Client == INSTANCE AllocClient WITH
    alloc <- em.alloc, pending <- DeferredRegs(em), frame <- FrameDepth,
    Names <- {"a", "d", "r"}, MaxDepth <- MaxExpansions + 3

\* The emitter uses the allocator by the rules of AllocClient, whose soundness
\* is proved for every number of registers: each of its steps takes and frees
\* registers as one step there, or as none.
UsesAllocator == Client!Spec

\* While a program is emitted, whatever is live - a bound name, a verdict not
\* yet branched on - has a busy register that no other owner may free.
AllocSound == Client!AllocSound

=============================================================================
