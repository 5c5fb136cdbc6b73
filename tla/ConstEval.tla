----------------------------- MODULE ConstEval -----------------------------
(***************************************************************************)
(* Compile-time evaluation (tamal-lang consteval.rs): expressions fold to  *)
(* an integer or a byte string under an environment of the module's        *)
(* constants and functions, the parameters of the innermost call, and the  *)
(* functions being expanded.  An i64 is a TLC integer here: the sources    *)
(* checked stay below 2^31.                                                *)
(***************************************************************************)
EXTENDS Syntax, Bitwise

IntValue(n) == [ty |-> "int", n |-> n]
BytesValue(b) == [ty |-> "bytes", bytes |-> b]

Builtins == {"crc8", "len", "lo", "hi"}

EmptyEnv == [consts |-> <<>>, locals |-> <<>>, fns |-> <<>>, active |-> <<>>]

\* The innermost parameters first, then the module's constants.
InScope(env) == env.locals @@ env.consts

\* A plausible bug, for the mutants: the callee sees its caller's parameters.
KeepCallerScope(env, bindings) == [env EXCEPT !.locals = bindings @@ @]

\* A callee's scope never holds its caller's parameters.
ChildForCallValues(env, bindings) == [env EXCEPT !.locals = bindings]

\* A call's body, and its defaults, count the callee as being expanded.
ChildForCall(env, callee, bindings) ==
    [ChildForCallValues(env, bindings) EXCEPT !.active = Append(@, callee)]
DefaultScopeFor(env, callee) == ChildForCall(env, callee, <<>>)

CheckType(v, ty, at) ==
    IF v.ty = ty \/ (ty = "byte" /\ v.ty = "int" /\ v.n \in 0..255) THEN Ok(v)
    ELSE Err(Diag(at, "type"))

\* The single positional argument of a builtin.
BuiltinArg(e) ==
    CASE Len(e.args) # 1 -> Err(Diag(e.at, "takes 1 argument"))
      [] Len(e.args) = 1 /\ e.args[1].name # "" ->
           Err(Diag(e.args[1].at, "does not take named arguments"))
      [] OTHER -> Ok(e.args[1].value)

Indices(s) == [n \in 1..Len(s) |-> n]

RECURSIVE Eval(_, _), BindArgs(_, _, _, _, _)

EvalInt(e, env) ==
    Bind(Eval(e, env), LAMBDA v :
         IF v.ty = "int" THEN Ok(v.n) ELSE Err(Diag(e.at, "expected an integer")))

EvalBytes(e, env) ==
    Bind(Eval(e, env), LAMBDA v :
         IF v.ty = "bytes" THEN Ok(v.bytes) ELSE Err(Diag(e.at, "expected bytes")))

EvalByte(e, env) ==
    Bind(EvalInt(e, env), LAMBDA n :
         IF n \in 0..255 THEN Ok(n) ELSE Err(Diag(e.at, "byte out of range")))

EvalFnCall(f, e, env) ==
    IF f.name \in ToSet(env.active) THEN Err(Diag(e.at, "recursion"))
    ELSE Bind(BindArgs(f.name, f.params, e.args, env, e.at), LAMBDA bindings :
         Bind(Eval(f.body, ChildForCall(env, f.name, bindings)), LAMBDA v :
              CheckType(v, f.ret, f.body.at)))

EvalCall(e, env) ==
    LET OnBytes(F(_)) == Bind(BuiltinArg(e), LAMBDA a :
                         Bind(EvalBytes(a, env), LAMBDA b : Ok(IntValue(F(b)))))
        OnInt(F(_)) == Bind(BuiltinArg(e), LAMBDA a :
                       Bind(EvalInt(a, env), LAMBDA n : Ok(IntValue(F(n)))))
    IN  CASE e.func = "crc8" -> OnBytes(LAMBDA b : Crc8(b))
          [] e.func = "len"  -> OnBytes(LAMBDA b : Len(b))
          [] e.func = "lo"   -> OnInt(LAMBDA n : n % 256)
          [] e.func = "hi"   -> OnInt(LAMBDA n : (n \div 256) % 256)
          [] e.func \notin Builtins ->
               IF e.func \in DOMAIN env.fns THEN EvalFnCall(env.fns[e.func], e, env)
               ELSE Err(Diag(e.at, "unknown function"))

Eval(e, env) ==
    CASE e.e = "int" -> Ok(IntValue(e.n))
      [] e.e = "name" -> IF e.name \in DOMAIN InScope(env) THEN Ok(InScope(env)[e.name])
                         ELSE Err(Diag(e.at, "unknown name"))
      [] e.e = "bytes" ->
           LET Step(r, elem) == Bind(r, LAMBDA v : Bind(EvalByte(elem, env),
                                     LAMBDA b : Ok(BytesValue(Append(v.bytes, b)))))
           IN  FoldLeft(Step, Ok(BytesValue(<<>>)), e.elems)
      [] e.e = "bin" /\ e.op = "++" ->
           Bind(EvalBytes(e.lhs, env), LAMBDA l :
           Bind(EvalBytes(e.rhs, env), LAMBDA r : Ok(BytesValue(l \o r))))
      [] e.e = "bin" /\ e.op = "^" ->
           Bind(EvalInt(e.lhs, env), LAMBDA l :
           Bind(EvalInt(e.rhs, env), LAMBDA r : Ok(IntValue(l ^^ r))))
      [] e.e = "call" -> EvalCall(e, env)

\* Arguments in order, then the defaults of what they left unbound, in the
\* order of declaration; the first complaint is the one reported.
BindArgs(callee, params, args, env, at) ==
    LET Named(name) == {n \in DOMAIN params : params[n].name = name}
        Target(arg, n) == IF arg.name = "" THEN n ELSE CHOOSE p \in Named(arg.name) : TRUE
        Take(st, p, v, where) ==
            Bind(CheckType(v, p.ty, where), LAMBDA ok :
                 Ok([st EXCEPT !.bound = (p.name :> ok) @@ @]))
        Argument(r, n) == Bind(r, LAMBDA st :
            LET arg == args[n]
                st2 == [st EXCEPT !.named = @ \/ arg.name # ""]
                p == params[Target(arg, n)]
            IN  CASE arg.name = "" /\ st.named -> Err(Diag(arg.at, "positional after named"))
                  [] arg.name = "" /\ ~st.named /\ n > Len(params) ->
                       Err(Diag(arg.at, "too many arguments"))
                  [] arg.name # "" /\ Named(arg.name) = {} -> Err(Diag(arg.at, "no parameter"))
                  [] OTHER -> IF p.name \in DOMAIN st.bound
                              THEN Err(Diag(arg.at, "bound twice"))
                              ELSE Bind(Eval(arg.value, env), LAMBDA v :
                                        Take(st2, p, v, arg.at)))
        Default(r, p) == Bind(r, LAMBDA st :
            IF p.name \in DOMAIN st.bound THEN Ok(st)
            ELSE IF p.default = <<>> THEN Err(Diag(at, "missing a value"))
            ELSE Bind(Eval(p.default[1], DefaultScopeFor(env, callee)), LAMBDA v :
                      Take(st, p, v, p.at)))
        given == FoldLeft(Argument, Ok([bound |-> <<>>, named |-> FALSE]), Indices(args))
    IN  Bind(FoldLeft(Default, given, params), LAMBDA st : Ok(st.bound))

=============================================================================
