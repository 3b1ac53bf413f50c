----------------------------- MODULE Toolchain -----------------------------
(***************************************************************************)
(* From source files to results: lexer, parser, formatter, desugaring, the  *)
(* module loader, the two passes of the compiler with their imports         *)
(* (hiko-compile/compiler.rs), the verifier, the stack machine and the      *)
(* register machine, composed.  A behaviour takes one program through them, *)
(* a token, declaration, file access or instruction per step, on the stack  *)
(* machine alone first and then on both machines, and evaluates the same    *)
(* source by the reference definition.  While a module is being resolved,   *)
(* the package commands of another process run on the same files.           *)
(***************************************************************************)
EXTENDS Integers, Sequences, SequencesExt, FiniteSets, TLC

\* A program is its files, from paths to texts, "main" the entry file; what is
\* done with it, "format" or "compile"; the MAX_NESTING_DEPTH it is read with; and
\* its project: what Packages needs, the commands that the other process runs,
\* and what the registries serve later.
CONSTANTS Programs, IntMax, WordMax, MaxCallFrames, MaxStackSlots, MaxHandlerFrames,
          SliceFuel

L == INSTANCE Lexer
P == INSTANCE Parser
D == INSTANCE Desugar
F == INSTANCE Formatter
I == INSTANCE Infer
C == INSTANCE Compiler
V == INSTANCE Verifier
S == INSTANCE StackVm
R == INSTANCE RegisterVm
M == INSTANCE Meaning
K == INSTANCE Packages

VARIABLES
  given,    \* the program
  phase,    \* what happens next, or how the program was rejected
  unit,     \* the text being read: path, text, place, tokens, comments, parsed
  draft,    \* the trees and comments of the text before it was formatted
  todo,     \* what is left of the pass
  inf,      \* the type checker
  loading,  \* loading_imports
  sources,  \* the files read: their texts and trees, as parsed and desugared
  comp,     \* the code generator
  seen,     \* compiled_imports; for the reference, the files evaluated
  prog,     \* the compiled program
  ver, vm,  \* the verifier and the stack machine
  tr, reg,  \* the register translation and the machine that uses it
  ref,      \* the reference's outcome so far
  world,    \* the lockfile, the module cache and what the registries serve
  ld,       \* the module loader of this compilation
  cmd,      \* the package command of the other process
  commands  \* the commands it has not run yet

packaged == <<world, ld, cmd, commands>>
vars == <<given, phase, unit, draft, todo, inf, loading, sources, comp, seen, prog, ver, vm, tr, reg, ref,
          world, ld, cmd, commands>>

-----------------------------------------------------------------------------
Unit(path, text) ==
  [path |-> path, text |-> text, at |-> 1, tokens |-> <<>>, comments |-> <<>>,
   parsed |-> [es |-> <<>>, s |-> P!New(<<>>, 0)]]
NoUnit == Unit("", "")
NoDraft == [trees |-> <<>>, comments |-> <<>>, printed |-> <<>>, ok |-> TRUE]
NoProgram == [main |-> <<>>, locals |-> 0, functions |-> <<>>, globals |-> <<>>, effects |-> {}]
NoFiles == [x \in {} |-> 0]

\* An entry of todo: a declaration, or what follows the ones before it.
Item(k, d, s) == [k |-> k, d |-> d, s |-> s]
Nothing == L!Leaf("None")
DeclItems(ds) == [i \in DOMAIN ds |-> Item("decl", ds[i], 0)]

Init ==
  /\ given \in Programs
  /\ phase = "lex"
  /\ unit = Unit("main", given.files["main"])
  /\ draft = NoDraft
  /\ todo = <<>>
  /\ inf = I!New
  /\ loading = {"main"}
  /\ sources = NoFiles
  /\ comp = C!New(<<>>)
  /\ seen = {}
  /\ prog = NoProgram
  /\ ver = V!NewVerifier(NoProgram)
  /\ vm = S!NewVm(NoProgram)
  /\ tr = R!NewTranslation(NoProgram, 0, <<>>)
  /\ reg = R!NewMachine(NoProgram)
  /\ ref = M!Ok("string_length" :> S!BuiltinV("string_length"))
  /\ world = given.project.world
  /\ ld = K!NewLoader
  /\ cmd = K!Idle
  /\ commands = given.project.commands

-----------------------------------------------------------------------------
(* Reading a file                                                           *)

\* Token i and the one after it are a use of a file (first_use_path).
HasUse(tokens) ==
  \E i \in 1..Len(tokens) - 1 : tokens[i].t = "Use" /\ tokens[i + 1].t = "StringLit"
\* Named imports resolve to pinned modules (ResolvedImport.is_remote), except
\* those of the builtin package; the path of a use starts with a dot.
IsRemote(path) ==
  L!Ch(path, 1) \notin {".", "_"} /\ \E i \in 1..Len(path) : L!Ch(path, i) = "."

\* A formatted text is read without a limit.
LimitFor(u) == IF u.path = "formatted" THEN 1000 ELSE given.max

\* The next token, after the comments that were skipped; at the end, a pinned
\* module that uses files is refused.
Lexed(comments, t) ==
  LET tokens == Append(unit.tokens, t)
  IN /\ unit' = [unit EXCEPT !.tokens = tokens, !.comments = comments, !.at = t.z,
                             !.parsed = IF t.t = "Eof" THEN [es |-> <<>>, s |-> P!New(tokens, LimitFor(unit))]
                                                       ELSE @]
     /\ phase' = CASE t.t = "Error" -> "lex error"
                   [] t.t = "Eof" /\ IsRemote(unit.path) /\ HasUse(tokens) -> "import error"
                   [] t.t = "Eof" /\ ~(IsRemote(unit.path) /\ HasUse(tokens)) -> "parse"
                   [] OTHER -> "lex"
LexFrom(skipped) ==
  Lexed(skipped.seen, IF skipped.p = 0 THEN L!LexError(unit.at) ELSE L!NextToken(unit.text, skipped.p))
Lex ==
  /\ phase = "lex"
  /\ LexFrom(L!Skip(unit.text, unit.at, unit.comments))
  /\ UNCHANGED <<given, draft, todo, inf, loading, sources, comp, seen, prog, ver, vm, tr, reg, ref, packaged>>

\* The next declaration (parse_program); after the last one the trees are
\* checked against the limit.
Parse ==
  /\ phase = "parse"
  /\ IF P!At(unit.parsed.s, "Eof")
     THEN /\ phase' = CASE unit.parsed.s.err \/ ~P!CheckNesting(unit.parsed.es, LimitFor(unit)) -> "parse error"
                        [] OTHER -> IF unit.path = "formatted" THEN "formatted"
                                    ELSE IF given.task = "format" THEN "format" ELSE "load"
          /\ UNCHANGED unit
     ELSE /\ unit' = [unit EXCEPT !.parsed = P!TopDecl(@)]
          /\ UNCHANGED phase
  /\ UNCHANGED <<given, draft, todo, inf, loading, sources, comp, seen, prog, ver, vm, tr, reg, ref, packaged>>

\* format_source; its result is read again.
Reread(out) ==
  /\ draft' = [trees |-> unit.parsed.es, comments |-> unit.comments, printed |-> out.printed,
               ok |-> out.found = unit.comments]
  /\ phase' = IF out.ok THEN "lex" ELSE "refused"
  /\ unit' = IF out.ok THEN Unit("formatted", out.text) ELSE unit
Format ==
  /\ phase = "format"
  /\ Reread(F!FormatSource(unit.text, unit.tokens, unit.parsed.es))
  /\ UNCHANGED <<given, todo, inf, loading, sources, comp, seen, prog, ver, vm, tr, reg, ref, packaged>>

\* desugar_program and fold_program.  The declarations of an imported file
\* come next; the importer's declaration is suspended until they are done.
Loaded(trees) ==
  LET path == unit.path
      end == Item("endimport", Nothing, [path |-> path, pending |-> inf.pending, depth |-> inf.depth])
  IN /\ sources' = (path :> [text |-> unit.text, parsed |-> unit.parsed.es, trees |-> trees]) @@ sources
     /\ todo' = DeclItems(trees) \o (IF path = "main" THEN <<>> ELSE <<end>>) \o todo
     /\ loading' = loading \cup {path}
Load ==
  /\ phase = "load"
  /\ Loaded(D!FoldProgram(D!DesugarProgram(unit.parsed.es)))
  /\ inf' = [inf EXCEPT !.pending = <<>>, !.depth = 0]
  /\ phase' = "type"
  /\ unit' = NoUnit
  /\ UNCHANGED <<given, draft, comp, seen, prog, ver, vm, tr, reg, ref, packaged>>

-----------------------------------------------------------------------------
(* Pass 1 (infer_decl_pass)                                                 *)

Current == Head(todo)
IsImport(d) == d.k \in {"Use", "Import"}
Typing(k) == phase = "type" /\ todo # <<>> /\ Current.k = k

\* The type checker's next state and what is left to do.
Typed(s, rest) ==
  /\ inf' = s
  /\ todo' = rest
  /\ phase' = IF s.err THEN "type error" ELSE "type"
  /\ UNCHANGED <<given, unit, draft, sources, seen, prog, ver, vm, tr, reg, ref, packaged>>

InferDecl ==
  /\ Typing("decl") /\ ~IsImport(Current.d) /\ Current.d.k # "Local"
  /\ Typed(I!InferDecl(inf, Current.d), Tail(todo))
  /\ UNCHANGED <<loading, comp>>

\* local: one declaration to the type checker, of private and public ones.
InferLocal ==
  /\ Typing("decl") /\ Current.d.k = "Local"
  /\ Typed(I!BeginDeclaration(inf),
           DeclItems(Current.d.c) \o <<Item("endlocal", Nothing, 0)>> \o Tail(todo))
  /\ UNCHANGED <<loading, comp>>
InferEndLocal ==
  /\ Typing("endlocal")
  /\ Typed(I!EndDeclaration(inf), Tail(todo))
  /\ UNCHANGED <<loading, comp>>

\* A named import is resolved first, in both passes (resolve_named_import): the
\* loader's accesses, between those of the other process.
Importing(k) == phase \in {"type", "code"} /\ todo # <<>> /\ Current.k = "decl" /\ Current.d.k = k
BeginResolve ==
  /\ Importing("Import") /\ ld.at = "idle"
  /\ ld' = K!ResolveNamed(given.project, ld, Current.d.v)
  /\ UNCHANGED <<given, phase, unit, draft, todo, inf, loading, sources, comp, seen, prog, ver, vm, tr, reg, ref,
                 world, cmd, commands>>
Accessing == ld.at \notin {"idle", "done", "failed"}
Accessed(r) == world' = r.w /\ ld' = r.ld
Resolve ==
  /\ Accessing
  /\ \E works \in BOOLEAN : Accessed(K!LoaderStep(given.project, world, ld, works))
  /\ UNCHANGED <<given, phase, unit, draft, todo, inf, loading, sources, comp, seen, prog, ver, vm, tr, reg, ref,
                 cmd, commands>>
ResolveFailed ==
  /\ phase \in {"type", "code"} /\ ld.at = "failed"
  /\ phase' = "import error"
  /\ UNCHANGED <<given, unit, draft, todo, inf, loading, sources, comp, seen, prog, ver, vm, tr, reg, ref, packaged>>
\* The import can be read: a use, or a module that is resolved.
Resolved == Importing("Use") \/ ld.at = "done"
Forget == ld' = [K!NewLoader EXCEPT !.lock = ld.lock] /\ UNCHANGED <<world, cmd, commands>>

\* The next access of the command; the next command, the one before it having
\* ended or been killed; the registries serve something else.
Advanced(r) == world' = r.w /\ cmd' = r.c
RunCommand ==
  /\ Accessing /\ cmd.at # "ended"
  /\ \E works \in BOOLEAN : Advanced(K!CommandStep(given.project, world, cmd, works))
  /\ UNCHANGED <<given, phase, unit, draft, todo, inf, loading, sources, comp, seen, prog, ver, vm, tr, reg, ref,
                 ld, commands>>
NextCommand ==
  /\ Accessing /\ commands # <<>>
  /\ cmd' = K!StartCommand(given.project, world, Head(commands))
  /\ commands' = Tail(commands)
  /\ UNCHANGED <<given, phase, unit, draft, todo, inf, loading, sources, comp, seen, prog, ver, vm, tr, reg, ref,
                 world, ld>>
Republish ==
  /\ Accessing /\ world.registry # given.project.later
  /\ world' = [world EXCEPT !.registry = given.project.later]
  /\ UNCHANGED <<given, phase, unit, draft, todo, inf, loading, sources, comp, seen, prog, ver, vm, tr, reg, ref,
                 ld, cmd, commands>>

\* infer_import_source: a file is read once; one that is being read is a cycle.
Exposing(d) == IF d.c = <<>> THEN <<>> ELSE <<Item("expose", d, 0)>>
Readable(path) == Importing("Import") \/ path \in DOMAIN given.files
TextOf(path) == IF Importing("Import") THEN ld.text ELSE given.files[path]
InferImport ==
  /\ Typing("decl") /\ IsImport(Current.d) /\ Resolved
  /\ LET path == Current.d.v
     IN /\ phase' = CASE ~Readable(path) \/ path \in loading -> "import error"
                      [] Readable(path) /\ path \notin loading -> IF path \in DOMAIN sources THEN "type" ELSE "lex"
        /\ unit' = IF phase' = "lex" THEN Unit(path, TextOf(path)) ELSE unit
        /\ todo' = Exposing(Current.d) \o Tail(todo)
  /\ Forget
  /\ UNCHANGED <<given, draft, inf, loading, sources, comp, seen, prog, ver, vm, tr, reg, ref>>

InferEndImport ==
  /\ Typing("endimport")
  /\ Typed([inf EXCEPT !.pending = Current.s.pending, !.depth = Current.s.depth], Tail(todo))
  /\ loading' = loading \ {Current.s.path}
  /\ UNCHANGED comp

\* infer_named_import_with_names, the names from i on: what the type checker
\* and the code generator know after it.
Qualified(module, name) ==
  LET dots == {i \in 1..Len(module) : L!Ch(module, i) = "."}
      last == IF dots = {} THEN 0 ELSE L!MaxOf(dots)
  IN SubSeq(module, last + 1, Len(module)) \o "." \o name
RECURSIVE Exposed(_, _, _)
Exposed(d, i, r) ==
  LET name == d.c[i].v
      q == Qualified(d.v, name)
      taken == name \in DOMAIN r.inf.constructors \/ I!HasValue(r.inf, name)
  IN IF i > Len(d.c) \/ r.err THEN r
     ELSE IF taken \/ ~(q \in DOMAIN r.inf.constructors \/ I!HasValue(r.inf, q))
     THEN [r EXCEPT !.err = TRUE]
     ELSE Exposed(d, i + 1, IF q \in DOMAIN r.inf.constructors
                            THEN [r EXCEPT !.inf = I!BindConstructorAlias(@, name, q),
                                           !.tags = (name :> r.inf.tags[q]) @@ @]
                            ELSE [r EXCEPT !.inf = I!BindValueAlias(@, name, q)])
InferExposed ==
  /\ Typing("expose")
  /\ LET r == Exposed(Current.d, 1, [inf |-> inf, tags |-> comp.tags, err |-> FALSE])
     IN /\ inf' = r.inf
        /\ comp' = [comp EXCEPT !.tags = r.tags]
        /\ phase' = IF r.err THEN "import error" ELSE "type"
  /\ todo' = Tail(todo)
  /\ UNCHANGED <<given, unit, draft, loading, sources, seen, prog, ver, vm, tr, reg, ref, packaged>>

EndPass1 ==
  /\ phase = "type" /\ todo = <<>>
  /\ phase' = "code"
  /\ todo' = DeclItems(sources["main"].trees)
  /\ comp' = [comp EXCEPT !.types = inf.types]
  /\ UNCHANGED <<given, unit, draft, inf, loading, sources, seen, prog, ver, vm, tr, reg, ref, packaged>>

-----------------------------------------------------------------------------
(* Pass 2 (compile_decl)                                                    *)

Coding(k) == phase = "code" /\ todo # <<>> /\ Current.k = k
Coded(c, rest) ==
  /\ comp' = c
  /\ todo' = rest
  /\ phase' = IF c.err THEN "code error" ELSE "code"
  /\ UNCHANGED <<given, unit, draft, inf, loading, sources, prog, ver, vm, tr, reg, ref>>

CompileDecl ==
  /\ Coding("decl") /\ ~IsImport(Current.d) /\ Current.d.k # "Local"
  /\ Coded(C!CompileDecl(comp, Current.d), Tail(todo))
  /\ UNCHANGED <<seen, packaged>>

\* The three parts of CompileLocal, a declaration at a time.
CompileLocal ==
  /\ Coding("decl") /\ Current.d.k = "Local"
  /\ LET d == Current.d
     IN Coded(C!BeginScope(comp),
              DeclItems(SubSeq(d.c, 1, d.n)) \o <<Item("outer", Nothing, 0)>>
                \o DeclItems(SubSeq(d.c, d.n + 1, Len(d.c))) \o <<Item("endlocal", Nothing, 0)>> \o Tail(todo))
  /\ UNCHANGED <<seen, packaged>>
CompileLocalBody ==
  /\ Coding("outer")
  /\ Coded(C!Deeper(comp, -1), Tail(todo))
  /\ UNCHANGED <<seen, packaged>>
CompileEndLocal ==
  /\ Coding("endlocal")
  /\ Coded(C!DropPrivate(comp, C!Ctx(comp).depth + 1), Tail(todo))
  /\ UNCHANGED <<seen, packaged>>

\* compile_import_source
CompileImport ==
  /\ Coding("decl") /\ IsImport(Current.d) /\ Resolved
  /\ LET path == Current.d.v
         decls == IF path \in seen THEN <<>> ELSE DeclItems(sources[path].trees)
     IN /\ Coded(comp, decls \o Exposing(Current.d) \o Tail(todo))
        /\ seen' = seen \cup {path}
  /\ Forget

\* compile_named_import_with_names
RECURSIVE Aliased(_, _, _)
Aliased(c, d, i) ==
  LET name == d.c[i].v
      q == Qualified(d.v, name)
      bound == C!SetGlobal(C!GetVar(c, q), name)
  IN IF i > Len(d.c) THEN c
     ELSE Aliased(IF q \in DOMAIN bound.protos THEN C!KnowProto(bound, name, bound.protos[q]) ELSE bound, d, i + 1)
CompileExposed ==
  /\ Coding("expose")
  /\ Coded(Aliased(comp, Current.d, 1), Tail(todo))
  /\ UNCHANGED <<seen, packaged>>

\* Halt ends the main code.
EndPass2 ==
  /\ phase = "code" /\ todo = <<>>
  /\ LET x == C!Ctx(C!Emit(comp, C!Op("Halt")))
     IN prog' = [main |-> x.code, locals |-> x.max, functions |-> comp.functions, globals |-> comp.names,
                 effects |-> {comp.effects[e] : e \in DOMAIN comp.effects}]
  /\ ver' = V!NewVerifier(prog')
  /\ phase' = "verify"
  /\ seen' = {}
  /\ UNCHANGED <<given, unit, draft, todo, inf, loading, sources, comp, vm, tr, reg, ref, packaged>>

-----------------------------------------------------------------------------
(* Verification, execution and the reference                                *)

Verify ==
  /\ phase = "verify"
  /\ IF ver.done
     THEN /\ phase' = IF ver.ok THEN "run" ELSE "verify error"
          /\ vm' = S!NewVm(prog)
          /\ UNCHANGED ver
     ELSE /\ ver' = V!VerifyStep(ver, prog)
          /\ UNCHANGED <<phase, vm>>
  /\ UNCHANGED <<given, unit, draft, todo, inf, loading, sources, comp, seen, prog, tr, reg, ref, packaged>>

Run ==
  /\ phase = "run"
  /\ IF vm.state = "run"
     THEN /\ vm' = S!Step(vm, prog)
          /\ UNCHANGED <<phase, tr>>
     ELSE /\ phase' = "translate"
          /\ tr' = R!NewTranslation(prog, 0, <<>>)
          /\ UNCHANGED vm
  /\ UNCHANGED <<given, unit, draft, todo, inf, loading, sources, comp, seen, prog, ver, reg, ref, packaged>>

\* RegisterCode.translate
Translate ==
  /\ phase = "translate"
  /\ IF R!AllTranslated(tr, prog)
     THEN /\ phase' = "rerun"
          /\ reg' = R!NewMachine(prog)
          /\ UNCHANGED tr
     ELSE /\ tr' = R!TranslateStep(tr, prog)
          /\ UNCHANGED <<phase, reg>>
  /\ UNCHANGED <<given, unit, draft, todo, inf, loading, sources, comp, seen, prog, ver, vm, ref, packaged>>

Rerun ==
  /\ phase = "rerun"
  /\ IF reg.vm.state = "run"
     THEN /\ reg' = R!MachineStep(reg, tr.done, prog)
          /\ UNCHANGED <<phase, todo>>
     ELSE /\ phase' = IF vm.state = "overflow" THEN "end" ELSE "mean"
          /\ todo' = DeclItems(sources["main"].parsed)
          /\ UNCHANGED reg
  /\ UNCHANGED <<given, unit, draft, inf, loading, sources, comp, seen, prog, ver, vm, tr, ref, packaged>>

\* An import means the declarations of its file, the first time.
RECURSIVE Named(_, _, _)
Named(env, d, i) ==
  IF i > Len(d.c) THEN env ELSE Named((d.c[i].v :> env[Qualified(d.v, d.c[i].v)]) @@ env, d, i + 1)
Mean ==
  /\ phase = "mean" /\ todo # <<>>
  /\ LET d == Current.d
         file == IF d.v \in seen THEN <<>> ELSE DeclItems(sources[d.v].parsed)
         import == Current.k = "decl" /\ IsImport(d)
     IN /\ todo' = (IF import THEN file \o Exposing(d) ELSE <<>>) \o Tail(todo)
        /\ seen' = IF import THEN seen \cup {d.v} ELSE seen
        /\ ref' = CASE ref.t # "ok" \/ import -> ref
                    [] ref.t = "ok" /\ Current.k = "expose" -> M!Ok(Named(ref.v, d, 1))
                    [] OTHER -> M!Declare(d, ref.v, <<>>)
  /\ UNCHANGED <<given, phase, unit, draft, inf, loading, sources, comp, prog, ver, vm, tr, reg, packaged>>
End ==
  /\ phase = "mean" /\ todo = <<>>
  /\ phase' = "end"
  /\ UNCHANGED <<given, unit, draft, todo, inf, loading, sources, comp, seen, prog, ver, vm, tr, reg, ref, packaged>>

Next ==
  \/ Lex \/ Parse \/ Format \/ Load
  \/ BeginResolve \/ Resolve \/ ResolveFailed \/ RunCommand \/ NextCommand \/ Republish
  \/ InferDecl \/ InferLocal \/ InferEndLocal \/ InferImport \/ InferEndImport \/ InferExposed \/ EndPass1
  \/ CompileDecl \/ CompileLocal \/ CompileLocalBody \/ CompileEndLocal \/ CompileImport
  \/ CompileExposed \/ EndPass2
  \/ Verify \/ Run \/ Translate \/ Rerun \/ Mean \/ End

Spec == Init /\ [][Next]_vars

-----------------------------------------------------------------------------
(* Properties                                                               *)

Finished == phase = "end"

\* A declaration read without a limit that the limit refuses anyway.
Refused(r) == r.s.err \/ ~P!CheckNesting(r.es, given.max)

\* The parser's own depth count (nested, begin_chain ... end_chain) refuses no
\* program whose tree the limit allows, and lets no tree grow past twice the
\* limit before check_decl_nesting walks it.
NestingBounded ==
  phase \in {"parse error", "load", "format"} /\ unit.path # "formatted" =>
    LET es == unit.parsed.es
        from == IF Len(es) = 1 THEN 1 ELSE es[Len(es) - 1].p[2] + 1
    IN IF unit.parsed.s.err
       THEN Refused(P!TopDecl([es |-> <<>>, s |-> [P!New(unit.tokens, 1000) EXCEPT !.pos = from]]))
       ELSE P!CheckNesting(es, 2 * given.max)

\* What hiko fmt prints reads back as the same declarations up to parentheses,
\* with every comment of the source in it once and in order (format_source,
\* pretty_decl_list).
FormatFaithful ==
  /\ phase = "formatted" =>
       /\ [i \in DOMAIN unit.parsed.es |-> L!NoParens(unit.parsed.es[i])]
            = [i \in DOMAIN draft.trees |-> L!NoParens(draft.trees[i])]
       /\ draft.ok /\ draft.printed = [i \in DOMAIN draft.comments |-> i]
       /\ Len(unit.comments) = Len(draft.comments)
  /\ unit.path = "formatted" => phase \notin {"lex error", "parse error"}

\* The levels that type variables carry decide generalization exactly as the
\* variables free in the environment would (lower_levels, check_levels_agree).
LevelsAgree == inf.agree

\* A module as Packages names it; the texts that were ever at a URL.
Module(path) == <<K!PackageOf(path), K!ModuleOf(path)>>
Pins(lock, x, text) == x \in K!ModulesOf(lock) /\ K!PinIn(lock, x) = K!Digest(text)
Offered(url) ==
  {r.modules[url] : r \in {s \in {given.project.world.registry, given.project.later} : url \in DOMAIN s.modules}}
    \cup {given.project.world.cache[x] : x \in {y \in DOMAIN given.project.world.cache : y[1] = url}}

\* Every module that is compiled is what one lockfile pins, however the lockfile
\* and the cache change meanwhile (ensure_import_loader, verify_blake3); so is
\* what build-vm seals.  An entry of the cache that the loader or a command
\* wrote matches its name, and a lockfile that install wrote pins only texts
\* that were served or cached at their URLs (download_modules).
PinsKept ==
  /\ \A path \in DOMAIN sources :
       IsRemote(path) =>
         IF given.project.sealed
         THEN K!Digest(sources[path].text) = K!NormalizeBlake3(given.project.embedded[path].hash)
         ELSE Pins(ld.lock, Module(path), sources[path].text)
  /\ \A x \in DOMAIN cmd.sources : Pins(cmd.ld.lock, x, cmd.sources[x])
  /\ \A x \in DOMAIN world.cache :
       \/ K!Digest(world.cache[x]) = x[2]
       \/ x \in DOMAIN given.project.world.cache /\ world.cache[x] = given.project.world.cache[x]
  /\ world.lock # given.project.world.lock =>
       \A x \in K!ModulesOf(world.lock) :
         K!PinIn(world.lock, x) \in {K!Digest(t) : t \in Offered(K!UrlIn(world.lock, x))}

\* What the type checker accepts is compiled, what the compiler emits the
\* verifier accepts (compile_with_ctx, verify_program), and a compiled program
\* never fails in the machine for a reason the type checker or the verifier
\* excludes: an operand of the wrong kind, a missing operand, an undefined
\* global, a handler whose frame is gone, a match that check_exhaustiveness
\* accepted and that falls through (dispatch_stack).
TypedRuns ==
  /\ phase \notin {"code error", "verify error"}
  /\ vm.state \notin {"type", "underflow", "undefined", "inactive", "code", "match"}

\* Whenever an instruction runs, its frame has at least the operands the
\* verifier derived for that instruction (verify_stack_effects).
DepthsCovered ==
  phase = "run" /\ vm.state = "run" =>
    LET f == S!FrameOf(vm)
        place == <<f.proto, f.ip>>
    IN place \in DOMAIN ver.depths => S!Depth(vm) - f.base >= ver.depths[place]

\* A program that runs to its end leaves nothing behind: no operand, and no
\* handler installed or hidden (end_scope_keep_result, RemoveHandler, Return).
NothingLeft ==
  vm.state = "done" => vm.stack = <<>> /\ vm.handlers = <<>> /\ vm.hidden = <<>>

\* With register code the machine ends in the same way as the stack machine
\* alone, with the same globals, and has charged the same work; a program that
\* overflows the stack does so in both, the register machine having charged at
\* least as much (RegisterCode.translate, dispatch_register).
MachinesAgree ==
  phase \in {"mean", "end"} =>
    /\ reg.vm.state = vm.state
    /\ reg.vm.globals = vm.globals
    /\ IF vm.state = "overflow" THEN reg.vm.work >= vm.work ELSE reg.vm.work = vm.work

\* The compiled program ends as the source means: it fails for the same reason,
\* or every global that can be named has the value of its name (compile_decl and all it calls,
\* dispatch_stack).  Only the machine's own limits may end it early.
MeaningPreserved ==
  Finished /\ vm.state # "overflow" =>
    IF ref.t = "ok"
    THEN /\ vm.state = "done"
         /\ \A n \in DOMAIN ref.v \cap DOMAIN comp.bindings :
              M!Seen(vm.globals[C!SlotOf(comp, n) + 1]) = M!Seen(ref.v[n])
    ELSE vm.state = ref.why

=============================================================================
