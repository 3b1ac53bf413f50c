---------------------------- MODULE MCToolchain ----------------------------
EXTENDS Toolchain

\* The programs: expressions of type int in contexts of that type, declarations
\* in every order, structures, files that import each other, deep texts, and
\* texts with comments in every place.
None == [x \in {} |-> 0]
Registries == [packages |-> None, modules |-> None]
NoProject ==
  [manifest |-> [state |-> "missing", dependencies |-> None, registries |-> None], root |-> None, sealed |-> FALSE,
   embedded |-> None, builtins |-> None, commands |-> <<>>, later |-> Registries,
   world |-> [lock |-> K!NoLock, cache |-> None, registry |-> Registries]]
Project(files, task, max) == [files |-> files, task |-> task, max |-> max, project |-> NoProject]
Compiled(text) == Project("main" :> text, "compile", 40)
RECURSIVE Repeated(_, _), Written(_)
Repeated(text, n) == IF n = 0 THEN "" ELSE text \o Repeated(text, n - 1)
Written(texts) == IF texts = <<>> THEN "" ELSE Head(texts) \o " " \o Written(Tail(texts))

-----------------------------------------------------------------------------
Prelude == "effect Ask of int effect Quit of int datatype t = A | B of int fun twice f x = f (f x) "
             \o "fun swap (a, b) = (b, a) val base = 2 "
Atoms == {"1", "(perform Quit 2)", "(base / 0)", "(base * 99)"}
Pure ==
  {<<"2 + ", "">>,
   <<"let val a = ", " val (b, _) = (a + 1, a) in a * b end">>,
   <<"case B ", " of A => 0 | B 5 => 7 | B n => n - 1">>,
   <<"if ", " < 4 andalso base <> y then 1 else base">>,
   <<"(fn x => x + ", ") 2">>,
   <<"twice (fn z => z + ", ") 1">>,
   <<"let val c = ", " val (a, b) = swap (1, c) in a - b end">>,
   <<"case y :: ", " :: [1] of [] => 0 | x :: z :: _ => x + z | _ => 9">>,
   <<"let fun f 0 = 1 | f n = n + f (n - 1) in f ", " end">>,
   <<"let fun f g = g 1 + ", " val q = fn x => x + y in f q end">>}
Handling ==
  {<<"handle 1 + perform Ask ", " with return v => v | Ask p k => resume k (p + 1)">>,
   <<"handle 1 + perform Ask 1 with return v => v | Ask p k => resume k (p + ", ")">>,
   <<"handle 1 + perform Quit ", " with return v => v | Quit p k => p * 2">>,
   <<"handle ", " with return v => v + 1 | Ask p k => resume k p | Quit p k => p">>}
Contexts == Pure \cup Handling
In(c, e) == c[1] \o e \o c[2]
Within(c, e) == "(" \o In(c, e) \o ")"
Exprs == {In(c, Within(d, "base")) : c \in Contexts, d \in Contexts}
           \cup {In(c, a) : c \in Contexts, a \in Atoms}
           \cup {In(c, Within(d, "(perform Quit 2)")) : c \in Handling, d \in Handling}
Nested == {Compiled(Prelude \o "fun h y = " \o e \o " val r = h 0") : e \in Exprs}
            \cup {Compiled(Prelude \o "val y = 2 val r = 1 + " \o Within(c, "base")) : c \in Contexts}

\* Names bound again, by values and functions of other types, while functions
\* compiled before refer to them.
Rebindings ==
  {"val a = 2", "val a = f a", "fun f x = a + x", "fun f (p, q) = p - q and h x = f (x, a) val f = h",
   "val g = f val b = g 3", "val (a, b) = (b, a)", "val rec f = fn x => if x < 2 then x else f (x - 1)",
   "local val c = 5 in val a = c + b end"}
Sequences ==
  {Compiled("val a = 1 val b = 4 fun f x = x " \o x \o " " \o y \o " " \o z \o " val z = (a, f a)") :
     x \in Rebindings, y \in Rebindings, z \in {"", "val a = f a", "val g = f val b = g 3"}}

\* Functions on integers, which the register machine runs: lets, branches that
\* join with values pending, direct, self and tail calls, calls into and out of
\* functions that stay on the stack machine, and both limits.
Integral ==
  {"(let val a = p + 1 val b = a val c = q in b * 2 - (let val d = b in d - c end) end)",
   "(1 + (if p < q then p else 2) * q)", "(if p >= q andalso q > 1 then (let val a = q in a end) else p * 99)",
   "(if p <= 0 then q else 1 + f (p - 1, q))", "(if p > 4 then q else f (p + 1, p))", "(if q > 5 then 7 else g (q + p))",
   "(h p + (if q = 2 then h q else q))", "(case (p, q) of (0, n) => n | (m, n) => m + n * 2)", "(1 + f (p, q + 1))",
   "(let fun l n = if n < 2 then n else 1 + l (n - 2) in l (p + q) end)", "(let fun l n = if n > 5 then n else l (n + 2) in l p end)"}
Around == {<<"", "">>, <<"1 - ", "">>, <<"let val z = p in ", " + z end">>}
Registered ==
  {Compiled("fun h x = string_length \"ab\" + x fun g n = if n < 9 then g (n + 3) else h n - n fun f (p, q) = " \o In(c, e)
            \o " fun k (x, y) = if x > y then f (y, x) else f (x, y) val r = k (3, 1) val s = k (1, 2)") :
     c \in Around, e \in Integral}

\* Structures, sealed and not, and what the type checker refuses.
Others ==
  {Compiled(t) : t \in
     {"signature S = sig type t val mk : int -> t val get : t -> int end structure M :> S = struct datatype t = T of int fun mk x = T x fun get (T x) = x end val q = M.get (M.mk 3)",
      "signature S = sig val get : int -> int end structure M : S = struct val k = 2 fun get x = x + k end val q = M.get M.k",
      "signature S = sig val get : int -> int end structure M : S = struct val k = 2 fun get x = x + k end val k = 5 val q = M.get k",
      "signature S = sig val get : int -> string end structure M :> S = struct fun get x = x + 1 end",
      "structure M = struct datatype 'a o = N | S of 'a fun or d N = d | or d (S x) = x end val q = M.or 1 (M.S 2) val r = M.or true M.N",
      "datatype 'a opt = N | S of 'a fun map f N = N | map f (S x) = S (f x) val a = map (fn x => x * 2) (S 3) val b = map (fn x => (x, a)) (S \"s\")",
      "type pair = int * int fun sum ((a, b) : pair) = a + b val s = sum (1, 2) val t = let val f = fn a => a in (f 1, f true) end",
      "fun even 0 = true | even n = odd (n - 1) and odd 0 = false | odd n = even (n - 1) val e = (even 4, odd 6)",
      "val w = 0w200 - 0w100 val m = ~5 mod 3 val d = 7 / ~2 val s = \"a\" ^ \"b\" val n = string_length s",
      "val a = ~100 - 27 val b = a - 1 val d = b / ~1", "val x = 0w200 val y = x + x", "val z = ~127 val a = ~(z - 1)",
      "val k = fn x => fn y => fn z => (x, y, z) val t = k 1 true \"s\" val xs = 1 :: 2 :: [] val c = case xs of l as (h :: _) => (h, l) | [] => (0, xs)",
      "fun loop n = loop (n + 1) + 1 val r = loop 0",
      "fun g x = let val y = x in fn z => (y, z) end val p = g 1 2 val h = let val r = [] in r end",
      "fun f x = let fun g y = (case [x, y] of _ => y) in (g, g x) end val r = let val (_, x) = f 1 in x end",
      "fun f x = let fun g y = (case [x, (y, 1)] of _ => y) in g end val r = f (2, 1) 3", "fun f 0 = 1 | f 1 = 2 val r = f 3",
      "fun f true = 1", "fun f x y = 1 | f x = 2", "val bad = 1 + \"a\"", "fun f x = x x", "val x = y", "val r = #\"a\" val s = 200"}}

\* Files: a use, a cycle, a missing file.
Lib == "structure M = struct datatype c = C of int val one = 1 fun inc x = x + one end"
Files ==
  {Project(f, "compile", 40) : f \in
     {("main" :> "use \"./a\" use \"./b\" val y = f x") @@ ("./a" :> "val x = 2 fun f z = z * 5") @@
        ("./b" :> "use \"./a\" val x = f x"),
      ("main" :> "val x = 1 use \"./a\" val y = x") @@ ("./a" :> "use \"./b\" val q = 1") @@ ("./b" :> "use \"./a\" val q = 2"),
      ("main" :> "use \"./a\" val y = x") @@ ("./a" :> "val x = z"),
      ("main" :> "use \"./c\" val x = 1")}}

\* Modules: the package Pkg of one registry, its lockfile and cache.
Hash(text) == [form |-> "prefixed", digest |-> K!Digest(text)]
Bare(text) == [form |-> "bare", digest |-> K!Digest(text)]
Origin == [at |-> "origin", trusted |-> TRUE]
Plain == [at |-> "plain", trusted |-> FALSE]
Base == K!BaseUrl(Origin, "Pkg", "1.0")
Hashes(texts) == [m \in DOMAIN texts |-> Hash(texts[m])]
PackageLock(base, hashes) == [state |-> "read", schema |-> 1, packages |-> "Pkg" :> [version |-> "1.0", base |-> base, modules |-> hashes]]
LockOf(texts) == PackageLock(Base, Hashes(texts))
CacheOf(texts) ==
  [x \in {K!CachePath(K!ModuleUrl(Base, m), K!Digest(texts[m])) : m \in DOMAIN texts} |-> texts[x[1][2]]]
Served(hashes, texts) ==
  [packages |-> Base :> [name |-> "Pkg", version |-> "1.0", modules |-> hashes],
   modules |-> [u \in {K!ModuleUrl(Base, m) : m \in DOMAIN texts} |-> texts[u[2]]]]
ServedOf(texts) == Served(Hashes(texts), texts)
Manifest ==
  [state |-> "read", dependencies |-> "Pkg" :> [version |-> "1.0", registry |-> "main"], registries |-> "main" :> Origin]
Locked(lock, cache, registry) ==
  [NoProject EXCEPT !.manifest = Manifest, !.later = registry,
                    !.world = [lock |-> lock, cache |-> cache, registry |-> registry]]
Importer(text, project) == [Project("main" :> text, "compile", 40) EXCEPT !.project = project]
Cached(texts) == Locked(LockOf(texts), CacheOf(texts), Registries)

\* Imports twice, of names, of a module that is missing, uses a file, imports
\* itself or another; builtin and sealed modules.
Imports ==
  {Importer(t, Cached("M" :> Lib)) : t \in
     {"import Pkg.M val y = M.inc 4 import Pkg.M", "import Pkg.M (inc, C, one) val y = case C (inc one) of C n => inc n",
      "import Pkg.M (inc) val inc = inc 1 val z = M.inc inc", "val inc = 1 import Pkg.M (inc)", "import Pkg.M (dec)",
      "import Pkg.N", "import Q.M", "import __Other.M"}}
    \cup {Importer("import Pkg.M val x = 1", Cached("M" :> t)) : t \in {"use \"./a\"", "import Pkg.M"}}
    \cup {Importer("import Pkg.M val y = M.two", Cached(("M" :> "import Pkg.N structure M = struct val two = N.one + 1 end")
                                                          @@ ("N" :> "structure N = struct val one = 1 end"))),
          Importer("import __Builtin.P val y = P.len \"ab\"",
                     [NoProject EXCEPT !.builtins = "P" :> [enabled |-> TRUE, text |-> "structure P = struct fun len s = string_length s end"]]),
          Importer("import __Builtin.P", [NoProject EXCEPT !.builtins = "P" :> [enabled |-> FALSE, text |-> ""]])}
    \cup {Importer("import Pkg.M val y = M.one", [NoProject EXCEPT !.sealed = TRUE, !.embedded = n :> [text |-> Lib, hash |-> h]]) :
            n \in {"Pkg.M", "Pkg.N"}, h \in {Hash(Lib), Hash("")}}

\* Two modules in an old and a new version, as the lockfile pins them, the cache
\* holds them and the registry serves them; commands of another process.
Old == ("A" :> "val a = 1") @@ ("B" :> "val b = 1")
New == ("A" :> "val a = 2") @@ ("B" :> "val b = 2")
Half == ("A" :> "val a = 2") @@ ("B" :> "val b = 1")
Rotten == [x \in DOMAIN CacheOf(Old) |-> "val a = 3"]
Shared(project, run) == Importer("import Pkg.A import Pkg.B val x = a", [project EXCEPT !.commands = run])
Concurrent ==
  {Shared(Locked(LockOf(Old), CacheOf(Old), ServedOf(New)), c) : c \in {<<"install", "seal">>, <<"check">>, <<"verify">>}}
    \cup {Shared(Locked(LockOf(Old), Rotten, ServedOf(Old)), c) : c \in {<<"install">>, <<"seal">>, <<"verify", "check">>}}
    \cup {Shared([Locked(LockOf(Old), None, ServedOf(Old)) EXCEPT !.later = r], <<"install">>) :
            r \in {ServedOf(New), Served(Hashes(New), Half)}}

\* Lockfiles and manifests that do not fit, and a local package root.
Standing == Locked(LockOf(Old), CacheOf(Old), ServedOf(Old))
Unfit ==
  {Shared(p, <<"install">>) : p \in
     {[Standing EXCEPT !.world.lock = l] :
        l \in {K!NoLock, [K!NoLock EXCEPT !.state = "invalid"], [LockOf(Old) EXCEPT !.schema = 2],
               PackageLock(K!BaseUrl(Plain, "Pkg", "1.0"), Hashes(Old)), [LockOf(Old) EXCEPT !.packages = "Q" :> @["Pkg"]],
               PackageLock(Base, ("A" :> Bare("val a = 1")) @@ ("B" :> Bare("val b = 1")))}}
     \cup {[Standing EXCEPT !.manifest.dependencies = d] :
              d \in {"Pkg" :> [version |-> "2.0", registry |-> "main"], "Pkg" :> [version |-> "1.0", registry |-> "other"], None}}}
    \cup {Shared([Standing EXCEPT !.manifest.state = "missing"], <<c>>) : c \in {"install", "verify", "seal"}}
    \cup {Shared([Standing EXCEPT !.root = <<"Pkg", "1.0", "A">> :> t], <<"seal">>) : t \in {"val a = 1", "val a = 2"}}

\* Texts n deep in one form or another, around the limit.
Deep(n) ==
  {Repeated("(", n) \o "1" \o Repeated(")", n), Repeated("1 + ", n) \o "1", Repeated("1 :: ", n) \o "[]",
   "f" \o Repeated(" 1", n), Repeated("[", n) \o Repeated("]", n), "(1 + 2 * 3) - " \o Repeated("1 - ", n) \o "(1 * 1)",
   Repeated("(", n) \o "1" \o Repeated(" + 1 + 1 + 1)", n), Repeated("if a then 1 else ", n) \o "1", Repeated("fn x => ", n) \o "x", Repeated("not ", n) \o "a",
   "case 1 of " \o Repeated("(", n) \o "x" \o Repeated(")", n) \o " => " \o Repeated("x * ", n) \o "x",
   "x : " \o Repeated("int -> ", n) \o "int", Repeated("(1, ", n) \o "2" \o Repeated(")", n)}
DeepTexts == {Project("main" :> ("val e = " \o e), "compile", 5) : e \in UNION {Deep(n) : n \in 1..5}}

\* Comments in every place of a text, on its line or on one of their own.
Places ==
  {<<"", "val a = 1", "val b = 2", "">>, <<"local", "val a = 1", "in", "val b = a", "end">>,
   <<"structure M = struct", "val a = 1", "end", "val z = 0">>,
   <<"val x = let", "val y = 1", "in y end">>, <<"local", "in", "val a = \"(* \\\" *)\" val c = #\"*\"", "end">>}
Comments == {"(* c *)", "\n(* c (* d *) *)", "(* c *)\n", "(* c *) (* d *)\n", "\n"}
Commented ==
  UNION {{InsertAt(p, i, c) : i \in 2..Len(p)} : p \in Places, c \in Comments}
PrintedTexts ==
  {Prelude \o "val r = " \o In(c, "(~ (base + 1) * (f 1 - (2 - y)))") : c \in Contexts}
    \cup {"fun f (x, y) (B z) = x | f (w as (p, q)) (h :: (t as [])) = ~5 val rec g = fn (x : int) => (f x : int -> 'a list)",
          "type ('a, 'b) p = ('a -> 'b) list * (int -> int) datatype 'a t = A | B of 'a * int",
          "signature S = sig type 'a t val f : int -> 'a t end structure M :> S = struct type 'a t = int fun f x = x end",
          "import Pkg.M (a, B) use \"./a\" effect E effect F of int val s = \"a\\n\\\"\" val b = a orelse b andalso (c orelse d) |> f"}
Formatted == {Project("main" :> t, "format", 40) : t \in {Written(c) : c \in Commented} \cup PrintedTexts}

MCPrograms ==
  Nested \cup Sequences \cup Registered \cup Others \cup Files \cup Imports \cup Concurrent \cup Unfit
    \cup DeepTexts \cup Formatted
=============================================================================
