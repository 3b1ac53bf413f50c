------------------------------ MODULE Packages ------------------------------
(***************************************************************************)
(* Modules imported by name: the loader of hiko-compile/compiler.rs, which  *)
(* reads the lockfile once and then each module from the local package      *)
(* root, the cache or its registry, and the commands of hiko-cli that read  *)
(* and write the same lockfile and cache: install, install --check, lock    *)
(* verify, and build-vm --lock.  A step is one access to a file or to a     *)
(* registry.  A file is written under another name and renamed, so a write  *)
(* is one step; a process that is killed takes no further one.              *)
(*                                                                          *)
(* A project is [manifest, root, sealed, embedded, builtins]; the world is  *)
(* [lock, cache, registry].  A base URL is a registry's URL with a package  *)
(* and its version, and URLs are records that say whether they are trusted. *)
(***************************************************************************)
EXTENDS Integers, Sequences, SequencesExt, FiniteSets, TLC

CONSTANTS IntMax, WordMax
LOCAL L == INSTANCE Lexer

Empty == [x \in {} |-> 0]
NoLock == [state |-> "missing", schema |-> 1, packages |-> Empty]

\* blake3_hex; what a pin as it is written stands for.
Digest(text) == <<"blake3", text>>
NormalizeBlake3(hash) == hash.digest

PackageOf(name) == SubSeq(name, 1, L!MaxOf({i \in 1..Len(name) : L!Ch(name, i) = "."}) - 1)
ModuleOf(name) == SubSeq(name, Len(PackageOf(name)) + 2, Len(name))
Reserved(package) == L!Ch(package, 1) = "_" /\ L!Ch(package, 2) = "_"

CheckName(name) == L!Ch(name, 1) \in L!Letter /\ \A i \in 1..Len(name) : L!Ch(name, i) \in L!IdentChar
CheckVersion(version) ==
  /\ version # "" /\ L!Ch(version, 1) # "."
  /\ \A i \in 1..Len(version) : L!Ch(version, i) \in L!Letter \cup L!Digit \cup {".", "-", "+"}

BaseUrl(url, name, version) == [url |-> url, name |-> name, version |-> version]
ModuleUrl(base, module) == <<base, module>>
CachePath(url, digest) == <<url, digest>>

\* What is at a URL, if it can be fetched and has the digest; a verified text
\* put in the cache.
Fetches(w, url, digest, works) ==
  works /\ url \in DOMAIN w.registry.modules /\ Digest(w.registry.modules[url]) = digest
Store(w, path, text) == [w EXCEPT !.cache = (path :> text) @@ @]

\* https, or http on this machine (validate_remote_base_url).
Trusted(base) == base.url.trusted
\* validate_module_lockfile (the commands) and validate_lockfile (the compiler).
ValidatePackage(package) ==
  /\ package.version # "" /\ Trusted(package.base)
  /\ \A m \in DOMAIN package.modules : m # "" /\ package.modules[m].form # "empty"
ValidateModuleLockfile(lock) ==
  /\ lock.state = "read" /\ lock.schema = 1
  /\ \A n \in DOMAIN lock.packages : ValidatePackage(lock.packages[n])
ValidateLockfile(lock) ==
  /\ ValidateModuleLockfile(lock)
  /\ \A n \in DOMAIN lock.packages :
       /\ n # "" /\ ~Reserved(n)
       /\ \A m \in DOMAIN lock.packages[n].modules : \A i \in 1..Len(m) : L!Ch(m, i) # "."
\* validate_dependency_source; validate_lockfile_against_manifest
FromSource(package, name, manifest) ==
  LET d == manifest.dependencies[name]
  IN /\ package.version = d.version
     /\ d.registry \in DOMAIN manifest.registries
     /\ package.base = BaseUrl(manifest.registries[d.registry], name, d.version)
AgainstManifest(lock, manifest) ==
  DOMAIN manifest.dependencies # {} =>
    /\ DOMAIN lock.packages = DOMAIN manifest.dependencies
    /\ \A n \in DOMAIN lock.packages : FromSource(lock.packages[n], n, manifest)

ModulesOf(lock) == UNION {{<<n, m>> : m \in DOMAIN lock.packages[n].modules} : n \in DOMAIN lock.packages}
UrlIn(lock, x) == ModuleUrl(lock.packages[x[1]].base, x[2])
PinIn(lock, x) == NormalizeBlake3(lock.packages[x[1]].modules[x[2]])

-----------------------------------------------------------------------------
(* The loader                                                               *)

\* lock: the lockfile once it is read; what is being resolved, and its text.
NewLoader == [at |-> "idle", lock |-> NoLock, name |-> "", url |-> <<>>, pin |-> <<>>, text |-> ""]
Got(ld, text) == [ld EXCEPT !.at = "done", !.text = text]
Lost(ld) == [ld EXCEPT !.at = "failed"]
Verified(ld, text) == IF Digest(text) = ld.pin THEN Got(ld, text) ELSE Lost(ld)

ResolveBuiltin(p, ld, leaf) ==
  IF leaf \in DOMAIN p.builtins /\ p.builtins[leaf].enabled THEN Got(ld, p.builtins[leaf].text) ELSE Lost(ld)
ResolveEmbedded(p, ld, name) ==
  IF name \notin DOMAIN p.embedded THEN Lost(ld)
  ELSE Verified([ld EXCEPT !.pin = NormalizeBlake3(p.embedded[name].hash)], p.embedded[name].text)
\* resolve_named_import
ResolveNamed(p, ld, name) ==
  LET named == [ld EXCEPT !.name = name, !.at = "config"]
  IN CASE PackageOf(name) = "__Builtin" -> ResolveBuiltin(p, named, ModuleOf(name))
       [] PackageOf(name) # "__Builtin" /\ Reserved(PackageOf(name)) -> Lost(named)
       [] ~Reserved(PackageOf(name)) /\ p.sealed -> ResolveEmbedded(p, named, name)
       [] OTHER -> named

\* Faulty: the lockfile is read again for each import.
EnsureEveryTime(p, w, ld) ==
  IF /\ p.manifest.state = "read"
     /\ ValidateLockfile(w.lock) /\ AgainstManifest(w.lock, p.manifest)
  THEN [ld EXCEPT !.lock = w.lock] ELSE Lost(ld)
\* ensure_import_loader: the manifest and the lockfile, the first time.
EnsureImportLoader(p, w, ld) ==
  CASE ld.lock.state = "read" -> ld
    [] /\ ld.lock.state # "read"
       /\ p.manifest.state = "read"
       /\ ValidateLockfile(w.lock) /\ AgainstManifest(w.lock, p.manifest) -> [ld EXCEPT !.lock = w.lock]
    [] OTHER -> Lost(ld)

\* The pin, and the module in the local package root if it is there.
FindPin(p, ld) ==
  LET x == <<PackageOf(ld.name), ModuleOf(ld.name)>>
      found == [ld EXCEPT !.pin = PinIn(ld.lock, x), !.url = UrlIn(ld.lock, x), !.at = "exists"]
      local == <<x[1], ld.lock.packages[x[1]].version, x[2]>>
  IN CASE ld.at = "failed" \/ x \notin ModulesOf(ld.lock) -> Lost(ld)
       [] ld.at # "failed" /\ x \in ModulesOf(ld.lock) ->
            IF local \in DOMAIN p.root THEN Verified(found, p.root[local]) ELSE found

After(w, ld) == [w |-> w, ld |-> ld]
\* resolve_external_named_import, up to and with the next access; works: the
\* access does not fail.
LoaderStep(p, w, ld, works) ==
  LET path == CachePath(ld.url, ld.pin)
  IN CASE ld.at = "config" ->
            After(w, IF works THEN FindPin(p, EnsureImportLoader(p, w, ld)) ELSE Lost(ld))
       [] ld.at = "exists" ->
            After(w, [ld EXCEPT !.at = IF path \in DOMAIN w.cache THEN "read" ELSE "fetch"])
       [] ld.at = "read" ->
            After(w, CASE path \notin DOMAIN w.cache \/ ~works -> Lost(ld)
                       [] path \in DOMAIN w.cache /\ works ->
                            IF Digest(w.cache[path]) = ld.pin THEN Got(ld, w.cache[path])
                            ELSE [ld EXCEPT !.at = "remove"])
       [] ld.at = "remove" ->
            After(IF works THEN [w EXCEPT !.cache = [x \in DOMAIN @ \ {path} |-> @[x]]] ELSE w,
                  [ld EXCEPT !.at = "fetch"])
       [] ld.at = "fetch" ->
            After(w, IF Fetches(w, ld.url, ld.pin, works)
                     THEN [ld EXCEPT !.at = "store", !.text = w.registry.modules[ld.url]] ELSE Lost(ld))
       [] ld.at = "store" ->
            IF works THEN After(Store(w, path, ld.text), Got(ld, ld.text))
            ELSE After(w, Lost(ld))

-----------------------------------------------------------------------------
(* The commands                                                             *)

\* todo: packages, modules or downloads left; old and new: lockfiles; ld: the
\* loader of build-vm, and sources what it has loaded.
Idle == [kind |-> "none", at |-> "ended", ok |-> TRUE, todo |-> <<>>, old |-> NoLock, new |-> NoLock,
         downloads |-> <<>>, ld |-> NewLoader, sources |-> Empty]
Ended(c, ok) == [c EXCEPT !.at = "ended", !.ok = ok]
Abort(c) == Ended(c, FALSE)

NewPackages == [NoLock EXCEPT !.state = "read"]
\* install, verify_lockfile and locked_module_sources up to their loops.
StartCommand(p, w, kind) ==
  LET c == [Idle EXCEPT !.kind = kind]
      modules == SetToSeq(ModulesOf(w.lock))
  IN CASE p.manifest.state # "read" -> Abort(c)
       [] p.manifest.state = "read" /\ kind \in {"install", "check"} ->
            [c EXCEPT !.at = "resolve", !.todo = SetToSeq(DOMAIN p.manifest.dependencies), !.new = NewPackages,
                      !.old = IF w.lock.state = "missing" \/ ValidateModuleLockfile(w.lock) THEN w.lock
                              ELSE [NoLock EXCEPT !.state = "invalid"]]
       [] p.manifest.state = "read" /\ kind = "verify" ->
            IF ValidateModuleLockfile(w.lock) /\ AgainstManifest(w.lock, p.manifest)
            THEN [c EXCEPT !.at = "verify", !.todo = modules, !.old = w.lock] ELSE Abort(c)
       [] p.manifest.state = "read" /\ kind = "seal" ->
            LET ld == EnsureImportLoader(p, w, NewLoader)
            IN IF ld.at = "failed" THEN Abort(c) ELSE [c EXCEPT !.at = "seal", !.todo = modules, !.ld = ld]

\* resolve_package
ResolvePackage(p, w, c, works) ==
  LET name == Head(c.todo)
      d == p.manifest.dependencies[name]
      base == BaseUrl(p.manifest.registries[d.registry], name, d.version)
      package == w.registry.packages[base]
  IN IF /\ works /\ CheckName(name) /\ CheckVersion(d.version)
        /\ d.registry \in DOMAIN p.manifest.registries /\ Trusted(base)
        /\ base \in DOMAIN w.registry.packages
        /\ package.name = name /\ package.version = d.version /\ DOMAIN package.modules # {}
        /\ \A m \in DOMAIN package.modules : CheckName(m) /\ package.modules[m].form = "prefixed"
     THEN [c EXCEPT !.todo = Tail(@),
                    !.new.packages = (name :> [version |-> d.version, base |-> base, modules |-> package.modules]) @@ @]
     ELSE Abort(c)

\* describe_changes: whether there is a line to print.
Locked(lock) ==
  [n \in DOMAIN lock.packages |->
     <<lock.packages[n].version, lock.packages[n].base,
       [m \in DOMAIN lock.packages[n].modules |-> PinIn(lock, <<n, m>>)]>>]
Changed(c) == c.old.state = "invalid" \/ Locked(c.old) # Locked(c.new)
Plan(p, c) ==
  CASE ~(ValidateModuleLockfile(c.new) /\ AgainstManifest(c.new, p.manifest)) -> Abort(c)
    [] OTHER -> IF c.kind = "check" THEN Ended(c, ~Changed(c))
                ELSE [c EXCEPT !.at = "download", !.todo = SetToSeq(ModulesOf(c.new))]

\* download_modules, the next one.
Download(w, c, works) ==
  LET url == UrlIn(c.new, Head(c.todo))
      pin == PinIn(c.new, Head(c.todo))
      path == CachePath(url, pin)
  IN CASE path \in DOMAIN w.cache /\ Digest(w.cache[path]) = pin -> [c EXCEPT !.todo = Tail(@)]
       [] OTHER -> IF Fetches(w, url, pin, works)
                   THEN [c EXCEPT !.todo = Tail(@), !.downloads = Append(@, <<path, w.registry.modules[url]>>)]
                   ELSE Abort(c)

\* verify_locked_module: a failure is counted and the next module checked.
VerifyLocked(w, c, works) ==
  [c EXCEPT !.todo = Tail(@),
            !.ok = @ /\ Fetches(w, UrlIn(c.old, Head(c.todo)), PinIn(c.old, Head(c.todo)), works)]

\* locked_module_sources: the loader on each module in turn; r is what its next
\* access did.
Sealing(c, r) ==
  CASE r.ld.at = "failed" -> [w |-> r.w, c |-> Abort(c)]
    [] r.ld.at = "done" -> [w |-> r.w, c |-> [c EXCEPT !.ld = [r.ld EXCEPT !.at = "idle"], !.todo = Tail(@),
                                                       !.sources = (Head(c.todo) :> r.ld.text) @@ @]]
    [] OTHER -> [w |-> r.w, c |-> [c EXCEPT !.ld = r.ld]]
Seal(p, w, c, works) ==
  LET x == Head(c.todo)
      named == [c.ld EXCEPT !.name = x[1] \o "." \o x[2], !.at = "config"]
  IN Sealing(c, LoaderStep(p, w, IF c.ld.at = "idle" THEN named ELSE c.ld, works))

\* write_atomically
WriteLock(w, c) == [w |-> [w EXCEPT !.lock = c.new], c |-> Ended(c, TRUE)]

\* The next access of the command.
CommandStep(p, w, c, works) ==
  LET only(d) == [w |-> w, c |-> d]
      done == c.todo = <<>>
  IN CASE c.at = "resolve" -> only(IF done THEN Plan(p, c) ELSE ResolvePackage(p, w, c, works))
       [] c.at = "download" -> only(IF done THEN [c EXCEPT !.at = "store"] ELSE Download(w, c, works))
       [] c.at = "store" ->
            CASE c.downloads = <<>> -> only(IF Changed(c) THEN [c EXCEPT !.at = "write"] ELSE Ended(c, TRUE))
              [] c.downloads # <<>> /\ ~works -> only(Abort(c))
              [] OTHER -> [w |-> Store(w, Head(c.downloads)[1], Head(c.downloads)[2]),
                           c |-> [c EXCEPT !.downloads = Tail(@)]]
       [] c.at = "write" -> IF works THEN WriteLock(w, c) ELSE only(Abort(c))
       [] c.at = "verify" -> only(IF done THEN Ended(c, c.ok) ELSE VerifyLocked(w, c, works))
       [] c.at = "seal" -> IF done THEN only(Ended(c, TRUE)) ELSE Seal(p, w, c, works)
=============================================================================
