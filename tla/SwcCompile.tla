------------------------------ MODULE SwcCompile ------------------------------
(***************************************************************************)
(* One compilation by the vendored swc, from the configured file to the    *)
(* printed program: parsing, also of Flow files that are asked to be       *)
(* scripts, the passes build_as_input puts together, the input source map, *)
(* the run of the passes, plugins that fail, the downgrade to a script,    *)
(* and the second entry, minify.  Source: src/vendor-crates/swc/src.       *)
(*                                                                         *)
(* A program is its kind and the set of its items; of an item the model    *)
(* keeps what decides whether it is there at run time.  The passes are     *)
(* external: each is modelled by what may happen to the items and names.   *)
(***************************************************************************)
EXTENDS SwcConfig

CONSTANT
  Compilations   \* bound: what is compiled and how, [call, input, build]

VARIABLES
  input,     \* the source, or the Program that process_js was given
  build,     \* the Options in use
  prog,      \* the Program
  scriptLike,\* flow_strip_script_like_module
  contexts,  \* names are told apart by their contexts only, since a resolver
  minOpts,   \* what the minifier is asked for
  queue,     \* the passes that are left
  applied,   \* the passes that ran, in order
  told       \* the handler was given an error

compileVars == <<input, build, prog, scriptLike, contexts, minOpts, queue, applied, told>>

Inputs ==
  [items : SUBSET [form : {"stmt", "import", "exportNamed", "exportAll", "importEquals",
                           "exportDecl", "exportDefaultDecl", "exportDefaultExpr",
                           "exportAssign"},
                   decl : STRING, declare : BOOLEAN, typeOnly : BOOLEAN, body : BOOLEAN],
   syntax : {"good", "bad"}, awaits : BOOLEAN, given : BOOLEAN]
BuildOptions ==
  [entry : {"transform", "minify"}, jsMinify : BOOLEAN, compress : {"unset", "off", "on"},
   mangle : {"unset", "off", "on"}, noHygiene : BOOLEAN, internal : BOOLEAN,
   pluginFirst : BOOLEAN, plugins : BOOLEAN, helpers : BOOLEAN, runtime : BOOLEAN,
   isModule : {"unset", "module", "script", "unknown"}]

ASSUME CompilationsAssumption ==
  /\ Compilations # {}
  /\ Compilations \subseteq [call : Calls, input : Inputs, build : BuildOptions]
  /\ \A c \in Compilations : c.build.entry = "minify" => c.build.isModule # "unset"

NoMinify == [on |-> FALSE, compress |-> FALSE, mangle |-> FALSE]

-----------------------------------------------------------------------------
\* is_declare_decl
IsDeclare(i) == i.decl \in {"interface", "alias"} \/ (i.decl # "using" /\ i.declare)

\* is_runtime_decl.  A function has a body or is an overload; a namespace counts if something in
\* it does (is_runtime_namespace_body, is_runtime_stmt).
IsRuntimeDecl(i) == ~IsDeclare(i) /\ (i.decl \in {"fn", "namespace"} => i.body)

IsModuleDecl(i) == i.form # "stmt"

\* is_runtime_module_decl, is_runtime_default_decl
IsRuntimeModuleDecl(i) ==
  \/ i.form \in {"import", "exportNamed", "exportAll", "importEquals"} /\ ~i.typeOnly
  \/ i.form = "exportDecl" /\ IsRuntimeDecl(i)
  \/ i.form = "exportDefaultDecl" /\ (i.decl = "class" \/ (i.decl = "fn" /\ i.body))
  \/ i.form \in {"exportDefaultExpr", "exportAssign"}

\* classify_flow_script_like_module
Classify(p) ==
  LET decls == {i \in p.items : IsModuleDecl(i)} IN
  IF p.kind = "script" THEN "script"
  ELSE IF decls = {} \/ \E i \in decls : IsRuntimeModuleDecl(i) THEN "runtime"
  ELSE "types"

\* The parser: what makes a file a module.
ParsedKind(s) == IF s.awaits \/ \E i \in s.items : IsModuleDecl(i) THEN "module" ELSE "script"

-----------------------------------------------------------------------------
\* parse_js, which fails on recoverable errors too.
ParseJs(isModule) ==
  IF input.syntax # "good" \/ (isModule = "script" /\ ParsedKind(input) = "module")
    THEN Quit("syntax") /\ told' = TRUE /\ UNCHANGED prog
    ELSE /\ stage' = "build"
         /\ prog' = [kind |-> IF isModule = "unknown" THEN ParsedKind(input) ELSE isModule,
                     items |-> input.items]
         /\ UNCHANGED <<why, told>>

\* parse_js_as_transform_input for a Flow file that is asked to be a script: one more parse, as
\* any program, if imports or exports were in the way.  An await at the top level may have been
\* in the way before them.
ParseFlowScript ==
  LET parsed == [kind |-> ParsedKind(input), items |-> input.items] IN
  \/ IF input.syntax # "good" \/ Classify(parsed) = "runtime"
       THEN Quit("syntax") /\ told' = TRUE /\ UNCHANGED <<prog, scriptLike>>
       ELSE /\ stage' = "build" /\ prog' = parsed
            /\ scriptLike' = (Classify(parsed) = "types")
            /\ UNCHANGED <<why, told>>
  \/ input.awaits /\ Quit("syntax") /\ told' = TRUE /\ UNCHANGED <<prog, scriptLike>>

\* parse_js_as_input's parse, called by build_as_input.
Parse ==
  /\ stage = "parse" /\ build.entry = "transform"
  /\ IF input.given
       THEN /\ stage' = "build" /\ UNCHANGED <<why, told, scriptLike>>
            /\ \E kind \in {"module", ParsedKind(input)} :
                 prog' = [kind |-> kind, items |-> input.items]
     ELSE IF cfg.lang # "flow"
       THEN ParseJs(cfg.isModule) /\ UNCHANGED scriptLike
     ELSE IF cfg.isModule = "script"
       THEN ParseFlowScript
     ELSE /\ ParseJs(cfg.isModule)
          /\ scriptLike' = (Classify(prog') = "types" /\ cfg.isModule = "unknown")
  /\ UNCHANGED <<call, at, rc, picked, cfg, input, build, contexts, minOpts, queue, applied>>

-----------------------------------------------------------------------------
\* jsc.minify, normalised: a half that is not given is off.
MinifierOf(b) ==
  [on |-> b.jsMinify,
   compress |-> b.jsMinify /\ b.compress = "on", mangle |-> b.jsMinify /\ b.mangle = "on"]

If(test, pass) == IF test THEN <<pass>> ELSE << >>

\* (Mutant) hygiene is left to the minifier whenever there is one.
SkipsHygiene(m) == m.on /\ (m.compress \/ m.mangle)

\* is_mangler_enabled
IsManglerEnabled(m) == m.on /\ m.mangle

TypedSyntax == cfg.lang \in {"ts", "flow"}

\* The first half of what build_as_input puts together.
HeadPasses(b, m) ==
  If(b.pluginFirst, "plugins") \o <<"decorators">> \o If(TypedSyntax, "strip")
    \o If(~b.pluginFirst, "plugins") \o <<"before">> \o <<"jsx">>

\* built_pass and what follows it; the optimizer's passes, paren_remover, compat and module passes
\* are one "compat".
TailPasses(b, m) ==
  <<"compat">> \o If(b.helpers, "helpers") \o If(m.on, "minifier")
    \o If(~b.noHygiene /\ ~IsManglerEnabled(m), "hygiene") \o <<"fixer", "jest", "comments">>

\* build_as_input from the resolver on; process_js_with_custom_pass adds the pass that comes after.
Build ==
  LET m == MinifierOf(build) IN
  /\ stage = "build" /\ build.entry = "transform"
  /\ contexts' = TRUE
  /\ minOpts' = m
  /\ IF ~build.runtime
       THEN Quit("plugin runtime") /\ UNCHANGED queue
       ELSE /\ stage' = "map" /\ UNCHANGED why
            /\ queue' = (IF build.internal THEN <<"plugins">>
                                           ELSE HeadPasses(build, m) \o TailPasses(build, m))
                        \o <<"after">>
  /\ UNCHANGED <<call, at, rc, picked, cfg, input, build, prog, scriptLike, applied, told>>

-----------------------------------------------------------------------------
\* get_orig_src_map: read_inline_sourcemap and read_file_sourcemap.  `found` is what the data URL
\* decodes to or the disk has: the named file, the file's name with .map appended, or nothing.
ReadMap(url, found) ==
  CASE url = "data" -> IF found = "good" THEN "map" ELSE "error"
    [] ~call.file.real -> "none"
    [] found = "good" -> "map"
    [] found = "gone" -> "none"                            \* deleted after exists()
    [] found = "missing" -> IF url = "none" THEN "none" ELSE "error"
    [] OTHER -> "error"

\* get_orig_src_map: errors of maps the file names are dropped, of the one the user gives are not.
OrigMap(setting, url, found) ==
  CASE setting = "off" -> "none"
    [] setting = "user" -> IF found = "good" THEN "map" ELSE "error"
    [] OTHER -> IF ReadMap(url, found) = "map" THEN "map" ELSE "none"

\* process_js_with_custom_pass between the building and the run of the passes.
ReadSourceMap ==
  /\ stage = "map"
  /\ \E setting \in {"off", "on", "user"}, url \in {"none", "data", "file"},
        found \in {"good", "bad", "gone", "missing"} :
       IF OrigMap(setting, url, found) = "error"
         THEN Quit(IF setting = "user" THEN "user's source map" ELSE "source map")
         ELSE stage' = "run" /\ UNCHANGED why
  /\ UNCHANGED <<call, at, rc, picked, cfg, compileVars>>

-----------------------------------------------------------------------------
Import ==
  [form |-> "import", decl |-> "expr", declare |-> FALSE, typeOnly |-> FALSE, body |-> FALSE]

\* A statement that is there at run time (is_runtime_stmt).
IsRuntimeStmt(i) == i.form = "stmt" /\ IsRuntimeDecl(i)

\* (Mutant) a plugin's failure leaves an empty program and says nothing.
FailSilently == prog' = [prog EXCEPT !.items = {}] /\ UNCHANGED <<stage, told>>

\* RustPlugins::fold_module, fold_script: a failed plugin, in a list of them, empties the program
\* and tells the handler.
FailPlugin == prog' = [prog EXCEPT !.items = {}] /\ told' = TRUE /\ UNCHANGED stage

\* RustPlugins::apply.  A program that comes back as the other kind is not expected.
RunPlugins ==
  \/ UNCHANGED <<prog, stage, told>>
  \/ build.plugins /\ FailPlugin
  \/ build.plugins /\ stage' = "crashed" /\ UNCHANGED <<prog, told>>
  \/ /\ build.plugins /\ prog.kind = "module"
     /\ prog' = [prog EXCEPT !.items = @ \union {Import}] /\ UNCHANGED <<stage, told>>

\* typescript: takes types away, imports and exports that only types used, and no statement.
Strip ==
  /\ \E gone \in SUBSET {i \in prog.items : ~IsRuntimeStmt(i)} :
       prog' = [prog EXCEPT !.items = @ \ gone]
  /\ UNCHANGED <<stage, told>>

\* inject_helpers: a module imports what it needs, a script requires it.
InjectHelpers ==
  /\ \/ prog.kind = "module" /\ prog' = [prog EXCEPT !.items = @ \union {Import}]
     \/ UNCHANGED prog
  /\ UNCHANGED <<stage, told>>

\* MinifierPass::process: hygiene and a resolver of its own before the minifier, which gives every
\* name a new one if it mangles.
AfterMinifier == IF minOpts.compress \/ minOpts.mangle THEN ~minOpts.mangle ELSE contexts

\* One pass of apply_transforms.
RunPass ==
  LET pass == Head(queue) IN
  /\ stage = "run" /\ queue # << >>
  /\ queue' = Tail(queue) /\ applied' = Append(applied, pass)
  /\ CASE pass = "plugins" -> RunPlugins
       [] pass = "strip" -> Strip
       [] pass = "helpers" -> InjectHelpers
       [] OTHER -> UNCHANGED <<prog, stage, told>>
  /\ contexts' = CASE pass = "minifier" -> AfterMinifier
                   [] pass = "hygiene" -> FALSE
                   [] OTHER -> contexts
  /\ UNCHANGED <<why, call, at, rc, picked, cfg, input, build, scriptLike, minOpts>>

\* (Mutant) the program becomes a script of the statements it has.
DowngradeAnyway ==
  /\ prog' = IF scriptLike THEN [kind |-> "script", items |-> prog.items] ELSE prog
  /\ stage' = "printed" /\ UNCHANGED why

\* downgrade_flow_script_like_module
Downgrade ==
  IF scriptLike /\ prog.kind = "module" /\ \E i \in prog.items : IsModuleDecl(i)
    THEN Quit("downgrade") /\ UNCHANGED prog
    ELSE /\ prog' = IF scriptLike THEN [prog EXCEPT !.kind = "script"] ELSE prog
         /\ stage' = "printed" /\ UNCHANGED why

\* apply_transforms after the passes.
Emit ==
  /\ stage = "run" /\ queue = << >>
  /\ Downgrade
  /\ UNCHANGED <<call, at, rc, picked, cfg, input, build, scriptLike, contexts, minOpts, queue,
                 applied, told>>

-----------------------------------------------------------------------------
\* minify: its options.  A half that is not given is on.
MinifyOptions(b) ==
  [on |-> TRUE, compress |-> b.compress # "off", mangle |-> b.mangle # "off"]

\* minify up to its parse_js, which knows no types.
MinifyParse ==
  /\ stage = "match" /\ build.entry = "minify"
  /\ minOpts' = MinifyOptions(build)
  /\ ParseJs(build.isModule)
  /\ UNCHANGED <<call, at, rc, picked, cfg, input, build, scriptLike, contexts, queue, applied>>

\* minify from the resolver on: hygiene if the minifier did not mangle, the fixer, print.
MinifyRun ==
  /\ stage = "build" /\ build.entry = "minify"
  /\ applied' = <<"resolver", "minifier">> \o If(~minOpts.mangle, "hygiene") \o <<"fixer">>
  /\ contexts' = FALSE
  /\ stage' = "printed"
  /\ UNCHANGED <<why, call, at, rc, picked, cfg, input, build, prog, scriptLike, minOpts, queue,
                 told>>

CompileStart(c) ==
  /\ ConfigInit(c.call) /\ input = c.input /\ build = c.build
  /\ prog = [kind |-> "script", items |-> {}]
  /\ scriptLike = FALSE /\ contexts = FALSE /\ told = FALSE
  /\ minOpts = NoMinify
  /\ queue = << >> /\ applied = << >>

CompileInit == \E c \in Compilations : CompileStart(c)

CompileNext ==
  \/ build.entry = "transform" /\ ConfigNext /\ UNCHANGED compileVars
  \/ Parse \/ Build \/ ReadSourceMap \/ RunPass \/ Emit
  \/ MinifyParse \/ MinifyRun

-----------------------------------------------------------------------------
CompileTypeOK ==
  /\ stage \in {"match", "search", "load", "pick", "merge", "parse", "build", "map", "run"}
              \union Ends
  /\ prog.kind \in {"script", "module"}
  /\ prog.items \subseteq input.items \union {Import}
  /\ minOpts \in [on : BOOLEAN, compress : BOOLEAN, mangle : BOOLEAN]
  /\ scriptLike \in BOOLEAN /\ contexts \in BOOLEAN /\ told \in BOOLEAN

\* A file that was asked to be a script, or is a Flow module of types alone that was not asked to
\* be a module, is printed as a script without imports and exports, or not at all.
ScriptStaysScript ==
  stage = "printed" /\ build.entry = "transform" /\ ~input.given
    /\ (cfg.isModule = "script" \/ scriptLike) =>
      prog.kind = "script" /\ \A i \in prog.items : ~IsModuleDecl(i)

\* Statements of the source that run are in what is printed, unless the handler has an error.
LossIsTold ==
  stage = "printed" /\ ~told =>
    \A i \in input.items : IsRuntimeStmt(i) => i \in prog.items

\* A custom pass runs after the decorators and after the types are gone, and the plugins run once.
CustomSeesStripped ==
  LET before(k, pass) == \E j \in 1..(k - 1) : applied[j] = pass IN
  /\ \A k \in DOMAIN applied : applied[k] = "before" =>
       before(k, "decorators") /\ (TypedSyntax => before(k, "strip"))
  /\ stage = "printed" /\ build.entry = "transform" =>
       Cardinality({k \in DOMAIN applied : applied[k] = "plugins"}) = 1

\* What is printed tells its names apart by their text, unless hygiene was switched off.
NamesAreClean ==
  stage = "printed" /\ ~build.noHygiene /\ ~build.internal => ~contexts

\* Only a source map that the user gave fails a compilation.
MapsDoNotFail == why # "source map"
=============================================================================
