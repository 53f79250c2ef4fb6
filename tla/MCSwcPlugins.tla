---------------------------- MODULE MCSwcPlugins -----------------------------
EXTENDS SwcPlugins, TLC

\* Threads of the bridge and addresses are interchangeable in these properties.
Symmetry == Permutations(Threads) \union Permutations(Addrs)

File(real, ext, resolves) == [real |-> real, ext |-> ext, resolves |-> resolves]
Opts(own, root, mode, swcrc, configFile) ==
  [own |-> own, root |-> root, rootMode |-> mode, swcrc |-> swcrc, configFile |-> configFile]
Item(form, decl, declare, typeOnly, body) ==
  [form |-> form, decl |-> decl, declare |-> declare, typeOnly |-> typeOnly, body |-> body]
Source(items, syntax, awaits, given) ==
  [items |-> items, syntax |-> syntax, awaits |-> awaits, given |-> given]

RunStmt == Item("stmt", "expr", FALSE, FALSE, FALSE)
Simple == Source({RunStmt}, "good", FALSE, FALSE)
Plain ==
  [entry |-> "transform", jsMinify |-> FALSE, compress |-> "unset", mangle |-> "unset",
   noHygiene |-> FALSE, internal |-> FALSE, pluginFirst |-> FALSE, plugins |-> FALSE,
   helpers |-> TRUE, runtime |-> TRUE, isModule |-> "unset"]
NoTs == [DefaultConfig EXCEPT !.exclude = {{"ts"}}]
Lang(lang, isModule) == [DefaultConfig EXCEPT !.lang = lang, !.isModule = isModule]
InCode(own) ==
  [file |-> File(TRUE, "js", TRUE), opts |-> Opts(own, 0, "root", FALSE, "none"), rcDirs |-> {}]

\* Every way to look for a configuration, and every file the default configuration may meet.
Searches ==
  {[file |-> File(TRUE, "ts", TRUE), opts |-> Opts(DefaultConfig, root, mode, TRUE, "none"),
    rcDirs |-> dirs] : root \in 0..Depth, mode \in RootModes, dirs \in SUBSET (1..Depth)}
Files ==
  {[file |-> File(real, ext, FALSE), opts |-> Opts(own, 0, mode, swcrc, configFile),
    rcDirs |-> {}] :
      real \in BOOLEAN, ext \in Exts, own \in {DefaultConfig, NoTs},
      mode \in {"root", "upward"}, swcrc \in BOOLEAN, configFile \in {"bool", "path"}}

\* What a .swcrc may hold.
SomeRcs ==
  {[kind |-> "single", configs |-> <<[DefaultConfig EXCEPT !.target = TRUE]>>],
   [kind |-> "single", configs |-> <<[Typescript({"ts"}, TRUE) EXCEPT !.exclude = {{"ts"}}]>>],
   [kind |-> "single", configs |-> <<[Typescript({"ts"}, TRUE) EXCEPT !.baseUrl = "missing"]>>],
   [kind |-> "multi", configs |-> <<Typescript({"tsx"}, TRUE), Typescript({"ts"}, TRUE)>>]}

\* Statements, imports and exports of types and of values.
Items ==
  {RunStmt, Item("stmt", "alias", FALSE, FALSE, FALSE), Item("stmt", "namespace", FALSE, FALSE, TRUE),
   Item("import", "expr", FALSE, TRUE, FALSE), Item("import", "expr", FALSE, FALSE, FALSE),
   Item("exportDecl", "alias", FALSE, FALSE, FALSE), Item("exportDecl", "fn", FALSE, FALSE, TRUE),
   Item("exportDecl", "fn", TRUE, FALSE, FALSE), Item("exportDefaultDecl", "fn", FALSE, FALSE, TRUE),
   Item("exportDefaultDecl", "interface", FALSE, FALSE, FALSE)}
Sources ==
  {Source(items, "good", awaits, FALSE) :
     items \in {s \in SUBSET Items : Cardinality(s) <= 3}, awaits \in BOOLEAN}
  \union {Source({RunStmt}, "bad", FALSE, FALSE), Source({RunStmt}, "good", FALSE, TRUE)}

\* The options that choose the passes, and those of minify.
Builds ==
  {[Plain EXCEPT !.jsMinify = TRUE, !.compress = c, !.mangle = m, !.noHygiene = h, !.internal = i,
                 !.pluginFirst = p, !.plugins = TRUE, !.helpers = h] :
     c \in {"unset", "on"}, m \in {"off", "on"}, h \in BOOLEAN, i \in BOOLEAN, p \in BOOLEAN}
  \union {[Plain EXCEPT !.runtime = FALSE], Plain}
Minifies ==
  {[Plain EXCEPT !.entry = "minify", !.compress = c, !.mangle = m, !.isModule = k] :
     c \in {"unset", "off"}, m \in {"unset", "off"}, k \in {"module", "script", "unknown"}}

SomeCompilations ==
  {[call |-> c, input |-> Simple, build |-> Plain] : c \in Searches \union Files}
  \union {[call |-> InCode(Lang(l, k)), input |-> s, build |-> [Plain EXCEPT !.plugins = p]] :
            l \in {"unset", "ts", "flow"}, k \in {"unset", "script", "unknown"}, s \in Sources,
            p \in BOOLEAN}
  \union {[call |-> InCode(Lang(l, "unset")), input |-> Simple, build |-> b] :
            l \in {"unset", "ts"}, b \in Builds}
  \union {[call |-> InCode(DefaultConfig), input |-> s, build |-> b] :
            s \in {t \in Sources : Cardinality(t.items) <= 1}, b \in Minifies}

\* Jobs that share some of their variables.
Var(name, dot, parses) == [name |-> name, dot |-> dot, parses |-> parses]
Job(variables, envs, areMap, paths, plugins, analysis) ==
  [vars |-> variables, envs |-> envs, envsAreMap |-> areMap, paths |-> paths, plugins |-> plugins,
   analysis |-> analysis]
SomeJobs ==
  {Job({Var("a", FALSE, TRUE)}, {"e"}, FALSE, {"p"}, {"x", "y"}, FALSE),
   Job({Var("a", FALSE, TRUE), Var("a.b", TRUE, TRUE)}, {"e"}, TRUE, {}, {"x"}, FALSE),
   Job({Var("c", FALSE, FALSE)}, {}, FALSE, {"p"}, {}, FALSE),
   Job({}, {}, FALSE, {}, {"y"}, TRUE)}

\* The variable of the lists is set, or not.
SomeEnvirons == {{}, {"e"}}
=============================================================================
