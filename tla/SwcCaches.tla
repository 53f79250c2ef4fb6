------------------------------- MODULE SwcCaches -------------------------------
(***************************************************************************)
(* What compilations on several threads share for the life of the process: *)
(* the parsed global variables of GlobalPassOption::build, the import      *)
(* resolvers of build_resolver, and the plugin modules.  Source:           *)
(* config/mod.rs, plugin.rs and wasm_analysis.rs of                        *)
(* src/vendor-crates/swc/src.                                              *)
(*                                                                         *)
(* A get and the insert that follows it are two steps.  What is computed   *)
(* is written as the options it was computed from.                         *)
(***************************************************************************)
EXTENDS FiniteSets

CONSTANTS
  Compilers,    \* threads that compile
  Jobs,         \* bound: [vars, envs, paths, plugins, analysis]
  NoJob,
  Environs      \* bound: what the process's environment may hold, sets of names

VARIABLES
  wasm,    \* cfg!(target_arch = "wasm32")
  environ, \* the process's environment variables: those that are set
  seen,    \* history: what environ has been
  job,     \* what each thread compiles
  spot,    \* the step each thread is at
  cache,   \* the statics: for each a set of [key, value]
  missed,  \* the thread's get found nothing
  got,     \* what the thread's build will use, by static
  modules  \* PLUGIN_MODULE_CACHE: names it has bytes of

cacheVars == <<wasm, environ, seen, job, spot, cache, missed, got, modules>>

Statics == {"envs", "exprs", "globals", "resolver"}

\* The steps of one compilation, in order; an analysis has the last two.
Following ==
  [envs |-> "exprs", exprs |-> "globals", globals |-> "resolver", resolver |-> "plugins",
   plugins |-> "apply"]

\* GlobalPassOption.vars, with and without a dot in the name.
Dotted(o) == {v \in o.vars : v.dot}
Undotted(o) == {v \in o.vars : ~v.dot}

\* What a static is made of.  There is no map of environment variables on wasm.
MadeOf(s, o) ==
  CASE s = "envs" -> IF wasm THEN {} ELSE o.envs
    [] s = "exprs" -> Dotted(o)
    [] s = "globals" -> Undotted(o)
    [] OTHER -> o.paths

\* What build makes for a static: env_map, global_exprs, global_map, and the resolver.  Of a List of
\* environment variables it takes those that are set now.
Made(s, o) ==
  IF s = "envs" /\ ~o.envsAreMap THEN MadeOf(s, o) \intersect environ ELSE MadeOf(s, o)

\* (Mutant) one key for both kinds of variables.
KeyByDotted(s, o) ==
  IF s \in {"exprs", "globals"} THEN <<"own", Dotted(o)>> ELSE <<"own", MadeOf(s, o)>>

\* The key of each cache: what it is made of, without the environment that a List was read from.
\* The exception is a Map of environment variables, which is cached under the other variables.
KeyOf(s, o) ==
  IF s = "envs" /\ o.envsAreMap THEN <<"vars", o.vars>> ELSE <<"own", MadeOf(s, o)>>

Hit(s, o) == {e \in cache[s] : e.key = KeyOf(s, o)}

Advance(c) == spot' = [spot EXCEPT ![c] = Following[@]]

-----------------------------------------------------------------------------
Begin(c, o) ==
  /\ spot[c] = "idle"
  /\ job' = [job EXCEPT ![c] = o]
  /\ spot' = [spot EXCEPT ![c] = IF o.analysis THEN "plugins" ELSE "envs"]
  /\ got' = [got EXCEPT ![c] = [s \in Statics |-> {}]]
  /\ UNCHANGED <<wasm, environ, seen, cache, missed, modules>>

\* compile_wasm_plugins, under the cache's lock: what can be resolved and stored is stored; the
\* first that cannot ends it.
CompilePlugins(o) == {modules \union stored : stored \in SUBSET o.plugins}

\* build_as_input compiles plugins where the disk's cache is; run_wasm_analysis always does.
\* An error ends the compilation.
Prepare(c) ==
  /\ spot[c] = "plugins"
  /\ IF wasm /\ ~job[c].analysis
       THEN Advance(c) /\ UNCHANGED modules
       ELSE /\ modules' \in CompilePlugins(job[c])
            /\ \/ job[c].plugins \subseteq modules'
                  /\ Advance(c)
               \/ ~job[c].plugins \subseteq modules' /\ spot' = [spot EXCEPT ![c] = "idle"]
  /\ UNCHANGED <<wasm, environ, seen, job, cache, missed, got>>

\* CACHE.get
Lookup(c) ==
  LET s == spot[c] IN
  /\ s \in Statics /\ ~missed[c]
  /\ IF (s = "envs" /\ wasm) \/ Hit(s, job[c]) = {}
       THEN missed' = [missed EXCEPT ![c] = TRUE] /\ UNCHANGED <<spot, got>>
       ELSE /\ \E e \in Hit(s, job[c]) : got' = [got EXCEPT ![c][s] = e.value]
            /\ Advance(c) /\ UNCHANGED missed
  /\ UNCHANGED <<wasm, environ, seen, job, cache, modules>>

\* mk_map, the collect of global_exprs or the new resolver, and CACHE.insert; without a cache for
\* environment variables on wasm.  An expression that does not parse panics before the insert.
Insert(c) ==
  LET s == spot[c]
      made == Made(s, job[c]) IN
  /\ s \in Statics /\ missed[c]
  /\ missed' = [missed EXCEPT ![c] = FALSE]
  /\ \/ /\ cache' = IF s = "envs" /\ wasm THEN cache
                    ELSE [cache EXCEPT ![s] = (@ \ Hit(s, job[c])) \union
                                              {[key |-> KeyOf(s, job[c]), value |-> made]}]
        /\ got' = [got EXCEPT ![c][s] = made]
        /\ Advance(c)
     \/ /\ s \in {"exprs", "globals"} /\ \E v \in made : ~v.parses
        /\ spot' = [spot EXCEPT ![c] = "idle"] /\ UNCHANGED <<cache, got>>
  /\ UNCHANGED <<wasm, environ, seen, job, modules>>

\* apply_inner, inovke_wasm_analysis_plugin: modules are taken from the cache, or read from the
\* disk on wasm; one that is not in the cache is not expected.
Apply(c) ==
  /\ spot[c] = "apply"
  /\ spot' = [spot EXCEPT ![c] =
                IF (~wasm \/ job[c].analysis) /\ ~job[c].plugins \subseteq modules
                THEN "panic" ELSE "idle"]
  /\ UNCHANGED <<wasm, environ, seen, job, cache, missed, got, modules>>

\* JavaScript sets or deletes an entry of process.env.
SetEnviron(e) ==
  /\ environ' = e /\ seen' = seen \union {e}
  /\ UNCHANGED <<wasm, job, spot, cache, missed, got, modules>>

CachesInit ==
  /\ wasm \in BOOLEAN
  /\ environ \in Environs /\ seen = {environ}
  /\ job = [c \in Compilers |-> NoJob]
  /\ spot = [c \in Compilers |-> "idle"]
  /\ cache = [s \in Statics |-> {}]
  /\ missed = [c \in Compilers |-> FALSE]
  /\ got = [c \in Compilers |-> [s \in Statics |-> {}]]
  /\ modules = {}

CachesNext ==
  \/ \E e \in Environs : SetEnviron(e)
  \/ \E c \in Compilers :
       \/ \E o \in Jobs : Begin(c, o)
       \/ Prepare(c) \/ Lookup(c) \/ Insert(c) \/ Apply(c)

-----------------------------------------------------------------------------
\* A compilation works with the variables and the resolver of its own options, whatever other
\* compilations put into the caches before or meanwhile.  Outside wasm a List of environment
\* variables may be that of an environment that is no more, for the key does not say which, and a
\* Map of them is the exception.
CachesFit ==
  \A c \in Compilers : spot[c] = "apply" /\ ~job[c].analysis =>
    /\ got[c].exprs \union got[c].globals = job[c].vars
    /\ got[c].resolver = job[c].paths
    /\ wasm => got[c].envs = {}
    /\ ~wasm /\ ~job[c].envsAreMap => \E e \in seen : got[c].envs = job[c].envs \intersect e

\* A plugin that is run was stored.
PluginsAreThere == \A c \in Compilers : spot[c] # "panic"
=============================================================================
