----------------------------- MODULE SwcCompiler -----------------------------
(***************************************************************************)
(* The vendored swc: one compilation from its configuration to the printed *)
(* program (SwcConfig, SwcCompile), the pass that saves comments           *)
(* (DroppedComments), and what compilations on several threads share       *)
(* (SwcCaches).  They have no state in common; `view` lets a behaviour     *)
(* take one of them.                                                       *)
(***************************************************************************)
EXTENDS SwcCompile, DroppedComments, SwcCaches

CONSTANT Views   \* a subset of {"compile", "comments", "caches"}; "none" is another choice

VARIABLE view

compilerVars == <<configVars, compileVars>>
swcVars == <<view, compilerVars, commentVars, cacheVars>>

\* What the initial states of the parts leave open is open only where it matters.
SwcInit ==
  /\ view \in Views
  /\ IF view = "compile" THEN CompileInit ELSE CompileStart(CHOOSE c \in Compilations : TRUE)
  /\ IF view = "comments" THEN CommentsInit ELSE CommentsStart(<< >>, <<Dummy>>)
  /\ CachesInit /\ (view # "caches" => wasm /\ environ = CHOOSE e \in Environs : TRUE)

SwcNext ==
  \/ view = "compile" /\ CompileNext /\ UNCHANGED <<view, commentVars, cacheVars>>
  \/ view = "comments" /\ CommentsNext /\ UNCHANGED <<view, compilerVars, cacheVars>>
  \/ view = "caches" /\ CachesNext /\ UNCHANGED <<view, compilerVars, commentVars>>

SwcSpec == SwcInit /\ [][SwcNext]_swcVars

-----------------------------------------------------------------------------
\* What is compiled fits the options, and how: the search for a .swcrc keeps under the root, a file
\* goes with the first config that includes it, and excludes are kept.
ConfigFits ==
  ConfigTypeOK /\ SearchStaysUnderRoot /\ OnlyMatchingFiles /\ TypescriptByDefault
    /\ ExcludedStaysOut

\* The passes are there, in an order in which each finds what it expects, and a map that a file
\* names cannot fail the compilation.
PassesFit == CompileTypeOK /\ CustomSeesStripped /\ NamesAreClean /\ MapsDoNotFail

\* The process-wide caches.
SharedFits == CachesFit /\ PluginsAreThere
=============================================================================
