------------------------------- MODULE SwcConfig -------------------------------
(***************************************************************************)
(* How a compilation of the vendored swc comes by its configuration: the   *)
(* options of the call are matched against the file, .swcrc is looked for  *)
(* from the file's directory upwards, one of its configs is picked and     *)
(* merged under the options.  Source: src/vendor-crates/swc/src/lib.rs and *)
(* config/mod.rs.                                                          *)
(*                                                                         *)
(* A matcher is a set of patterns, a pattern the set of the extensions it  *)
(* matches.  The directories above the file are numbered from the top.     *)
(***************************************************************************)
EXTENDS Naturals, Sequences, FiniteSets

CONSTANTS
  Depth,       \* bound: number of directories above the file
  RcFiles,     \* bound: what a .swcrc may hold, [kind, configs]
  Absent       \* None for a matcher

VARIABLES
  stage,   \* the step the compilation is at, or how it ended
  why,     \* what made it fail
  call,    \* the call: the file, the Options, and the directories that hold a .swcrc
  at,      \* find_swcrc: the directory being looked at; 0 is above the top
  rc,      \* the Rc in use
  picked,  \* which config of it was picked, 0 before that and for Config::default()
  cfg      \* the merged Config

configVars == <<stage, why, call, at, rc, picked, cfg>>

Exts == {"js", "ts", "tsx", "mts"}
RootModes == {"root", "upward", "upward-optional"}
Ends == {"printed", "failed", "ignored", "crashed"}

Quit(reason) == stage' = "failed" /\ why' = reason

-----------------------------------------------------------------------------
\* struct Config, as far as it decides what is done with a file.
DefaultConfig ==
  [test |-> Absent, exclude |-> Absent, lang |-> "unset", tsx |-> FALSE, isModule |-> "unset",
   target |-> FALSE, env |-> FALSE, baseUrl |-> "empty"]

Matchers == {Absent} \union SUBSET SUBSET Exts
Langs == {"unset", "es", "ts", "flow"}
Configs ==
  [test : Matchers, exclude : Matchers, lang : Langs, tsx : BOOLEAN,
   isModule : {"unset", "module", "script", "unknown"}, target : BOOLEAN, env : BOOLEAN,
   baseUrl : {"empty", "found", "missing"}]

\* enum Rc: a Config, or any number of them.
IsRc(r) ==
  /\ r.kind \in {"single", "multi"} /\ r.configs \in Seq(Configs)
  /\ r.kind = "single" => Len(r.configs) = 1

\* The file, the part of the Options that reads it, and where there is a .swcrc.
Calls ==
  [file : [real : BOOLEAN, ext : Exts, resolves : BOOLEAN],
   opts : [own : Configs, root : Nat, rootMode : RootModes, swcrc : BOOLEAN,
           configFile : {"none", "bool", "path"}],
   rcDirs : SUBSET (1..Depth)]

ASSUME ConfigAssumption ==
  /\ Depth \in Nat \ {0}
  /\ \A matcher \in SUBSET SUBSET Exts : matcher # Absent
  /\ \A r \in RcFiles : IsRc(r)

Typescript(test, tsx) ==
  [DefaultConfig EXCEPT !.test = {test}, !.lang = "ts", !.tsx = tsx]

\* Rc::default, used when there is no .swcrc.
DefaultRc ==
  [kind |-> "multi",
   configs |-> << [DefaultConfig EXCEPT !.exclude = {{"ts", "tsx"}}, !.lang = "es"],
                  Typescript({"tsx"}, TRUE),
                  Typescript({"mts"}, FALSE),
                  Typescript({"ts"}, FALSE) >>]

\* FileMatcher::matches
Hits(matcher, ext) == \E pattern \in matcher : ext \in pattern

\* Config::matches
Matches(c, ext) ==
  /\ c.exclude # Absent => ~Hits(c.exclude, ext)
  /\ c.test # Absent => Hits(c.test, ext)

\* Config::adjust
Adjust(c, ext) ==
  IF c.lang = "ts" /\ ext \in {"ts", "tsx"} THEN [c EXCEPT !.tsx = ext = "tsx"] ELSE c

\* Config's derived Merge: what the options say goes before what the file says.
Merge(own, c) ==
  [own EXCEPT !.lang = IF own.lang # "unset" THEN own.lang ELSE c.lang,
              !.tsx = IF own.lang # "unset" THEN own.tsx ELSE c.tsx,
              !.isModule = IF own.isModule # "unset" THEN own.isModule ELSE c.isModule,
              !.target = own.target \/ c.target,
              !.env = own.env \/ c.env]

-----------------------------------------------------------------------------
\* read_config without a .swcrc: "upward" insists on one.
NotFound ==
  IF call.opts.rootMode = "upward" THEN Quit("config") /\ UNCHANGED rc
                                   ELSE stage' = "pick" /\ rc' = DefaultRc /\ UNCHANGED why

\* parse_js_as_input, and read_config up to the search.  A config_file that is a boolean is no
\* path; a file that cannot be canonicalized is not searched for.
MatchOptions ==
  LET file == call.file
      opts == call.opts IN
  /\ stage = "match"
  /\ IF file.real /\ ~Matches(opts.own, file.ext)
       THEN stage' = "ignored" /\ UNCHANGED <<why, at, rc>>
     ELSE IF opts.configFile = "path"
       THEN stage' = "load" /\ UNCHANGED <<why, at, rc>>
     ELSE IF ~opts.swcrc \/ ~file.real
       THEN stage' = "pick" /\ rc' = DefaultRc /\ UNCHANGED <<why, at>>
     ELSE IF file.resolves
       THEN stage' = "search" /\ at' = Depth /\ UNCHANGED <<why, rc>>
     ELSE NotFound /\ UNCHANGED at
  /\ UNCHANGED <<call, picked, cfg>>

\* (Mutant) the root is passed before it is compared.
SearchPastRoot ==
  /\ stage = "search"
  /\ IF at \in call.rcDirs
       THEN stage' = "load" /\ UNCHANGED <<why, at, rc>>
     ELSE IF at = 0 \/ (at + 1 = call.opts.root /\ call.opts.rootMode = "root")
       THEN NotFound /\ UNCHANGED at
     ELSE at' = at - 1 /\ UNCHANGED <<stage, why, rc>>
  /\ UNCHANGED <<call, picked, cfg>>

\* find_swcrc: one directory.
SearchUp ==
  /\ stage = "search"
  /\ IF at \in call.rcDirs
       THEN stage' = "load" /\ UNCHANGED <<why, at, rc>>
     ELSE IF at = 0 \/ (at = call.opts.root /\ call.opts.rootMode = "root")
       THEN NotFound /\ UNCHANGED at
     ELSE at' = at - 1 /\ UNCHANGED <<stage, why, rc>>
  /\ UNCHANGED <<call, picked, cfg>>

\* load_swcrc and parse_swcrc.  The file can be gone, empty, no JSON, or no Rc.
Load ==
  /\ stage = "load"
  /\ \/ \E r \in RcFiles : rc' = r /\ stage' = "pick" /\ UNCHANGED why
     \/ Quit("config") /\ UNCHANGED rc
  /\ UNCHANGED <<call, at, picked, cfg>>

\* Rc::into_config, and what read_config does to base_url.
Pick ==
  LET file == call.file
      matching == {i \in DOMAIN rc.configs : Matches(rc.configs[i], file.ext)}
      first == CHOOSE i \in matching : \A j \in matching : i <= j IN
  /\ stage = "pick"
  /\ IF ~file.real
       THEN /\ stage' = "merge" /\ UNCHANGED why
            /\ IF rc.kind = "single" THEN picked' = 1 /\ cfg' = rc.configs[1]
                                     ELSE picked' = 0 /\ cfg' = DefaultConfig
     ELSE IF matching = {}
       THEN /\ IF rc.kind = "single" THEN stage' = "ignored" /\ UNCHANGED why
                                     ELSE Quit("config")
            /\ UNCHANGED <<picked, cfg>>
     ELSE IF rc.configs[first].baseUrl = "missing"
       THEN Quit("config") /\ UNCHANGED <<picked, cfg>>
     ELSE /\ stage' = "merge" /\ picked' = first
          /\ cfg' = Adjust(rc.configs[first], file.ext)
          /\ UNCHANGED why
  /\ UNCHANGED <<call, at, rc>>

\* build_as_input before it parses.
MergeConfig ==
  LET merged == Merge(call.opts.own, cfg)
      adjusted == IF call.file.real THEN Adjust(merged, call.file.ext) ELSE merged IN
  /\ stage = "merge"
  /\ cfg' = [adjusted EXCEPT !.lang = IF @ = "unset" THEN "es" ELSE @,
                             !.isModule = IF @ = "unset" THEN "module" ELSE @]
  /\ IF merged.target /\ merged.env THEN Quit("config") ELSE stage' = "parse" /\ UNCHANGED why
  /\ UNCHANGED <<call, at, rc, picked>>

ConfigInit(c) ==
  /\ stage = "match" /\ why = ""
  /\ call = c
  /\ at = Depth + 1 /\ rc = DefaultRc /\ picked = 0
  /\ cfg = DefaultConfig

ConfigNext == MatchOptions \/ SearchUp \/ Load \/ Pick \/ MergeConfig

-----------------------------------------------------------------------------
ConfigTypeOK ==
  /\ at \in 0..(Depth + 1)
  /\ picked \in 0..Len(rc.configs)
  /\ rc \in RcFiles \union {DefaultRc}
  /\ cfg \in Configs

\* A search that has a root among the file's directories takes no .swcrc from above it, and takes
\* the nearest there is.
SearchStaysUnderRoot ==
  stage \in {"load", "pick", "merge", "parse"} /\ at \in 1..Depth =>
    /\ call.opts.rootMode = "root" /\ call.opts.root \in 1..Depth => at >= call.opts.root
    /\ rc # DefaultRc => at \in call.rcDirs
    /\ \A d \in (at + 1)..Depth : d \notin call.rcDirs

\* What goes on to be parsed is a file that the options and the picked config include; no config
\* before the picked one does.
OnlyMatchingFiles ==
  stage \in {"merge", "parse"} /\ call.file.real =>
    /\ Matches(call.opts.own, call.file.ext)
    /\ picked \in DOMAIN rc.configs /\ Matches(rc.configs[picked], call.file.ext)
    /\ \A i \in 1..(picked - 1) : ~Matches(rc.configs[i], call.file.ext)

\* Without a .swcrc and without a parser in the options, a .ts or .tsx file is parsed as TypeScript,
\* with JSX just if it is a .tsx file.
TypescriptByDefault ==
  stage = "parse" /\ call.file.real /\ rc = DefaultRc /\ call.opts.own.lang = "unset"
    /\ call.file.ext \in {"ts", "tsx"} =>
      cfg.lang = "ts" /\ cfg.tsx = (call.file.ext = "tsx")

\* A file that an exclude of the options or of the picked config names is not compiled.
ExcludedStaysOut ==
  stage \in {"parse", "build", "map", "run", "printed"} /\ call.file.real /\ picked # 0 =>
    \A c \in {call.opts.own, rc.configs[picked]} :
      c.exclude # Absent => ~\E pattern \in c.exclude : call.file.ext \in pattern
=============================================================================
