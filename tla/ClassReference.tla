--------------------------- MODULE ClassReference ---------------------------
(***************************************************************************)
(* Instances of napi classes on one JS thread: the Rust value behind the   *)
(* JS object, the entry of REFERENCE_MAP at its address, and the           *)
(* Reference, WeakReference and SharedReference values Rust keeps to it.   *)
(* Also the thread's flag by which a factory tells the constructor that it *)
(* is called from a factory.                                               *)
(* Sources: bindgen_runtime/js_values/value_ref.rs,                        *)
(* bindgen_runtime/mod.rs, bindgen_runtime/callback_info.rs of             *)
(* src/vendor-crates/napi/src.                                             *)
(*                                                                         *)
(* The instances are numbered in the order of their making and live at     *)
(* one address, the allocator's worst choice: one is made when the value   *)
(* before it has been freed.  References, wrapping and the garbage         *)
(* collector are external.                                                 *)
(***************************************************************************)
EXTENDS Naturals, Sequences

CONSTANTS MaxMade,       \* bound: instances made
          MaxRefs,       \* bound: References to one instance
          MaxDepth,      \* bound: nesting of constructor calls
          FinalizeFails  \* ObjectFinalize::finalize may give an Err

ASSUME RefAssumption ==
  MaxMade \in Nat /\ MaxRefs \in Nat /\ MaxDepth \in Nat /\ FinalizeFails \in BOOLEAN

Made == 1..MaxMade

VARIABLES
  made,     \* instances made so far
  rust,     \* the boxed value of each
  js,       \* its object: "none", "held", "loose" (nothing in JS holds it), "collected"
  napiRef,  \* the napi_ref of its wrap
  count,    \* the reference count of that
  entry,    \* REFERENCE_MAP at the address: an instance, 0 for none
  mapShare, \* the map's raw Rc to the callbacks exists
  refs,     \* References
  weak,     \* a WeakReference exists
  shared,   \* a SharedReference's value hangs on the callbacks
  exiting,  \* the environment finalises what is left
  errored,  \* instances whose finalize gave an Err
  atExit,   \* References an instance had when it was finalised
  misused,  \* what was done to what no longer exists
  flag,     \* ___CALL_FROM_FACTORY
  frames,   \* constructor calls under way
  nested,   \* JS constructed something while a factory was constructing
  misread   \* what constructors took the flag for, wrongly

objectVars == <<made, rust, js, napiRef, count, entry, mapShare, refs, weak, shared,
                exiting, errored, atExit, misused>>
factoryVars == <<flag, frames, nested, misread>>
classVars == <<objectVars, factoryVars>>

\* Rc::strong_count of an instance's callbacks.
Strong(i) == refs[i] + (IF mapShare[i] THEN 1 ELSE 0)

Counted(i) == [count EXCEPT ![i] = IF napiRef[i] = "live" THEN @ + 1 ELSE @]

UseRef(i, what) == IF napiRef[i] = "live" THEN misused ELSE misused \union {<<i, what>>}

-----------------------------------------------------------------------------
(* Making an instance                                                      *)

\* (Mutant) the entry that is replaced keeps its napi_ref and its Rc.
ReplaceForgets(i) ==
  /\ napiRef' = [napiRef EXCEPT ![i] = "live"]
  /\ mapShare' = [mapShare EXCEPT ![i] = TRUE]
  /\ misused' = misused

\* add_ref: what was in the map at this address is released.
AddRef(i) ==
  IF entry = 0
  THEN /\ napiRef' = [napiRef EXCEPT ![i] = "live"]
       /\ mapShare' = [mapShare EXCEPT ![i] = TRUE]
       /\ misused' = misused
  ELSE /\ napiRef' = [napiRef EXCEPT ![i] = "live", ![entry] = "deleted"]
       /\ mapShare' = [mapShare EXCEPT ![i] = TRUE, ![entry] = FALSE]
       /\ misused' = UseRef(entry, "delete")

\* _construct and _factory, after the JS object is there; a wrap that fails leaks the value
\* and leaves the map alone, so that the instance is never one.
Construct ==
  /\ ~exiting /\ made < MaxMade
  /\ made > 0 => rust[made] = "freed"
  /\ LET i == made + 1 IN
     /\ made' = i
     /\ rust' = [rust EXCEPT ![i] = "live"]
     /\ js' = [js EXCEPT ![i] = "held"]
     /\ AddRef(i)
     /\ entry' = i
     /\ UNCHANGED <<count, refs, weak, shared, exiting, errored, atExit, factoryVars>>

-----------------------------------------------------------------------------
(* References                                                              *)

\* from_napi_value and from_value_ptr: what the map has at the object's address.
TakeReference(i) ==
  /\ js[i] = "held" /\ entry = i /\ ~exiting /\ refs[i] < MaxRefs
  /\ refs' = [refs EXCEPT ![i] = @ + 1]
  /\ count' = Counted(i)
  /\ misused' = UseRef(i, "ref")
  /\ UNCHANGED <<made, rust, js, napiRef, entry, mapShare, weak, shared,
                 exiting, errored, atExit, factoryVars>>

\* Reference::clone.
CloneReference(i) ==
  /\ refs[i] \in 1..(MaxRefs - 1) /\ ~exiting
  /\ refs' = [refs EXCEPT ![i] = @ + 1]
  /\ count' = Counted(i)
  /\ misused' = UseRef(i, "ref")
  /\ UNCHANGED <<made, rust, js, napiRef, entry, mapShare, weak, shared,
                 exiting, errored, atExit, factoryVars>>

\* The last owner of the callbacks takes the object for finalised already.
Unrefs(i) == Strong(i) > 1

\* Drop for Reference.
DropReference(i) ==
  /\ refs[i] > 0
  /\ refs' = [refs EXCEPT ![i] = @ - 1]
  /\ IF Unrefs(i)
     THEN /\ misused' = UseRef(i, "unref")
          /\ count' = [count EXCEPT ![i] = IF napiRef[i] = "live" THEN @ - 1 ELSE @]
     ELSE UNCHANGED <<misused, count>>
  /\ UNCHANGED <<made, rust, js, napiRef, entry, mapShare, weak, shared,
                 exiting, errored, atExit, factoryVars>>

Downgrade(i) ==
  /\ refs[i] > 0 /\ ~weak[i]
  /\ weak' = [weak EXCEPT ![i] = TRUE]
  /\ UNCHANGED <<made, rust, js, napiRef, count, entry, mapShare, refs, shared,
                 exiting, errored, atExit, misused, factoryVars>>

WeakAlive(i) == Strong(i) > 0

\* WeakReference::get and get_mut.
WeakGet(i) ==
  /\ weak[i] /\ WeakAlive(i)
  /\ misused' = IF rust[i] = "live" THEN misused ELSE misused \union {<<i, "value">>}
  /\ UNCHANGED <<made, rust, js, napiRef, count, entry, mapShare, refs, weak, shared,
                 exiting, errored, atExit, factoryVars>>

\* WeakReference::upgrade.
Upgrade(i) ==
  /\ weak[i] /\ WeakAlive(i) /\ refs[i] < MaxRefs /\ ~exiting
  /\ refs' = [refs EXCEPT ![i] = @ + 1]
  /\ count' = Counted(i)
  /\ misused' = UseRef(i, "ref")
  /\ UNCHANGED <<made, rust, js, napiRef, entry, mapShare, weak, shared,
                 exiting, errored, atExit, factoryVars>>

\* share_with, of a Reference and of a SharedReference: the value made from the borrowed one
\* is dropped with the callbacks; a closure that fails drops the Reference.
ShareWith(i) ==
  /\ refs[i] > 0 /\ ~exiting
  /\ shared' = [shared EXCEPT ![i] = TRUE]
  /\ misused' = IF rust[i] = "live" THEN misused ELSE misused \union {<<i, "value">>}
  /\ UNCHANGED <<made, rust, js, napiRef, count, entry, mapShare, refs, weak,
                 exiting, errored, atExit, factoryVars>>

-----------------------------------------------------------------------------
(* The end of an instance                                                  *)

\* JS lets go of the object, or gets it back from a Reference (to_napi_value).
Release(i) ==
  /\ js[i] = "held"
  /\ js' = [js EXCEPT ![i] = "loose"]
  /\ UNCHANGED <<made, rust, napiRef, count, entry, mapShare, refs, weak, shared,
                 exiting, errored, atExit, misused, factoryVars>>

ToJs(i) ==
  /\ refs[i] > 0 /\ js[i] = "loose" /\ ~exiting
  /\ js' = [js EXCEPT ![i] = "held"]
  /\ misused' = UseRef(i, "get")
  /\ UNCHANGED <<made, rust, napiRef, count, entry, mapShare, refs, weak, shared,
                 exiting, errored, atExit, factoryVars>>

\* The process or the worker ends: finalisers run whatever the counts.
Exit ==
  /\ ~exiting
  /\ exiting' = TRUE
  /\ UNCHANGED <<made, rust, js, napiRef, count, entry, mapShare, refs, weak, shared,
                 errored, atExit, misused, factoryVars>>

Collectable(i) ==
  js[i] \in {"held", "loose"} /\ (exiting \/ (js[i] = "loose" /\ count[i] = 0))

\* raw_finalize_unchecked: the value is consumed by `finalize`.  An Err is thrown and the rest
\* skipped; otherwise the entry goes, with its Rc, its callbacks and its napi_ref.
Finalize(i) ==
  /\ Collectable(i)
  /\ js' = [js EXCEPT ![i] = "collected"]
  /\ rust' = [rust EXCEPT ![i] = "freed"]
  /\ atExit' = [atExit EXCEPT ![i] = refs[i]]
  /\ \/ /\ FinalizeFails
        /\ errored' = errored \union {i}
        /\ UNCHANGED <<entry, mapShare, shared, napiRef, misused>>
     \/ /\ entry' = 0
        /\ mapShare' = [mapShare EXCEPT ![i] = FALSE]
        /\ shared' = [shared EXCEPT ![i] = FALSE]
        /\ misused' = UseRef(i, "delete")
        /\ napiRef' = [napiRef EXCEPT ![i] = "deleted"]
        /\ UNCHANGED errored
  /\ UNCHANGED <<made, count, refs, weak, exiting, factoryVars>>

-----------------------------------------------------------------------------
(* Factories                                                               *)

\* _factory: the flag is set around napi_new_instance; in between runs the constructor of
\* the class or, before it, that of a JS subclass.
FactoryBegin ==
  /\ Len(frames) < MaxDepth /\ ~exiting
  /\ flag' = TRUE
  /\ frames' = Append(frames, [by |-> "factory", ran |-> FALSE])
  /\ nested' = (nested \/ frames # <<>>)
  /\ UNCHANGED <<objectVars, misread>>

\* `new` of the class or of a subclass from JS.
NewBegin ==
  /\ Len(frames) < MaxDepth /\ ~exiting
  /\ frames' = Append(frames, [by |-> "new", ran |-> FALSE])
  /\ nested' = (nested \/ frames # <<>>)
  /\ UNCHANGED <<objectVars, flag, misread>>

\* The native constructor (`noop` and what the macro generates look at the flag alike): with
\* the flag it leaves the instance to the factory, without it makes or refuses one.
ConstructorRuns ==
  LET top == Len(frames) IN
  /\ top > 0 /\ ~frames[top].ran
  /\ frames' = [frames EXCEPT ![top].ran = TRUE]
  /\ misread' = IF flag = (frames[top].by = "factory") THEN misread ELSE misread \union {frames[top].by}
  /\ UNCHANGED <<objectVars, flag, nested>>

\* (Mutant) an exception in the constructor returns before the flag is cleared.
EndThrowing ==
  LET top == Len(frames) IN
  /\ top > 0
  /\ \/ flag' = IF frames[top].by = "factory" THEN FALSE ELSE flag
     \/ flag' = flag
  /\ frames' = SubSeq(frames, 1, top - 1)
  /\ nested' = (nested /\ top > 1)
  /\ UNCHANGED <<objectVars, misread>>

\* The constructor has returned or thrown; a factory clears the flag first.
End ==
  LET top == Len(frames) IN
  /\ top > 0
  /\ flag' = IF frames[top].by = "factory" THEN FALSE ELSE flag
  /\ frames' = SubSeq(frames, 1, top - 1)
  /\ nested' = (nested /\ top > 1)
  /\ UNCHANGED <<objectVars, misread>>

-----------------------------------------------------------------------------
ClassInit ==
  /\ made = 0 /\ entry = 0 /\ exiting = FALSE /\ errored = {} /\ misused = {}
  /\ rust = [i \in Made |-> "none"] /\ js = [i \in Made |-> "none"]
  /\ napiRef = [i \in Made |-> "none"] /\ count = [i \in Made |-> 0]
  /\ mapShare = [i \in Made |-> FALSE] /\ refs = [i \in Made |-> 0]
  /\ weak = [i \in Made |-> FALSE] /\ shared = [i \in Made |-> FALSE]
  /\ atExit = [i \in Made |-> 0]
  /\ flag = FALSE /\ frames = <<>> /\ nested = FALSE /\ misread = {}

InstanceNext ==
  \/ Construct \/ Exit
  \/ \E i \in Made :
       \/ TakeReference(i) \/ CloneReference(i) \/ DropReference(i)
       \/ Downgrade(i) \/ WeakGet(i) \/ Upgrade(i) \/ ShareWith(i)
       \/ Release(i) \/ ToJs(i) \/ Finalize(i)

FactoryNext == FactoryBegin \/ NewBegin \/ ConstructorRuns \/ End

ClassNext == InstanceNext \/ FactoryNext

ClassSpec == ClassInit /\ [][ClassNext]_classVars

-----------------------------------------------------------------------------
(* Properties                                                              *)

ClassTypeOK ==
  /\ made \in 0..MaxMade /\ entry \in 0..MaxMade /\ exiting \in BOOLEAN
  /\ rust \in [Made -> {"none", "live", "freed"}]
  /\ js \in [Made -> {"none", "held", "loose", "collected"}]
  /\ napiRef \in [Made -> {"none", "live", "deleted"}]
  /\ count \in [Made -> 0..MaxRefs] /\ refs \in [Made -> 0..MaxRefs]
  /\ mapShare \in [Made -> BOOLEAN] /\ weak \in [Made -> BOOLEAN]
  /\ shared \in [Made -> BOOLEAN] /\ atExit \in [Made -> 0..MaxRefs]
  /\ errored \subseteq Made
  /\ misused \subseteq Made \X {"ref", "unref", "delete", "get", "value"}
  /\ flag \in BOOLEAN /\ nested \in BOOLEAN /\ misread \subseteq {"factory", "new"}
  /\ frames \in Seq([by : {"factory", "new"}, ran : BOOLEAN])

\* While the environment lives the napi reference of an instance is counted once for
\* every Reference to it, so none of them outlives its object.
ReferencesAreCounted ==
  ~exiting => \A i \in Made : napiRef[i] = "live" /\ i \notin errored => count[i] = refs[i]

\* "If Rc strong count is 2 ... It always happened on exiting process" (mod.rs:51): a
\* Reference finds its napi reference deleted only if, at exit, its object was
\* finalised under two References or more; with one, its drop knows.
DeletedRefsAreLeftAlone ==
  \A m \in misused : m[2] \in {"ref", "unref", "delete", "get"} =>
    \/ atExit[m[1]] > 1
    \/ (m[1] \in errored /\ weak[m[1]])

\* A WeakReference gives a value that is there, unless `finalize` gave an Err, which leaves
\* the map's Rc alive, or the environment is ending under a Reference.
WeakNeverDangles ==
  \A m \in misused : m[2] = "value" => m[1] \in errored \/ exiting

\* The map has no entry of an instance that is gone, unless its `finalize` gave an Err; and an
\* entry has its Rc.
EntriesAreLive ==
  entry # 0 => mapShare[entry] /\ (rust[entry] = "live" \/ entry \in errored)

\* At most the entry's own Rc is held by the map: the one of an entry that a new instance
\* at the same address replaced is released.
OneShare == \A i \in Made : mapShare[i] => i = entry

\* A constructor takes a `new` for a factory's call, or the reverse, only where JS that runs
\* in the constructor of a subclass made another instance meanwhile.
FlagIsRead == [][misread' # misread => nested]_classVars
=============================================================================
