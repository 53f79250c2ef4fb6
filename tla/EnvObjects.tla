------------------------------ MODULE EnvObjects ------------------------------
(***************************************************************************)
(* What an addon keeps in its environment through Env: Rust values boxed   *)
(* and given to JS (wrapped objects, externals, closures behind functions, *)
(* finalisers, buffers, instance data, cleanup hooks), and references to   *)
(* JS objects (Ref, FunctionRef, and the one inside an Error).             *)
(* Sources: env.rs, error.rs, async_cleanup_hook.rs, js_values/object.rs,  *)
(* js_values/value_ref.rs, bindgen_runtime/js_values/external.rs and       *)
(* bindgen_runtime/js_values/function.rs of src/vendor-crates/napi/src.    *)
(*                                                                         *)
(* All of it happens on the environment's thread, one call at a time; what *)
(* is hard is the order of the calls, JS's garbage collector and the end   *)
(* of the environment.  JS values, the collector and the hooks' queue are  *)
(* external.  A Node-API call that fails is one with ~ok.  The sizes of     *)
(* externals, hints to the collector, are left out.                        *)
(***************************************************************************)
EXTENDS FiniteSets, Naturals, Sequences

CONSTANTS Objects,    \* JS objects
          Natives,    \* boxed Rust values
          Types,      \* their types
          Refs,       \* references Rust keeps
          MaxCount,   \* bound: the count of a reference, and the copies of an Error
          MaxThings,  \* bound: objects, boxed values and references together
          None

ASSUME EnvAssumption ==
  /\ None \notin Natives /\ None \notin Objects /\ None \notin Types
  /\ MaxCount \in Nat /\ MaxThings \in Nat

Vias == {"wrap", "external", "closure", "finalizer", "buffer"}

\* How a value comes to be owned by nobody.
Losses == {"failed", "mistyped", "overwritten", "unhooked", "forgotten"}

VARIABLES
  envLife,    \* "open", "closing" (hooks run), "ending" (finalisers run), "gone"
  obj,        \* each object: "unborn", "held", "loose" (JS has let go of it), "collected"
  attached,   \* what is to be finalised with an object
  type,       \* the type of each boxed value
  box,        \* its memory
  freedAs,    \* the type it was freed as
  instance,   \* the instance data
  hooks,      \* cleanup hooks, in the order they were added
  lost,       \* values owned by nobody, with the reason
  view,       \* the &mut T that Rust code holds, and the object it came with
  returned,   \* values that an External taken from JS gave JS once more
  twice,      \* values whose memory was freed a second time
  ref,        \* references
  copies,     \* the Errors that share a reference
  cloned,     \* references of Errors that were cloned
  redeleted   \* references that were deleted a second time

errVars == <<copies, cloned, redeleted>>
boxVars == <<type, box, freedAs, instance, hooks, lost>>
extVars == <<view, returned, twice>>
refVars == <<ref, errVars>>
envVars == <<envLife, obj, attached, boxVars, extVars, refVars>>

NoView == [nat |-> None, as |-> None, from |-> None]
NoRef == [of |-> None, by |-> None, napi |-> 0, rust |-> 0, state |-> "none"]

Attach(o, n, via) == attached' = attached \union {[obj |-> o, nat |-> n, via |-> via]}

WrapOf(o) == {h \in attached : h.obj = o /\ h.via = "wrap"}

\* Rust code runs: a callback, with its handle scope.
Running == envLife = "open"

Room(k) ==
  Cardinality({o \in Objects : obj[o] # "unborn"})
    + Cardinality({n \in Natives : box[n] # "unused"})
    + Cardinality({r \in Refs : ref[r].state # "none"}) + k <= MaxThings

BoxUp(n, T) ==
  /\ box[n] = "unused" /\ Room(1)
  /\ box' = [box EXCEPT ![n] = "live"]
  /\ type' = [type EXCEPT ![n] = T]

Lose(n, why) == lost' = lost \union {<<n, why>>}

-----------------------------------------------------------------------------
(* Values given to JS                                                      *)

NewObject(o) ==
  /\ Running /\ obj[o] = "unborn" /\ Room(1)
  /\ obj' = [obj EXCEPT ![o] = "held"]
  /\ UNCHANGED <<envLife, attached, boxVars, extVars, refVars>>

\* Env::wrap; Node-API refuses an object that is wrapped already.
Wrap(o, n, T, ok) ==
  /\ Running /\ obj[o] = "held" /\ BoxUp(n, T)
  /\ IF ok /\ WrapOf(o) = {}
     THEN Attach(o, n, "wrap") /\ UNCHANGED lost
     ELSE Lose(n, "failed") /\ UNCHANGED attached
  /\ UNCHANGED <<envLife, obj, freedAs, instance, hooks, extVars, refVars>>

\* JsObject::add_finalizer.
AddFinalizer(o, n, T, ok) ==
  /\ Running /\ obj[o] = "held" /\ BoxUp(n, T)
  /\ IF ok THEN Attach(o, n, "finalizer") /\ UNCHANGED lost
           ELSE Lose(n, "failed") /\ UNCHANGED attached
  /\ UNCHANGED <<envLife, obj, freedAs, instance, hooks, extVars, refVars>>

\* Env::create_external and External::to_napi_value.
CreateExternal(o, n, T, ok) ==
  /\ Running /\ obj[o] = "unborn" /\ BoxUp(n, T) /\ Room(2)
  /\ IF ok THEN /\ Attach(o, n, "external") /\ UNCHANGED lost
                /\ obj' = [obj EXCEPT ![o] = "held"]
           ELSE Lose(n, "failed") /\ UNCHANGED <<attached, obj>>
  /\ UNCHANGED <<envLife, freedAs, instance, hooks, extVars, refVars>>

\* create_function_from_closure; the closure goes with the function.
CreateClosure(o, n, T, ok) ==
  /\ Running /\ obj[o] = "unborn" /\ BoxUp(n, T) /\ Room(2)
  /\ obj' = [obj EXCEPT ![o] = "held"]
  /\ IF ok THEN Attach(o, n, "closure") /\ UNCHANGED lost
           ELSE Lose(n, "failed") /\ UNCHANGED attached
  /\ UNCHANGED <<envLife, freedAs, instance, hooks, extVars, refVars>>

\* An External of a new value that is not converted; it has no Drop.
ForgetExternal(n, T) ==
  /\ Running /\ BoxUp(n, T)
  /\ Lose(n, "forgotten")
  /\ UNCHANGED <<envLife, obj, attached, freedAs, instance, hooks, extVars, refVars>>

\* An External that JS gave (External::from_napi_value, which is a Borrow) goes back to JS by its
\* to_napi_value: a second object, with a second finaliser of the same value.
ReturnExternal(o) ==
  /\ Running /\ view # NoView /\ obj[o] = "unborn" /\ Room(1)
  /\ [obj |-> view.from, nat |-> view.nat, via |-> "external"] \in attached
  /\ obj' = [obj EXCEPT ![o] = "held"]
  /\ Attach(o, view.nat, "external")
  /\ returned' = returned \union {view.nat}
  /\ view' = NoView
  /\ UNCHANGED <<envLife, boxVars, twice, refVars>>

\* What create_buffer_with_data ("buffer") and create_arraybuffer_with_data do with a Vec
\* and their _with_borrowed_data forms with a finalise callback: JS takes the memory, or the host allows no
\* external buffers and it is copied, or the call fails, or a Vec is empty.
BufferOutcome(n, api, borrowed, outcome) ==
  CASE outcome = "copied" /\ ~borrowed /\ api = "arraybuffer" -> "forgotten"
    [] outcome = "copied"                -> "free"
    [] outcome = "failed" /\ borrowed    -> "failed"
    [] outcome = "failed"                -> "free"
    [] outcome = "empty" /\ ~borrowed    -> "forgotten"
    [] OTHER                             -> "owned"

GiveBuffer(o, n, T, api, borrowed, outcome) ==
  LET what == BufferOutcome(n, api, borrowed, outcome) IN
  /\ Running /\ obj[o] = "unborn" /\ box[n] = "unused" /\ Room(2)
  /\ type' = [type EXCEPT ![n] = T]
  /\ obj' = [obj EXCEPT ![o] = IF outcome = "failed" THEN "unborn" ELSE "held"]
  /\ box' = [box EXCEPT ![n] = IF what = "free" THEN "freed" ELSE "live"]
  /\ freedAs' = [freedAs EXCEPT ![n] = IF what = "free" THEN T ELSE @]
  /\ IF what = "owned" THEN Attach(o, n, "buffer") ELSE UNCHANGED attached
  /\ IF what \in {"failed", "forgotten"} THEN Lose(n, what) ELSE UNCHANGED lost
  /\ UNCHANGED <<envLife, instance, hooks, extVars, refVars>>

\* (Mutant) the value is read and the wrap left.
DropWrappedUnread(o, T) ==
  /\ Running /\ obj[o] = "held" /\ view = NoView
  /\ \E h \in WrapOf(o) :
       IF type[h.nat] = T
       THEN /\ box' = [box EXCEPT ![h.nat] = "freed"]
            /\ freedAs' = [freedAs EXCEPT ![h.nat] = T]
            /\ UNCHANGED <<lost, attached>>
       ELSE UNCHANGED <<box, freedAs, lost, attached>>
  /\ UNCHANGED <<envLife, obj, type, instance, hooks, extVars, refVars>>

\* Env::drop_wrapped: the wrap is removed before the type is looked at.
DropWrapped(o, T) ==
  /\ Running /\ obj[o] = "held" /\ view = NoView
  /\ \E h \in WrapOf(o) :
       /\ attached' = attached \ {h}
       /\ IF type[h.nat] = T
          THEN /\ box' = [box EXCEPT ![h.nat] = "freed"]
               /\ freedAs' = [freedAs EXCEPT ![h.nat] = T]
               /\ UNCHANGED lost
          ELSE Lose(h.nat, "mistyped") /\ UNCHANGED <<box, freedAs>>
  /\ UNCHANGED <<envLife, obj, type, instance, hooks, extVars, refVars>>

\* The tag at the head of a TaggedObject is compared.
IsOfType(n, T) == type[n] = T

\* Env::unwrap, get_value_external and External::from_napi_value; a wrong type gives an Err.  In
\* memory that is freed any tag may be read.
Borrow(o, T) ==
  /\ Running /\ obj[o] = "held" /\ view = NoView
  /\ \E h \in {k \in attached : k.obj = o /\ k.via \in {"wrap", "external"}} :
       /\ IsOfType(h.nat, T) \/ box[h.nat] = "freed"
       /\ view' = [nat |-> h.nat, as |-> T, from |-> o]
  /\ UNCHANGED <<envLife, obj, attached, boxVars, returned, twice, refVars>>

\* The callback returns, and with it the borrow.
Return ==
  /\ view # NoView
  /\ view' = NoView
  /\ UNCHANGED <<envLife, obj, attached, boxVars, returned, twice, refVars>>

-----------------------------------------------------------------------------
(* Instance data and cleanup hooks                                         *)

\* Env::set_instance_data: what was set before is overwritten, and not finalised.
SetInstance(n, T, ok) ==
  /\ Running /\ view = NoView /\ BoxUp(n, T)
  /\ IF ok
     THEN /\ instance' = n
          /\ IF instance = None THEN UNCHANGED lost ELSE Lose(instance, "overwritten")
     ELSE Lose(n, "failed") /\ UNCHANGED instance
  /\ UNCHANGED <<envLife, obj, attached, freedAs, hooks, extVars, refVars>>

\* Env::get_instance_data.
BorrowInstance(T) ==
  /\ Running /\ view = NoView /\ instance # None /\ IsOfType(instance, T)
  /\ view' = [nat |-> instance, as |-> T, from |-> None]
  /\ UNCHANGED <<envLife, obj, attached, boxVars, returned, twice, refVars>>

\* add_env_cleanup_hook, add_async_cleanup_hook and add_removable_async_cleanup_hook.
AddHook(n, T, ok) ==
  /\ Running /\ BoxUp(n, T)
  /\ IF ok THEN hooks' = Append(hooks, n) /\ UNCHANGED lost
           ELSE Lose(n, "failed") /\ UNCHANGED hooks
  /\ UNCHANGED <<envLife, obj, attached, freedAs, instance, extVars, refVars>>

\* remove_env_cleanup_hook and the drop of an AsyncCleanupHook: nothing frees the data.
RemoveHook(n) ==
  /\ Running
  /\ \E i \in DOMAIN hooks :
       /\ hooks[i] = n
       /\ hooks' = SubSeq(hooks, 1, i - 1) \o SubSeq(hooks, i + 1, Len(hooks))
  /\ Lose(n, "unhooked")
  /\ UNCHANGED <<envLife, obj, attached, type, box, freedAs, instance, extVars, refVars>>

-----------------------------------------------------------------------------
(* References                                                              *)

\* create_reference, create_reference_with_refcount; create_ref and from_napi_value of a
\* FunctionRef; an Error made from a JS exception.
CreateRef(r, o, by, c) ==
  /\ Running /\ obj[o] = "held" /\ ref[r].state = "none" /\ Room(1)
  /\ by # "Ref" => c = 1
  /\ ref' = [ref EXCEPT ![r] = [of |-> o, by |-> by, napi |-> c, rust |-> c, state |-> "live"]]
  /\ copies' = [copies EXCEPT ![r] = IF by = "Error" THEN 1 ELSE 0]
  /\ UNCHANGED <<envLife, obj, attached, boxVars, extVars, cloned, redeleted>>

\* Ref::reference.
RefUp(r) ==
  /\ Running /\ ref[r].by = "Ref" /\ ref[r].state = "live" /\ ref[r].napi < MaxCount
  /\ obj[ref[r].of] # "collected"
  /\ ref' = [ref EXCEPT ![r].napi = @ + 1, ![r].rust = ref[r].napi + 1]
  /\ UNCHANGED <<envLife, obj, attached, boxVars, extVars, errVars>>

\* Ref::unref deletes the reference at zero; it is not called again after that, and a count
\* that is zero already gives an Err.
RefDown(r) ==
  /\ Running /\ ref[r].by = "Ref" /\ ref[r].state = "live" /\ ref[r].napi > 0
  /\ ref' = [ref EXCEPT ![r].napi = @ - 1, ![r].rust = ref[r].napi - 1,
                        ![r].state = IF ref[r].napi = 1 THEN "deleted" ELSE "live"]
  /\ UNCHANGED <<envLife, obj, attached, boxVars, extVars, errVars>>

\* A Ref or a FunctionRef is dropped: the second deletes its reference, the first does nothing, so
\* a count that is left pins the object.
DropRef(r) ==
  /\ Running /\ ref[r].state = "live" /\ ref[r].by # "Error"
  /\ ref' = [ref EXCEPT ![r].state = IF ref[r].by = "FunctionRef" THEN "deleted" ELSE "leaked"]
  /\ UNCHANGED <<envLife, obj, attached, boxVars, extVars, errVars>>

\* Error derives Clone: the copy has the same reference.
CloneError(r) ==
  /\ Running /\ copies[r] > 0 /\ copies[r] < MaxCount
  /\ copies' = [copies EXCEPT ![r] = @ + 1]
  /\ cloned' = cloned \union {r}
  /\ UNCHANGED <<envLife, obj, attached, boxVars, extVars, ref, redeleted>>

\* An Error is dropped, which has no Drop, or throw_into leaves its reference alone because an
\* exception is pending.
DropError(r) ==
  /\ Running /\ copies[r] > 0
  /\ copies' = [copies EXCEPT ![r] = @ - 1]
  /\ ref' = [ref EXCEPT ![r].state = IF @ = "live" /\ copies[r] = 1 THEN "leaked" ELSE @]
  /\ UNCHANGED <<envLife, obj, attached, boxVars, extVars, cloned, redeleted>>

\* An Error becomes a JS value or is thrown (into_value, to_napi_value, throw_into): the exception
\* that JS threw is found by its reference, which is deleted, be it by a copy or again.
RethrowError(r) ==
  /\ Running /\ copies[r] > 0
  /\ copies' = [copies EXCEPT ![r] = @ - 1]
  /\ ref' = [ref EXCEPT ![r].state = "deleted"]
  /\ obj' = [obj EXCEPT ![ref[r].of] = IF ref[r].state = "live" THEN "held" ELSE @]
  /\ redeleted' = redeleted \union {x \in {r} : ref[r].state = "deleted"}
  /\ UNCHANGED <<envLife, attached, boxVars, extVars, cloned>>

-----------------------------------------------------------------------------
(* The collector and the end of the environment                            *)

ReleaseObject(o) ==
  /\ obj[o] = "held" /\ Running
  /\ obj' = [obj EXCEPT ![o] = "loose"]
  /\ UNCHANGED <<envLife, attached, boxVars, extVars, refVars>>

Pinned(o) == \E r \in Refs : ref[r].of = o /\ ref[r].napi > 0 /\ ref[r].state \in {"live", "leaked"}

\* An object goes, and its finalisers run (raw_finalize, finalize_callback,
\* finalize_box_trampoline, drop_buffer, raw_finalize_with_custom_callback).
Collect(o) ==
  LET mine == {h \in attached : h.obj = o}
      nats == {h.nat : h \in mine}
  IN
  /\ \/ Running /\ obj[o] = "loose" /\ ~Pinned(o) /\ view.from # o
     \/ envLife = "ending" /\ obj[o] \in {"held", "loose"}
  /\ obj' = [obj EXCEPT ![o] = "collected"]
  /\ attached' = attached \ mine
  /\ box' = [n \in Natives |-> IF n \in nats THEN "freed" ELSE box[n]]
  /\ freedAs' = [n \in Natives |-> IF n \in nats THEN type[n] ELSE freedAs[n]]
  /\ twice' = twice \union {n \in nats : box[n] = "freed"}
  /\ UNCHANGED <<envLife, type, instance, hooks, lost, view, returned, refVars>>

CloseEnv ==
  /\ Running /\ view = NoView
  /\ envLife' = "closing"
  /\ UNCHANGED <<obj, attached, boxVars, extVars, refVars>>

\* cleanup_env and async_finalize, last in first out; each consumes its data.
RunHook ==
  /\ envLife = "closing" /\ hooks # <<>>
  /\ LET n == hooks[Len(hooks)] IN
     /\ box' = [box EXCEPT ![n] = "freed"]
     /\ freedAs' = [freedAs EXCEPT ![n] = type[n]]
  /\ hooks' = SubSeq(hooks, 1, Len(hooks) - 1)
  /\ UNCHANGED <<envLife, obj, attached, type, instance, lost, extVars, refVars>>

HooksDone ==
  /\ envLife = "closing" /\ hooks = <<>>
  /\ envLife' = "ending"
  /\ UNCHANGED <<obj, attached, boxVars, extVars, refVars>>

\* set_instance_finalize_callback, after every other finaliser.
EndEnv ==
  /\ envLife = "ending" /\ \A o \in Objects : obj[o] \in {"unborn", "collected"}
  /\ envLife' = "gone"
  /\ instance' = None
  /\ box' = [n \in Natives |-> IF n = instance THEN "freed" ELSE box[n]]
  /\ freedAs' = [n \in Natives |-> IF n = instance THEN type[n] ELSE freedAs[n]]
  /\ UNCHANGED <<obj, attached, type, hooks, lost, extVars, refVars>>

-----------------------------------------------------------------------------
EnvInit ==
  /\ envLife = "open" /\ obj = [o \in Objects |-> "unborn"] /\ attached = {}
  /\ type = [n \in Natives |-> None] /\ box = [n \in Natives |-> "unused"]
  /\ freedAs = [n \in Natives |-> None]
  /\ instance = None /\ hooks = <<>> /\ lost = {} /\ view = NoView
  /\ returned = {} /\ twice = {}
  /\ ref = [r \in Refs |-> NoRef]
  /\ copies = [r \in Refs |-> 0] /\ cloned = {} /\ redeleted = {}

GiveValue(n, T) ==
  \/ ForgetExternal(n, T)
  \/ \E ok \in BOOLEAN : \/ SetInstance(n, T, ok) \/ AddHook(n, T, ok)
                         \/ \E o \in Objects : \/ Wrap(o, n, T, ok) \/ AddFinalizer(o, n, T, ok)
                                               \/ CreateExternal(o, n, T, ok)
                                               \/ CreateClosure(o, n, T, ok)
  \/ \E o \in Objects, api \in {"buffer", "arraybuffer"}, borrowed \in BOOLEAN,
        outcome \in {"external", "copied", "failed", "empty"} :
       GiveBuffer(o, n, T, api, borrowed, outcome)

EnvNext ==
  \/ \E n \in Natives : RemoveHook(n) \/ \E T \in Types : GiveValue(n, T)
  \/ \E o \in Objects : \/ NewObject(o) \/ ReleaseObject(o) \/ Collect(o) \/ ReturnExternal(o)
                        \/ \E T \in Types : DropWrapped(o, T) \/ Borrow(o, T)
  \/ \E T \in Types : BorrowInstance(T)
  \/ Return
  \/ \E r \in Refs :
       \/ RefUp(r) \/ RefDown(r) \/ DropRef(r)
       \/ CloneError(r) \/ DropError(r) \/ RethrowError(r)
       \/ \E o \in Objects, by \in {"Ref", "FunctionRef", "Error"}, c \in 0..MaxCount : CreateRef(r, o, by, c)
  \/ CloseEnv \/ RunHook \/ HooksDone \/ EndEnv

EnvSpec == EnvInit /\ [][EnvNext]_envVars

-----------------------------------------------------------------------------
(* Properties                                                              *)

EnvTypeOK ==
  /\ envLife \in {"open", "closing", "ending", "gone"}
  /\ obj \in [Objects -> {"unborn", "held", "loose", "collected"}]
  /\ attached \subseteq [obj : Objects, nat : Natives, via : Vias]
  /\ type \in [Natives -> Types \union {None}]
  /\ box \in [Natives -> {"unused", "live", "freed"}]
  /\ freedAs \in [Natives -> Types \union {None}]
  /\ instance \in Natives \union {None}
  /\ hooks \in Seq(Natives)
  /\ lost \subseteq Natives \X Losses
  /\ view \in [nat : Natives \union {None}, as : Types \union {None}, from : Objects \union {None}]
  /\ returned \subseteq Natives /\ twice \subseteq Natives
  /\ copies \in [Refs -> 0..MaxCount] /\ cloned \subseteq Refs /\ redeleted \subseteq Refs
  /\ ref \in [Refs -> [of : Objects \union {None}, by : {"Ref", "FunctionRef", "Error", None},
                       napi : 0..MaxCount, rust : 0..MaxCount,
                       state : {"none", "live", "leaked", "deleted"}]]

\* The ways in which a value is owned: by finalisers, as the instance data, by a hook, by nobody.
Owners(n) ==
  {<<"finaliser", h.obj, h.via>> : h \in {k \in attached : k.nat = n}}
    \union (IF instance = n THEN {<<"instance">>} ELSE {})
    \union {<<"hook", i>> : i \in {j \in DOMAIN hooks : hooks[j] = n}}
    \union {<<"nobody", l[2]>> : l \in {k \in lost : k[1] = n}}

\* Every boxed value has one owner while it lives and none when it is freed, so what is left after
\* the environment's end was lost by one of the named ways; and nothing is freed twice.  Excepted
\* is what an External that came from JS gave it once more, which has two finalisers.
OneOwner ==
  /\ \A n \in Natives \ returned : Cardinality(Owners(n)) = IF box[n] = "live" THEN 1 ELSE 0
  /\ twice \subseteq returned

\* A value is freed as what it was boxed as, and the &mut T that Rust code holds is to a
\* value of type T that is still there, with the same exception.
TypesAreKept ==
  /\ \A n \in Natives \ returned : box[n] = "freed" => freedAs[n] = type[n]
  /\ view # NoView /\ view.nat \notin returned =>
       box[view.nat] = "live" /\ type[view.nat] = view.as

\* The count a Ref shows is Node-API's, a reference that is counted keeps its object, a Ref deletes
\* its reference at zero only, and no reference is deleted again but that of an Error that was
\* cloned.
RefsPin ==
  /\ \A r \in Refs : ref[r].state # "none" =>
       /\ ref[r].rust = ref[r].napi
       /\ ref[r].by = "Ref" /\ ref[r].state = "deleted" => ref[r].napi = 0
       /\ envLife = "open" /\ Pinned(ref[r].of) => obj[ref[r].of] # "collected"
  /\ redeleted \subseteq cloned

=============================================================================
