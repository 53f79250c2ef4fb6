------------------------------- MODULE Iteration -------------------------------
(***************************************************************************)
(* Iterating over an instance of a class that implements Generator: each   *)
(* call of its Symbol.iterator gives a generator object with a state of    *)
(* its own, and all of them drive the one Rust value behind the instance.  *)
(* Source: bindgen_runtime/iterator.rs of src/vendor-crates/napi/src.      *)
(*                                                                         *)
(* The instance is kept by its user: a generator object does not do so.    *)
(***************************************************************************)
EXTENDS FiniteSets, Naturals

CONSTANTS Generators,
          MaxItems      \* bound: what the Rust value has to give

ASSUME IterationAssumption == MaxItems \in Nat

VARIABLES
  state,   \* [[GeneratorState]]: "none" (no object yet), "open", "completed"
  items,   \* what the Rust value has left
  got,     \* items each generator object has given
  spoiled, \* items taken by a next() whose argument could not be converted
  told     \* what the last return() or throw() of each said: "nothing", "over", "goes on"

iterationVars == <<state, items, got, spoiled, told>>

\* create_iterator and symbol_generator.
MakeIterator(g) ==
  /\ state[g] = "none"
  /\ state' = [state EXCEPT ![g] = "open"]
  /\ UNCHANGED <<items, got, spoiled, told>>

\* generator_next.  An argument that cannot be converted throws, and the value is asked all
\* the same.  That the value has nothing left is answered and not stored.
GeneratorNext(g, converts) ==
  /\ state[g] = "open" /\ items > 0
  /\ items' = items - 1
  /\ IF converts THEN got' = [got EXCEPT ![g] = @ + 1] /\ UNCHANGED spoiled
                 ELSE spoiled' = spoiled + 1 /\ UNCHANGED got
  /\ UNCHANGED <<state, told>>

\* generator_return; an argument that cannot be converted throws and changes nothing.
GeneratorReturn(g, converts) ==
  /\ state[g] # "none" /\ converts
  /\ state' = [state EXCEPT ![g] = "completed"]
  /\ told' = [told EXCEPT ![g] = "over"]
  /\ UNCHANGED <<items, got, spoiled>>

\* generator_throw, also of a completed one: `catch` gives an Err or nothing, which completes the
\* generator, or a value, which opens it again.
GeneratorThrow(g, caught) ==
  /\ state[g] # "none"
  /\ state' = [state EXCEPT ![g] = IF caught THEN "open" ELSE "completed"]
  /\ told' = [told EXCEPT ![g] = IF caught THEN "goes on" ELSE "over"]
  /\ UNCHANGED <<items, got, spoiled>>

IterationInit ==
  /\ state = [g \in Generators |-> "none"]
  /\ items = MaxItems /\ spoiled = 0
  /\ got = [g \in Generators |-> 0]
  /\ told = [g \in Generators |-> "nothing"]

IterationNext ==
  \E g \in Generators :
    \/ MakeIterator(g)
    \/ \E b \in BOOLEAN : GeneratorNext(g, b) \/ GeneratorReturn(g, b) \/ GeneratorThrow(g, b)

-----------------------------------------------------------------------------
\* A generator object that has told its caller that it is over takes nothing more from the
\* Rust value, also while another object on the same value goes on.
OverIsOver ==
  [][\A g \in Generators : told[g] = "over" => got'[g] = got[g]]_iterationVars

IterationTypeOK ==
  /\ state \in [Generators -> {"none", "open", "completed"}]
  /\ items \in 0..MaxItems /\ spoiled \in 0..MaxItems
  /\ got \in [Generators -> 0..MaxItems]
  /\ told \in [Generators -> {"nothing", "over", "goes on"}]
=============================================================================
