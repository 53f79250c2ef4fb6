------------------------------- MODULE BufferGc -------------------------------
(***************************************************************************)
(* Memory that Rust and JavaScript share: Buffer and the typed arrays,     *)
(* counted by an Arc across threads, and the "custom GC" threadsafe        *)
(* function through which a thread without an environment has a reference  *)
(* deleted.  With it goes the registration of the addon in each            *)
(* environment of the process, which decides who creates that function.    *)
(* Sources: bindgen_runtime/module_register.rs, js_values/buffer.rs and    *)
(* js_values/arraybuffer.rs of src/vendor-crates/napi/src.                 *)
(*                                                                         *)
(* The threadsafe function, references and JS's garbage collector are      *)
(* external.  Cleanup hooks of an environment run last in, first out:      *)
(* remove_thread_id, then the closing of the threadsafe function.          *)
(***************************************************************************)
EXTENDS FiniteSets, Naturals

CONSTANTS Envs,        \* JS threads, each with its environment
          Workers,     \* other threads
          Buffers,
          NoEnv,
          JS,          \* the handle an external buffer's finaliser holds
          GcMayFail    \* creating the custom GC may fail

Actors == Envs \union Workers
Handles == Actors \union {JS}

ASSUME GcAssumption ==
  /\ Envs \intersect Workers = {} /\ NoEnv \notin Envs /\ JS \notin Actors
  /\ Buffers # {} /\ GcMayFail \in BOOLEAN

\* A napi reference (Buffer or typed array from JS), a Buffer made from a Vec, a typed
\* array that owns its data or notifies an owner (DataToJs tells the two apart).
BufKinds == {"reference", "vec", "typed"}

VARIABLES
  isFirst,     \* IS_FIRST_MODULE
  firsts,      \* environments that found it set
  registered,  \* FIRST_MODULE_REGISTERED
  reg,         \* progress of each environment's registration and of its end
  access,      \* THREADS_CAN_ACCESS_ENV
  gcTsfn,      \* CUSTOM_GC_TSFN, by the environment that created it
  gc,          \* the custom GC functions created
  gcQueue,     \* what has been sent to each and not run
  destroyed,   \* CUSTOM_GC_TSFN_DESTROYED
  bkind, home, \* what each buffer is, and its environment
  holders,     \* the handles that exist: the Arc's strong count
  mem,         \* the reference, or the data
  inVm,        \* drop_in_vm
  lent,        \* external data whose JS handle has noop_finalize for the owner's finaliser
  dpc, drop,   \* the drop each thread is in
  overlapped,  \* buffers two of whose handles were dropped at one time
  unreleased,  \* why a buffer was given up by its last handle
  misuse       \* what was done to what no longer exists, or on the wrong thread

regVars == <<isFirst, firsts, registered, reg, access>>
gcVars  == <<gcTsfn, gc, gcQueue, destroyed>>
bufVars == <<bkind, home, holders, mem, inVm, lent>>
dropVars == <<dpc, drop, overlapped, unreleased, misuse>>
bufferGcVars == <<regVars, gcVars, bufVars, dropVars>>

\* The thread may run Rust code.
Active(a) == a \in Envs => reg[a] \notin {"absent", "first", "waiting"}
RunsJs(a) == a \in {e \in Envs : reg[e] \in {"exports", "open"}}

NoDrop(a) == [of |-> CHOOSE b \in Buffers : TRUE, handle |-> a, late |-> FALSE]

-----------------------------------------------------------------------------
(* napi_register_module_v1                                                 *)

\* IS_FIRST_MODULE is read here and written in the next step.
RegisterLoad(e) ==
  /\ reg[e] = "absent"
  /\ reg' = [reg EXCEPT ![e] = IF isFirst THEN "first" ELSE "waiting"]
  /\ firsts' = IF isFirst THEN firsts \union {e} ELSE firsts
  /\ UNCHANGED <<isFirst, registered, access, gcVars, bufVars, dropVars>>

RegisterFirst(e) ==
  /\ reg[e] = "first"
  /\ isFirst' = FALSE
  /\ reg' = [reg EXCEPT ![e] = "exports"]
  /\ UNCHANGED <<firsts, registered, access, gcVars, bufVars, dropVars>>

\* wait_first_thread_registered spins; then the exports, classes and callbacks of the module.
RegisterWait(e) ==
  /\ reg[e] = "waiting" /\ registered
  /\ reg' = [reg EXCEPT ![e] = "exports"]
  /\ UNCHANGED <<isFirst, firsts, registered, access, gcVars, bufVars, dropVars>>

\* create_custom_gc looks whether it is the first to come here.
CreateGcCheck(e) ==
  /\ reg[e] = "exports" /\ dpc[e] = "idle"
  /\ reg' = [reg EXCEPT ![e] = IF registered THEN "access" ELSE "creating"]
  /\ UNCHANGED <<isFirst, firsts, registered, access, gcVars, bufVars, dropVars>>

\* (Mutant) a failure returns from the registration.
CreateGcOrStop(e) ==
  /\ reg[e] = "creating"
  /\ \/ /\ gcTsfn' = e
        /\ gc' = [gc EXCEPT ![e] = "live"]
        /\ reg' = [reg EXCEPT ![e] = "access"]
     \/ /\ GcMayFail
        /\ reg' = [reg EXCEPT ![e] = "open"]
        /\ UNCHANGED <<gcTsfn, gc>>
  /\ UNCHANGED <<isFirst, firsts, registered, access, gcQueue, destroyed, bufVars, dropVars>>

\* A failure is thrown and not returned: a null function is stored, over another's if
\* there is one, and the rest of the registration takes place.
CreateGc(e) ==
  /\ reg[e] = "creating"
  /\ \/ gcTsfn' = e /\ gc' = [gc EXCEPT ![e] = "live"]
     \/ GcMayFail /\ gcTsfn' = NoEnv /\ UNCHANGED gc
  /\ reg' = [reg EXCEPT ![e] = "access"]
  /\ UNCHANGED <<isFirst, firsts, registered, access, gcQueue, destroyed, bufVars, dropVars>>

GrantAccess(e) ==
  /\ reg[e] = "access"
  /\ access' = [access EXCEPT ![e] = "yes"]
  /\ registered' = TRUE
  /\ reg' = [reg EXCEPT ![e] = "open"]
  /\ UNCHANGED <<isFirst, firsts, gcVars, bufVars, dropVars>>

-----------------------------------------------------------------------------
(* The end of an environment                                               *)

\* remove_thread_id, where the hook was added.
RemoveThreadId(e) ==
  /\ reg[e] = "open" /\ dpc[e] = "idle"
  /\ access' = [access EXCEPT ![e] = IF @ = "yes" THEN "no" ELSE @]
  /\ gc' = [gc EXCEPT ![e] = IF @ = "live" THEN "closing" ELSE @]
  /\ reg' = [reg EXCEPT ![e] = "closing"]
  /\ UNCHANGED <<isFirst, firsts, registered, gcTsfn, gcQueue, destroyed, bufVars, dropVars>>

\* custom_gc returns at once for a thread whose environment is gone.
Skips(e) == access[e] = "no"

\* custom_gc_finalize, and custom_gc with a null env for what is left in the queue.
FinalizeGc(e) ==
  /\ reg[e] = "closing" /\ dpc[e] = "idle"
  /\ reg' = [reg EXCEPT ![e] = "closed"]
  /\ destroyed' = (destroyed \/ gc[e] = "closing")
  /\ gc' = [gc EXCEPT ![e] = IF @ = "closing" THEN "freed" ELSE @]
  /\ misuse' = IF gcQueue[e] # {} /\ ~Skips(e) THEN misuse \union {"nullenv"} ELSE misuse
  /\ unreleased' = [b \in Buffers |-> IF b \in gcQueue[e] THEN "swept" ELSE unreleased[b]]
  /\ gcQueue' = [gcQueue EXCEPT ![e] = {}]
  /\ UNCHANGED <<isFirst, firsts, registered, access, gcTsfn, bufVars, dpc, drop, overlapped>>

-----------------------------------------------------------------------------
(* Buffers                                                                 *)

\* from_napi_value, From<Vec<u8>>, TypedArray::new and with_external_data.
CreateBuffer(b, a, k) ==
  /\ mem[b] = "none" /\ Active(a) /\ dpc[a] = "idle"
  /\ k = "reference" => RunsJs(a)
  /\ mem' = [mem EXCEPT ![b] = "live"]
  /\ bkind' = [bkind EXCEPT ![b] = k]
  /\ home' = [home EXCEPT ![b] = IF k = "reference" THEN a ELSE NoEnv]
  /\ holders' = [holders EXCEPT ![b] = {a}]
  /\ UNCHANGED <<regVars, gcVars, inVm, lent, dropVars>>

\* clone, the clone going to another thread.
CloneTo(b, a, c) ==
  /\ a \in holders[b] /\ c \notin holders[b] /\ a # c
  /\ Active(a) /\ Active(c) /\ dpc[a] = "idle" /\ dpc[c] = "idle"
  /\ c \in Envs => reg[c] = "open"
  /\ holders' = [holders EXCEPT ![b] = @ \union {c}]
  /\ UNCHANGED <<regVars, gcVars, bkind, home, mem, inVm, lent, dropVars>>

\* to_napi_value of a reference by its last handle deletes it on the spot.
ReferenceToJs(b, e) ==
  /\ RunsJs(e) /\ dpc[e] = "idle" /\ holders[b] = {e}
  /\ bkind[b] = "reference" /\ home[b] = e
  /\ mem' = [mem EXCEPT ![b] = "freed"]
  /\ holders' = [holders EXCEPT ![b] = {}]
  /\ UNCHANGED <<regVars, gcVars, bkind, home, inVm, lent, dropVars>>

\* to_napi_value of Rust's own data: by value the handle itself goes to JS, by
\* reference a clone of it, which has noop_finalize for the owner that external data has.
DataToJs(b, e, byValue) ==
  /\ RunsJs(e) /\ dpc[e] = "idle" /\ e \in holders[b] /\ JS \notin holders[b]
  /\ bkind[b] # "reference"
  /\ home' = [home EXCEPT ![b] = e]
  /\ inVm' = [inVm EXCEPT ![b] = @ \/ bkind[b] = "typed"]
  /\ \/ lent' = lent
     \/ bkind[b] = "typed" /\ ~byValue /\ lent' = lent \union {b}
  /\ holders' = [holders EXCEPT ![b] = (IF byValue THEN @ \ {e} ELSE @) \union {JS}]
  /\ UNCHANGED <<regVars, gcVars, bkind, mem, dropVars>>

-----------------------------------------------------------------------------
(* Drop                                                                    *)

\* (Mutant) a count of two is taken for the last.
SoleWithin(b) == Cardinality(holders[b]) \in {1, 2}

\* Arc::strong_count is read; the handle's own share goes when `drop` has returned.
Sole(b) == Cardinality(holders[b]) = 1

DropBegins(a, b, h) ==
  /\ dpc' = [dpc EXCEPT ![a] = IF Sole(b) THEN "sole" ELSE "leave"]
  /\ drop' = [drop EXCEPT ![a] = [of |-> b, handle |-> h, late |-> destroyed]]
  /\ overlapped' = IF \E c \in Actors : dpc[c] # "idle" /\ drop[c].of = b
                   THEN overlapped \union {b} ELSE overlapped

\* A thread drops its handle, or the finaliser of the external buffer that of JS.
DropRead(a, b, h) ==
  /\ Active(a) /\ dpc[a] = "idle" /\ h \in holders[b]
  /\ h = a \/ (h = JS /\ a = home[b])
  /\ \A c \in Actors : dpc[c] # "idle" => drop[c].of # b \/ drop[c].handle # h
  /\ DropBegins(a, b, h)
  /\ UNCHANGED <<regVars, gcVars, bufVars, unreleased, misuse>>

\* to_napi_value of empty data, or where external buffers are not allowed: JS gets a copy, and
\* the handle that was given, or a clone that leaves another, is dropped.
DataCopied(b, e, byValue) ==
  /\ RunsJs(e) /\ dpc[e] = "idle" /\ e \in holders[b] /\ bkind[b] # "reference"
  /\ inVm' = [inVm EXCEPT ![b] = @ \/ bkind[b] = "typed"]
  /\ IF byValue THEN DropBegins(e, b, e) ELSE UNCHANGED <<dpc, drop, overlapped>>
  /\ UNCHANGED <<regVars, gcVars, bkind, home, holders, mem, lent, unreleased, misuse>>

\* Who will not release the data of a typed array: a last handle when JS has had it, and JS's
\* finaliser when it has nobody to notify.
Withholds(b, h) == bkind[b] = "typed" /\ (IF h = JS THEN b \in lent ELSE inVm[b])

\* The data of a Vec is freed; that of a typed array by JS's finaliser, or by a last
\* handle if JS has never had it.
DropData(a) ==
  LET b == drop[a].of IN
  /\ dpc[a] = "sole" /\ bkind[b] # "reference"
  /\ dpc' = [dpc EXCEPT ![a] = "leave"]
  /\ IF Withholds(b, drop[a].handle)
     THEN unreleased' = [unreleased EXCEPT ![b] = "vm"] /\ UNCHANGED <<mem, misuse>>
     ELSE /\ mem' = [mem EXCEPT ![b] = "freed"]
          /\ misuse' = IF mem[b] = "live" THEN misuse ELSE misuse \union {"double"}
          /\ UNCHANGED unreleased
  /\ UNCHANGED <<regVars, gcVars, bkind, home, holders, inVm, lent, drop, overlapped>>

\* The environment's custom GC is the only one there has been.
Collects(e) == {d \in Envs : gc[d] # "none"} = {e}

\* What is wrong with thread a touching the reference of b.
Wrong(a, b) ==
  (IF a \in Workers THEN {"foreign"} ELSE {})
    \union (IF mem[b] = "freed" THEN {"double"} ELSE {})
    \union (IF reg[home[b]] = "closed" /\ Collects(home[b]) THEN {"envgone"} ELSE {})

\* The map has no entry for the thread; one that says FALSE counts as an entry.
Delegates(a) == access[a] = "absent"

GivesUp == destroyed

\* unref and delete on this thread, or a call of the custom GC.
DropShared(a) ==
  LET b == drop[a].of IN
  /\ dpc[a] = "sole" /\ bkind[b] = "reference"
  /\ IF GivesUp
     THEN /\ unreleased' = [unreleased EXCEPT ![b] = "destroyed"]
          /\ dpc' = [dpc EXCEPT ![a] = "leave"] /\ UNCHANGED <<mem, misuse>>
     ELSE IF Delegates(a)
     THEN dpc' = [dpc EXCEPT ![a] = "send"] /\ UNCHANGED <<mem, misuse, unreleased>>
     ELSE /\ misuse' = misuse \union Wrong(a, b)
          /\ mem' = [mem EXCEPT ![b] = "freed"]
          /\ dpc' = [dpc EXCEPT ![a] = "leave"] /\ UNCHANGED unreleased
  /\ UNCHANGED <<regVars, gcVars, bkind, home, holders, inVm, lent, drop, overlapped>>

\* The call of the custom GC.  The assertion on the status fails without one, and when a
\* closing one has answered a call already, for whatever buffer.
DropSend(a) ==
  LET b == drop[a].of
      GivenUp(why) == unreleased' = [unreleased EXCEPT ![b] = why]
  IN
  /\ dpc[a] = "send"
  /\ dpc' = [dpc EXCEPT ![a] = "leave"]
  /\ \/ gcTsfn = NoEnv /\ GivenUp("panic") /\ UNCHANGED <<gcQueue, misuse>>
     \/ /\ gcTsfn # NoEnv /\ gc[gcTsfn] = "live"
        /\ gcQueue' = [gcQueue EXCEPT ![gcTsfn] = @ \union {b}]
        /\ UNCHANGED <<misuse, unreleased>>
     \/ /\ gcTsfn # NoEnv /\ gc[gcTsfn] = "closing"
        /\ GivenUp("closing") \/ GivenUp("panic")
        /\ UNCHANGED <<gcQueue, misuse>>
     \/ /\ gcTsfn # NoEnv /\ gc[gcTsfn] = "freed"
        /\ misuse' = misuse \union {IF drop[a].late THEN "lategc" ELSE "racedgc"}
        /\ GivenUp("closing") /\ UNCHANGED gcQueue
  /\ UNCHANGED <<regVars, gcTsfn, gc, destroyed, bufVars, drop, overlapped>>

\* The Arc's share of the handle goes.
DropLeave(a) ==
  /\ dpc[a] = "leave"
  /\ dpc' = [dpc EXCEPT ![a] = "idle"]
  /\ holders' = [holders EXCEPT ![drop[a].of] = @ \ {drop[a].handle}]
  /\ drop' = [drop EXCEPT ![a] = NoDrop(a)]
  /\ lent' = IF drop[a].handle = JS THEN lent \ {drop[a].of} ELSE lent
  /\ UNCHANGED <<regVars, gcVars, bkind, home, mem, inVm, overlapped, unreleased, misuse>>

\* (Mutant) the callback unrefs the reference and leaves it.
CustomGcUnref(e, b) ==
  /\ reg[e] = "open" /\ dpc[e] = "idle" /\ gc[e] = "live" /\ b \in gcQueue[e]
  /\ gcQueue' = [gcQueue EXCEPT ![e] = @ \ {b}]
  /\ misuse' = IF Skips(e) THEN misuse ELSE misuse \union Wrong(e, b)
  /\ UNCHANGED <<regVars, gcTsfn, gc, destroyed, bufVars, dpc, drop, overlapped, unreleased>>

\* custom_gc on the event loop of the environment that created it, whichever
\* environment the reference belongs to.
CustomGc(e, b) ==
  /\ reg[e] = "open" /\ dpc[e] = "idle" /\ gc[e] = "live" /\ b \in gcQueue[e]
  /\ gcQueue' = [gcQueue EXCEPT ![e] = @ \ {b}]
  /\ IF Skips(e)
     THEN UNCHANGED <<mem, misuse>>
     ELSE /\ misuse' = misuse \union Wrong(e, b)
          /\ mem' = [mem EXCEPT ![b] = "freed"]
  /\ UNCHANGED <<regVars, gcTsfn, gc, destroyed, bkind, home, holders, inVm, lent,
                 dpc, drop, overlapped, unreleased>>

-----------------------------------------------------------------------------
GcInit ==
  /\ isFirst = TRUE /\ firsts = {} /\ registered = FALSE
  /\ reg = [e \in Envs |-> "absent"] /\ access = [a \in Actors |-> "absent"]
  /\ gcTsfn = NoEnv /\ gc = [e \in Envs |-> "none"]
  /\ gcQueue = [e \in Envs |-> {}] /\ destroyed = FALSE
  /\ bkind = [b \in Buffers |-> "vec"] /\ home = [b \in Buffers |-> NoEnv]
  /\ holders = [b \in Buffers |-> {}] /\ mem = [b \in Buffers |-> "none"]
  /\ inVm = [b \in Buffers |-> FALSE] /\ lent = {}
  /\ dpc = [a \in Actors |-> "idle"]
  /\ drop = [a \in Actors |-> NoDrop(a)]
  /\ overlapped = {} /\ unreleased = [b \in Buffers |-> "no"] /\ misuse = {}

RegisterStep(e) ==
  RegisterLoad(e) \/ RegisterFirst(e) \/ RegisterWait(e)
    \/ CreateGcCheck(e) \/ CreateGc(e) \/ GrantAccess(e)

DropBuffer(a) == DropData(a) \/ DropShared(a) \/ DropSend(a) \/ DropLeave(a)

GcNext ==
  \/ \E e \in Envs : RegisterStep(e) \/ RemoveThreadId(e) \/ FinalizeGc(e)
  \/ \E b \in Buffers :
       \/ \E a \in Actors : \/ \E k \in BufKinds : CreateBuffer(b, a, k)
                            \/ \E c \in Actors : CloneTo(b, a, c)
                            \/ \E h \in Handles : DropRead(a, b, h)
       \/ \E e \in Envs : \/ ReferenceToJs(b, e) \/ CustomGc(e, b)
                          \/ \E v \in BOOLEAN : DataToJs(b, e, v) \/ DataCopied(b, e, v)
  \/ \E a \in Actors : DropBuffer(a)

GcSpec == GcInit /\ [][GcNext]_bufferGcVars

\* A registration that has begun is carried through, a drop that has begun too, and an
\* event loop runs its callbacks while its environment is open.
GcFairness ==
  /\ \A e \in Envs : SF_bufferGcVars(reg[e] # "absent" /\ RegisterStep(e))
  /\ \A a \in Actors : WF_bufferGcVars(DropBuffer(a))
  /\ \A e \in Envs, b \in Buffers : SF_bufferGcVars(CustomGc(e, b))

-----------------------------------------------------------------------------
(* Properties                                                              *)

GcTypeOK ==
  /\ isFirst \in BOOLEAN /\ firsts \subseteq Envs /\ registered \in BOOLEAN /\ destroyed \in BOOLEAN
  /\ reg \in [Envs -> {"absent", "first", "waiting", "exports", "creating", "access",
                       "open", "closing", "closed"}]
  /\ access \in [Actors -> {"absent", "yes", "no"}]
  /\ gcTsfn \in Envs \union {NoEnv}
  /\ gc \in [Envs -> {"none", "live", "closing", "freed"}]
  /\ gcQueue \in [Envs -> SUBSET Buffers]
  /\ bkind \in [Buffers -> BufKinds] /\ home \in [Buffers -> Envs \union {NoEnv}]
  /\ holders \in [Buffers -> SUBSET Handles]
  /\ mem \in [Buffers -> {"none", "live", "freed"}] /\ inVm \in [Buffers -> BOOLEAN]
  /\ lent \subseteq Buffers
  /\ dpc \in [Actors -> {"idle", "sole", "send", "leave"}]
  /\ drop \in [Actors -> [of : Buffers, handle : Handles, late : BOOLEAN]]
  /\ overlapped \subseteq Buffers
  /\ unreleased \in [Buffers -> {"no", "swept", "destroyed", "closing", "panic", "vm"}]
  /\ misuse \subseteq {"foreign", "double", "envgone", "nullenv", "lategc", "racedgc"}

\* The reference or the data lives as long as any handle, other than the one whose drop
\* has just released it.
MemoryOutlivesHandles ==
  \A b \in Buffers : mem[b] = "freed" =>
    \A h \in holders[b] : \E a \in Actors : dpc[a] = "leave" /\ drop[a].of = b /\ drop[a].handle = h

\* A reference is deleted once, and never by a thread that has no environment: such a
\* thread hands it to the custom GC ("recycle the Reference if it is not dropped on the
\* main thread", module_register.rs:644).
ForeignThreadsDelegate == misuse \intersect {"foreign", "double"} = {}

\* The custom GC is not called once its finaliser has said so, by a drop that began after
\* that; one that looked before may still call what is gone.
CollectorGoneIsSeen == "lategc" \notin misuse

\* Where the only custom GC belongs to the reference's own environment, the reference is not
\* touched after the environment has gone, nor with the null env of the last callbacks:
\* the thread's entry is withdrawn before the function is closed.
EnvOutlivesItsReferences == misuse \intersect {"envgone", "nullenv"} = {}

\* Only an environment that found IS_FIRST_MODULE set creates a custom GC: a second one,
\* which replaces the first, takes two that looked before either had cleared it.
OneCollector == {e \in Envs : gc[e] # "none"} \subseteq firsts

\* With every handle gone, what they shared is released or on its way to the custom GC;
\* the exceptions are given by name: two drops at one time that each saw the other's
\* handle, an environment on its way out, the failed assertion, and a typed array that
\* JS let go of first, was given a copy of, or has by a reference to external data.
NothingForgotten ==
  \A b \in Buffers : mem[b] = "live" /\ holders[b] = {} =>
    \/ \E e \in Envs : b \in gcQueue[e]
    \/ b \in overlapped
    \/ unreleased[b] # "no"

\* Registering ends for every environment: those that spin are let go by the first.
RegistrationEnds == \A e \in Envs : reg[e] \notin {"absent"} ~> reg[e] \in {"open", "closing", "closed"}

\* What a thread without an environment dropped is deleted, while the custom GC's
\* environment is open.
DelegatedGoes ==
  \A e \in Envs, b \in Buffers :
    b \in gcQueue[e] ~> (mem[b] = "freed" \/ reg[e] # "open")
=============================================================================
