----------------------------- MODULE AS3Values -----------------------------
(***************************************************************************)
(* ActionScript values held from Lua, Lua functions held from Flash, and   *)
(* what lua_close() does to both.                                          *)
(*                                                                         *)
(* A Lua userdata carries one AS3 value and a reference to it              *)
(* (push_as3_lua_userdata); its __gc gives the reference back              *)
(* (as3_release).  A Lua function given to AS3 becomes a new AS3 function  *)
(* over a heap record that outlives the lua_State (setup_callback); the    *)
(* __gc of a userdata in the registry expires the record                   *)
(* (release_callback).  A third kind of userdata, made by the first        *)
(* as3.onclose(), runs the registered handlers when it is finalized.       *)
(*                                                                         *)
(* udata[i] is the i-th userdata made in the lua_State.  lua_close()       *)
(* finalizes those that exist when it begins, from the newest to the       *)
(* oldest, and no other.                                                   *)
(***************************************************************************)
EXTENDS Integers, Sequences, FiniteSets

CONSTANTS
  Obj,            \* AS3 objects
  Fn,             \* AS3 functions that setup_callback() makes
  LuaFn,          \* Lua functions scripts give to Flash
  Stage,          \* the object AS3_Stage() answers
  Undefined,      \* AS3_Undefined()
  None,           \* no Lua function
  MaxUdata,       \* bound: userdata ever made
  MaxHandlers,    \* bound: handlers registered that are told apart
  MaxRefs         \* bound: references to one value

Val == Obj \cup Fn

ASSUME ConstantsAssumption ==
  /\ Obj \cap Fn = {} /\ Undefined \notin Val /\ None \notin LuaFn
  /\ Stage \in Obj
  /\ {MaxUdata, MaxHandlers, MaxRefs} \subseteq Nat

VARIABLES
  phase,      \* "open", "closing" while lua_close() runs, "closed"
  udata,      \* the userdata with a __gc, in the order they were made
  refs,       \* references to each AS3 value that C code counts
  of,         \* the Lua function an AS3 function calls; None: not made yet
  live,       \* the AS3 functions whose record still points to the state
  listeners,  \* the AS3 functions Flash calls on events
  removed,    \* Lua functions last given to removeEventListener()
  handlers,   \* as3.onclose(): the userdata each handler uses
  height,     \* how many userdata there were when lua_close() began
  handler,    \* the handler that runs, 0 for none
  ran,        \* the handlers that ran
  more,       \* the handlers that run registered some beyond MaxHandlers
  cut,        \* the report of an error raised another: the loop was left
  found       \* what a handler or Flash found in the last step, and whose

script  == <<udata, refs, of, live, listeners, removed, handlers>>
closing == <<phase, height, handler, ran, more, cut>>
vars    == <<script, closing, found>>

Ids == 1..Len(udata)

Nothing == [what |-> "nothing", id |-> 0]

Init ==
  /\ phase     = "open"
  /\ udata     = <<>>
  /\ refs      = [v \in Val |-> 0]
  /\ of        = [f \in Fn |-> None]
  /\ live      = {}
  /\ listeners = {}
  /\ removed   = {}
  /\ handlers  = <<>>
  /\ height    = 0
  /\ handler   = 0
  /\ ran       = <<>>
  /\ more      = FALSE
  /\ cut       = FALSE
  /\ found     = Nothing

----------------------------------------------------------------------------
(* References.                                                             *)

Made(f)   == of[f] # None
Fresh     == {f \in Fn : ~Made(f)}
InLua(i)  == i \in Ids /\ udata[i].kind = "as3" /\ ~udata[i].done
Holders(v) == {i \in Ids : InLua(i) /\ udata[i].val = v}

Acquire(v, n) == refs' = [refs EXCEPT ![v] = @ + n]
MayAcquire(v) == refs[v] < MaxRefs

NewUdata(kind, v) ==
  udata' = Append(udata, [kind |-> kind, val |-> v, done |-> FALSE])
RoomFor(n) == Len(udata) + n <= MaxUdata

(* Scripts run in calls from Flash, and in handlers while the state is     *)
(* being closed.                                                           *)
ScriptRuns == phase = "open" \/ handler > 0
Goes == found' = Nothing /\ UNCHANGED closing

(* as3.new() and as3.new2(): the reference AS3_New() returns is kept, and  *)
(* push_as3_lua_userdata() takes another.                                  *)
as3_new(o) ==
  /\ ScriptRuns /\ RoomFor(1)
  /\ o # Stage /\ refs[o] = 0 /\ Holders(o) = {}
  /\ Acquire(o, 2)
  /\ NewUdata("as3", o)
  /\ Goes
  /\ UNCHANGED <<of, live, listeners, removed, handlers>>

(* as3.toas3() of a string, a number or a userdata of another kind: a new  *)
(* value, kept in the same way.                                            *)
as3_toas3_value(o) == as3_new(o)

(* as3.stage(): so is, each time, what AS3_Stage() returns.                *)
as3_stage ==
  /\ ScriptRuns /\ RoomFor(1) /\ MayAcquire(Stage)
  /\ Acquire(Stage, 2)
  /\ NewUdata("as3", Stage)
  /\ Goes
  /\ UNCHANGED <<of, live, listeners, removed, handlers>>

(* push_as3_lua_userdata() with a value whose own reference is released    *)
(* by the caller: as3.get, newclass, call, invoke and namespacecall, the   *)
(* arguments of a callback, and setGlobal.                                 *)
(* Mutant: the caller keeps the reference AS3 returned. *)
FetchUnreleased(v) ==
  /\ ScriptRuns /\ RoomFor(1) /\ MayAcquire(v)
  /\ v \in Fn => Made(v)
  /\ Acquire(v, 2)
  /\ NewUdata("as3", v)
  /\ Goes
  /\ UNCHANGED <<of, live, listeners, removed, handlers>>
(* Mutant: the userdata takes no reference of its own. *)
FetchUncounted(v) ==
  /\ ScriptRuns /\ RoomFor(1) /\ MayAcquire(v)
  /\ v \in Fn => Made(v)
  /\ NewUdata("as3", v)
  /\ Goes
  /\ UNCHANGED <<refs, of, live, listeners, removed, handlers>>
Fetch(v) ==
  /\ ScriptRuns /\ RoomFor(1) /\ MayAcquire(v)
  /\ v \in Fn => Made(v)
  /\ Acquire(v, 1)
  /\ NewUdata("as3", v)
  /\ Goes
  /\ UNCHANGED <<of, live, listeners, removed, handlers>>

(* as3.set() and as3.assign() of an AS3 value: the reference that          *)
(* get_as3_value_from_lua_stack() takes is kept.                           *)
as3_set(i) ==
  /\ ScriptRuns /\ InLua(i)
  /\ udata[i].val # Undefined /\ MayAcquire(udata[i].val)
  /\ Acquire(udata[i].val, 1)
  /\ Goes
  /\ UNCHANGED <<udata, of, live, listeners, removed, handlers>>

(* AS3 code that Lua called writes or looks up a global, the metamethod of *)
(* _G raises, and the error jumps over as3.call(), invoke, namespacecall,  *)
(* new or new2: the array of arguments, the class, the namespace and the   *)
(* method they hold are not released.                                      *)
JumpedOver(o) ==
  /\ ScriptRuns /\ MayAcquire(o)
  /\ Acquire(o, 1)
  /\ Goes
  /\ UNCHANGED <<udata, of, live, listeners, removed, handlers>>

(* setup_callback(): a Lua function becomes an AS3 function, a new one     *)
(* each time, with `kept` references that no one gives back.               *)
SetupCallback(g, f, kept) ==
  /\ ScriptRuns /\ f \in Fresh
  /\ of' = [of EXCEPT ![f] = g]
  /\ live' = live \cup {f}
  /\ Acquire(f, kept)

(* Flash is given a function to call on events.                            *)
Listen(g, f, kept) ==
  /\ RoomFor(1)
  /\ SetupCallback(g, f, kept)
  /\ NewUdata("callback", f)
  /\ listeners' = listeners \cup {f}
  /\ removed' = removed \ {g}
  /\ Goes
  /\ UNCHANGED handlers

(* as3.call(o, "addEventListener", type, g): the reference is released     *)
(* once the function is in the array of arguments.                         *)
AddListener(g, f) == Listen(g, f, 0)

(* as3.set(o, "onEvent", g): it is kept.                                   *)
as3_set_function(g, f) == Listen(g, f, 1)

(* as3.call(o, "removeEventListener", type, g). *)
RemoveListener(g, f) ==
  /\ RoomFor(1)
  /\ SetupCallback(g, f, 0)
  /\ NewUdata("callback", f)
  /\ listeners' = listeners \ {f}
  /\ removed' = removed \cup {g}
  /\ Goes
  /\ UNCHANGED handlers

(* as3.toas3(g): the function stays in Lua, with one reference too many.   *)
as3_toas3(g, f) ==
  /\ RoomFor(2)
  /\ SetupCallback(g, f, 2)
  /\ udata' = udata \o << [kind |-> "callback", val |-> f, done |-> FALSE],
                          [kind |-> "as3", val |-> f, done |-> FALSE] >>
  /\ Goes
  /\ UNCHANGED <<listeners, removed, handlers>>

----------------------------------------------------------------------------
(* Giving references back.                                                 *)

(* as3_release() of userdata i, which is done for good when it is its      *)
(* finalizer that runs.                                                    *)
Release(i, done) ==
  /\ IF udata[i].val # Undefined THEN Acquire(udata[i].val, -1)
                                 ELSE UNCHANGED refs
  /\ udata' = [udata EXCEPT ![i].val = Undefined, ![i].done = done]

as3_release(i) ==
  /\ ScriptRuns /\ InLua(i)
  /\ Release(i, FALSE)
  /\ Goes
  /\ UNCHANGED <<of, live, listeners, removed, handlers>>

(* A collection finds a userdata that no handler uses, and that lua_close()*)
(* has not set apart.                                                      *)
Collect(i) ==
  /\ ScriptRuns /\ InLua(i) /\ i > height
  /\ \A h \in 1..Len(handlers) : handlers[h] # i
  /\ Release(i, TRUE)
  /\ Goes
  /\ UNCHANGED <<of, live, listeners, removed, handlers>>

(* as3.onclose(): the first call makes the userdata that runs them all.    *)
HasRunner == \E i \in Ids : udata[i].kind = "onclose"
Runner    == CHOOSE i \in Ids : udata[i].kind = "onclose"

onclose(i) ==
  /\ ScriptRuns /\ InLua(i) /\ Len(handlers) < MaxHandlers
  /\ handlers' = Append(handlers, i)
  /\ IF HasRunner THEN UNCHANGED udata
                  ELSE RoomFor(1) /\ NewUdata("onclose", None)
  /\ Goes
  /\ UNCHANGED <<refs, of, live, listeners, removed>>

----------------------------------------------------------------------------
(* lua_close().                                                            *)

luaClose ==
  /\ phase = "open"
  /\ phase' = "closing"
  /\ height' = Len(udata)
  /\ found' = Nothing
  /\ UNCHANGED <<script, handler, ran, more, cut>>

Pending == {i \in 1..height : ~udata[i].done}

(* Mutant: from the oldest to the newest. *)
OldestFirst == CHOOSE i \in Pending : \A j \in Pending : i <= j
NextToFinalize == CHOOSE i \in Pending : \A j \in Pending : j <= i

(* release_callback(). *)
(* Mutant: the record is not told that the state expires. *)
ForgetToExpire(f) == Acquire(f, -1) /\ UNCHANGED live
release_callback(f) == Acquire(f, -1) /\ live' = live \ {f}

RunHandler(h) == handler' = h /\ ran' = Append(ran, h)

Finalize ==
  /\ phase = "closing" /\ handler = 0 /\ Pending # {}
  /\ LET i == NextToFinalize
     IN CASE udata[i].kind = "as3" ->
               Release(i, TRUE) /\ UNCHANGED <<live, handler, ran>>
          [] udata[i].kind = "callback" ->
               /\ release_callback(udata[i].val)
               /\ udata' = [udata EXCEPT ![i].done = TRUE]
               /\ UNCHANGED <<handler, ran>>
          [] udata[i].kind = "onclose" ->
               /\ RunHandler(1)
               /\ udata' = [udata EXCEPT ![i].done = TRUE]
               /\ UNCHANGED <<refs, live>>
  /\ found' = Nothing
  /\ UNCHANGED <<phase, of, listeners, removed, handlers, height, more, cut>>

(* A handler uses its userdata. *)
HandlerUses ==
  /\ handler > 0
  /\ LET i == handlers[handler]
     IN found' = [what |-> IF udata[i].done THEN "finalized" ELSE "intact",
                  id |-> i]
  /\ UNCHANGED <<script, closing>>

(* A handler registers another when MaxHandlers are: ipairs() will come to *)
(* it, and the last handler stands for all of those.                       *)
Further ==
  /\ handler > 0 /\ Len(handlers) = MaxHandlers /\ ~more
  /\ more' = TRUE
  /\ found' = Nothing
  /\ UNCHANGED <<script, phase, height, handler, ran, cut>>

(* A handler raised an error that as3.trace() cannot write: the error of   *)
(* as3.trace() leaves the loop and the finalizer.  lua_close() catches it  *)
(* and goes on with the next userdata.                                     *)
ReportRaises ==
  /\ handler > 0
  /\ handler' = 0 /\ more' = FALSE /\ cut' = TRUE
  /\ found' = Nothing
  /\ UNCHANGED <<script, phase, height, ran>>

(* A handler returns or raises an error, which pcall() catches: the next.  *)
EndsHandler ==
  /\ handler > 0
  /\ found' = Nothing
  /\ UNCHANGED <<script, phase, height, cut>>
(* Mutant: one index too many. *)
HandlerEndsPast ==
  /\ EndsHandler
  /\ \/ handler <= Len(handlers) /\ RunHandler(handler + 1) /\ UNCHANGED more
     \/ /\ handler > Len(handlers)
        /\ handler' = 0 /\ more' = FALSE /\ UNCHANGED ran
(* Mutant: an error ends the loop. *)
HandlerEndsAll ==
  /\ EndsHandler
  /\ \/ handler < Len(handlers) /\ RunHandler(handler + 1) /\ UNCHANGED more
     \/ handler' = 0 /\ more' = FALSE /\ UNCHANGED ran
(* Mutant: the loop starts again at the end. *)
HandlerEndsNever ==
  /\ EndsHandler
  /\ handler' = 1 + (handler % Len(handlers)) /\ UNCHANGED <<more, ran>>
HandlerEnds ==
  /\ EndsHandler
  /\ \/ handler < Len(handlers) /\ RunHandler(handler + 1) /\ UNCHANGED more
     \/ handler = Len(handlers) /\ more /\ more' = FALSE /\ UNCHANGED <<handler, ran>>
     \/ handler = Len(handlers) /\ ~more /\ handler' = 0 /\ UNCHANGED <<more, ran>>

(* close_state(): the memory goes; userdata made since lua_close() began   *)
(* are not finalized.                                                      *)
CloseState ==
  /\ phase = "closing" /\ handler = 0 /\ Pending = {}
  /\ phase' = "closed"
  /\ found' = Nothing
  /\ UNCHANGED <<script, height, handler, ran, more, cut>>

----------------------------------------------------------------------------
(* Flash delivers an event, also during a call that a handler makes.       *)
(* as3_lua_callback() answers undefined once the record has expired.       *)

CallbackOf(f) ==
  CHOOSE i \in Ids : udata[i].kind = "callback" /\ udata[i].val = f

FlashCalls(f) ==
  /\ f \in listeners
  /\ ScriptRuns \/ phase = "closed"
  /\ found' = [what |-> IF f \notin live THEN "expired"
                        ELSE IF phase = "closed" THEN "lost" ELSE "called",
               id |-> CallbackOf(f)]
  /\ UNCHANGED <<script, closing>>

Script ==
  \/ \E o \in Obj : as3_new(o) \/ as3_toas3_value(o) \/ JumpedOver(o)
  \/ as3_stage
  \/ \E v \in Val : Fetch(v)
  \/ \E i \in Ids : as3_set(i) \/ as3_release(i) \/ onclose(i)
  \/ \E g \in LuaFn, f \in Fn :
       \/ AddListener(g, f) \/ RemoveListener(g, f)
       \/ as3_set_function(g, f) \/ as3_toas3(g, f)

Closing == Finalize \/ HandlerEnds \/ CloseState

Next ==
  \/ Script
  \/ \E i \in Ids : Collect(i)
  \/ luaClose \/ Closing \/ HandlerUses \/ Further \/ ReportRaises
  \/ \E f \in Fn : FlashCalls(f)

Spec == Init /\ [][Next]_vars

(* lua_close() runs on without waiting for anyone, if each handler ends.   *)
FairSpec == Spec /\ WF_vars(Closing)

----------------------------------------------------------------------------
(* Properties.                                                             *)

Udata == [kind : {"as3", "callback", "onclose"},
          val : Val \cup {Undefined, None}, done : BOOLEAN]

(* The variables stay in their types.                                      *)
TypeOK ==
  /\ phase \in {"open", "closing", "closed"}
  /\ udata \in Seq(Udata)
  /\ refs \in [Val -> Int]
  /\ of \in [Fn -> LuaFn \cup {None}]
  /\ live \subseteq Fn /\ listeners \subseteq Fn /\ removed \subseteq LuaFn
  /\ handlers \in Seq(Ids)
  /\ height \in 0..Len(udata)
  /\ handler \in 0..Len(handlers)
  /\ ran \in Seq(1..Len(handlers))
  /\ more \in BOOLEAN /\ cut \in BOOLEAN
  /\ found.what \in {"nothing", "finalized", "intact",
                     "expired", "lost", "called"}
  /\ found.id \in 0..Len(udata)

Surplus(v) == refs[v] - Cardinality(Holders(v))

(* An AS3 value has at least one counted reference for each userdata that  *)
(* carries it, so that AS3_Release() never takes it from under Lua.  Only  *)
(* AS3 functions made of Lua functions lose more, when lua_close() runs    *)
(* release_callback(), which owns no reference.                            *)
HeldAlive ==
  /\ \A o \in Obj : Surplus(o) >= 0
  /\ phase = "open" => \A f \in Fn : Surplus(f) >= 0

(* A reference that nothing gives back is left by as3.new(), new2() and    *)
(* stage(), as3.toas3(), as3.set() and assign(), or by a function of the   *)
(* bridge that an error of AS3 code jumps over.  Every other path, in a    *)
(* script, a callback or lua_close(), releases what it acquired: no value  *)
(* gets more references than userdata carry it.                            *)
OnlyTheseLeak ==
  [][\A v \in Val : Surplus(v)' > Surplus(v) =>
       \/ as3_new(v) \/ as3_toas3_value(v)
       \/ v = Stage /\ as3_stage
       \/ \E i \in Ids : udata[i].val = v /\ as3_set(i)
       \/ \E g \in LuaFn : as3_set_function(g, v) \/ as3_toas3(g, v)
       \/ JumpedOver(v)]_vars

(* as3_lua_interface.c: Flash will collect an object that is released, the *)
(* last userdata that carries it being this one.                           *)
NoLeak ==
  [][\A i \in Ids, o \in Obj \ {Stage} :
       as3_release(i) /\ Holders(o) = {i} => refs[o]' = 0]_vars

(* A handler finds its userdata intact if it is older than the first call  *)
(* of as3.onclose(): finalizers run from the newest to the oldest.         *)
OlderObjectsIntact ==
  found.what = "finalized" => found.id > Runner

(* Handlers run once each in the order they were registered, whatever they *)
(* raise and register meanwhile, and all have when the state is closed,    *)
(* unless the report of an error raised another.                           *)
HandlersRunInOrder ==
  /\ \A n \in 1..Len(ran) : ran[n] = n
  /\ phase = "closed" => Len(ran) = Len(handlers) \/ cut

(* Flash reaches a closed lua_State only through a function that a handler *)
(* made while lua_close() ran; the others have expired.                    *)
LostOnlyIfMadeClosing == found.what = "lost" => found.id > height

(* LuaToAS3Extended: a listener removed by a handler is called no more.    *)
RemovedIsRemoved == \A f \in listeners : of[f] \notin removed

(* A state that begins to close is closed in the end, unless its handlers  *)
(* go on registering others for ever, whatever they make, release and      *)
(* raise meanwhile.                                                        *)
CloseEnds == []<><<Further>>_vars \/ (phase = "closing" ~> phase = "closed")
=============================================================================
