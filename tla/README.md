# Lua Alchemy in TLA+

Lua Alchemy compiles Lua 5.1 with Adobe Alchemy, so that it runs inside the
Flash player, and puts a two-way bridge between Lua and ActionScript (AS3).
This directory holds a TLA+ model of the bridge, of the Lua code that comes with
it and of the algorithms of the Lua inside, TLC configurations that check it on
small instances, and proofs that TLAPS checks for all values of the constants.
Paths below are relative to the repository; `W/` stands for
`alchemy/wrapper/`, `L/` for `alchemy/lua-lib/assets/lua_alchemy/`, `V/` for
`alchemy/lib/lua51/src/`.

## 1. The system

| Part | State it keeps | Operations |
|---|---|---|
| class `LuaAlchemy` (`LuaAlchemy.as`) | `luaState`, the `lua_State` in use or 0; `vfsRoot` | `init`, `close`, and the calls, which initialize on demand |
| public C functions (`W/lua_wrapper.gg`) | nothing of their own: the Lua stack | `luaInitializeState`, `luaClose`, `doFile`, `doFileAsync`, `luaDoString`, `luaDoStringAsync`, `callGlobal`, `setGlobal`, `setGlobalLuaValue` |
| the Lua side of a call (`W/bridge_lua_c.c`, `W/lstack.h`) | the flag `as3.is_async`, the Lua stack | `do_pcall_with_traceback`, `set_async_state`, `get_async_state`, `panic_handler`; the `LCHECK` assertions |
| functions of the `as3` table (`W/as3_lua_interface.c`) | userdata | `new`, `newclass`, `get`, `set`, `assign`, `call`, `invoke`, `namespacecall`, `release`, `toas3`, `tolua`, `flyield`, … |
| callbacks (`W/callbacks_as3_lua.c`) | a heap record for each AS3 function made of a Lua function, a table in the registry | `setup_callback`, `as3_lua_callback`, `release_callback` |
| conversions (`W/bridge_as3_lua.c`, `W/bridge_as3_c.c`) | none | `push_as3_to_lua_stack`, `get_as3_value_from_lua_stack`, … |
| Lua code (`L/`) | the `as3` table and its proxies, the list of `as3.onclose` handlers | sugar, `toobject`, `onclose`, `print`, `dofile`, `filegetcontents`, `strict` |
| Lua's heap (`V/lgc.c`, `V/lfunc.c`, `V/ltable.c`) | colours, lists and phase of the collector; array and nodes of a table | collector steps, barriers, `luaH_*` |
| Lua's control (`V/ldo.c`, `V/lbaselib.c`, `V/loadlib.c`) | C stack, `CallInfo`s, status of threads; `package.loaded` | calls, errors, `pcall`, coroutines, `require` |
| Lua's compiler and VM (`V/lparser.c`, `V/lcode.c`, `V/lvm.c`, `V/ldebug.c`) | code, jump lists, registers, upvalues | statements, expressions, instructions |
| Lua's libraries (`V/lstrlib.c`, `V/ltablib.c`) | captures; a table being sorted | patterns, `table.sort` |

AS3 calls Lua through the public functions, and through callbacks that Flash
(say, an event dispatcher) calls like any AS3 function; Lua calls AS3 through
the `as3` table; the two nest to any depth on one Lua stack. There is one
thread of control, but two things interleave on it. An *asynchronous* call
(`do*Async`) runs on a C thread of its own which `as3.flyield()` suspends:
Flash goes on, may call Lua again on the *same* Lua stack, and a timer tick
resumes the thread. And `lua_close()` runs finalizers, one of which
(`as3.onclose`) runs scripts, which call AS3, which may call anything.

What is hard here, and hard to test:

* the discipline of one Lua stack shared by calls that nest, fail, jump and
  are suspended: absolute and relative indices, the height each C function
  finds when AS3 code it called comes back;
* one `is_async` flag for all these calls, which decides whether a thread may
  be suspended;
* an error with no pcall between it and AS3;
* AS3 references counted by hand on every path; records of callbacks that
  outlive the `lua_State` they point to; the order in which `lua_close()`
  finalizes, while handlers make more to finalize;
* `close()` and `init()` called from code that Lua called, from the handlers
  of a close in progress, or with a call suspended; initialization on demand
  with other settings than the user's;
* proxies that keep what they read, in a mode that may change under them; a
  load whose wait is over before its event came;
* in Lua, a collector that works between any two writes of the program, with
  weak tables and finalizers; colliding and dead keys under a traversal;
  errors, yields and limits of several threads over one C stack; modules that
  require one another; backtracking and sorting with what the user supplies;
  jumps that the compiler patches later.

Why the Lua inside is part of this: it is compiled into the library, the
bridge relies on it at every point (finalizers run `as3.onclose`, `pcall` is
what a public function stands on, coroutines are what `flyield()` is not), and
its algorithms are the ones no test of the repository looks at.

What makes each part correct: the class holds exactly one living interpreter,
with the settings asked for, and frees none that is in use; a call answers the
truth about itself and leaves the stack and the mode of the calls below it as
they were; a value is alive as long as Lua can reach it and no longer; a
callback reaches its function or says that its state is gone; handlers run
once, in order, before the state goes; a value converted to AS3 and back is
the value it was; sugar reads what AS3 holds. Of Lua: nothing the program can
reach is freed, a table is a map, an error goes to the innermost protected
call and leaves no trace, a chunk of a module runs once, and compiled code
does what its source says.

`PROJECT.json` lists every hazard at its line, with the properties that watch
it.

## 2. Modules

| Module | What it is |
|---|---|
| `LuaCalls` | entries into one `lua_State`, nested, failing and suspended; the Lua stack, `as3.is_async`, answers |
| `MCLuaCalls` | the instance TLC checks: one symmetry set |
| `LuaCallsProofs` | inductive invariant of `LuaCalls` and its theorems |
| `AS3Values` | AS3 values and callbacks, their references, `lua_close()` and its handlers |
| `AS3ValuesProofs` | inductive invariant of `AS3Values` and its theorems |
| `LuaAlchemyLife` | one object of class `LuaAlchemy`: its `lua_State`s from `init()` to `close()`, and who is still in them |
| `OneInterpreter` | what that object promises: one interpreter at a time |
| `LuaAlchemyLifeProofs` | its inductive invariant, theorems, and the refinement |
| `Conversion` | what a value becomes in Lua and in AS3; `as3.tolua`, `as3.toas3`, values that Flash passes and gets back |
| `ConversionProofs` | its inductive invariant and theorems |
| `LuaGC` | the incremental collector of Lua, while scripts change the heap |
| `LuaGCProofs` | its inductive invariant and theorems |
| `LuaParts` | the parts below that do not recurse over data (`Sugar` to `LuaSort`), each by itself |
| `LuaPartsProofs` | theorems about them, but for the next two |
| `LuaThreadsProofs` | the theorem about `LuaThreads` |
| `LuaTableProofs` | the theorem about `LuaTable` |
| `LuaLibrary` | `LuaParts` and the other parts; `MCLuaLibrary` is the instance TLC checks |
| `Sugar` | proxies, patched functions and paths (`L/as3/sugar.lua`) |
| `ToObject` | `as3.toobject` and `as3.toarray` with their visited set (`L/as3/toobject.lua`) |
| `FileLoads` | `loadfile`, `as3.filegetcontents` (`L/lua/dofile.lua`, `L/as3/filegetcontents.lua`) |
| `StrictGlobals` | the guard of `_G` (`L/lua/strict.lua`) |
| `LuaTable` | tables: array, nodes, `next` and length (`V/ltable.c`) |
| `LuaThreads` | calls, errors, `pcall`, coroutines (`V/ldo.c`, `V/lbaselib.c`) |
| `LuaModules` | `require`, `module` (`V/loadlib.c`) |
| `LuaSort` | `table.sort` (`V/ltablib.c`) |
| `LuaPatterns` | matching by backtracking (`V/lstrlib.c`) |
| `LuaCode` | expressions to code: registers, constants, jump lists (`V/lcode.c`) |
| `LuaParser` | statements and functions to code: scopes, upvalues (`V/lparser.c`) |
| `LuaVM` | the instructions, and the checker of code (`V/lvm.c`, `V/ldebug.c`) |
| `LuaPrograms` | what the same programs mean by their syntax: the reference |
| `LuaCompiler` | the programs the two are compared on |

These are views of one program, each of the state its properties need. They
meet at three places. `luaClose` of `AS3Values` is what
happens between `close` and `CloseEnds` of `LuaAlchemyLife`, whose frames of
kind "close" stay on the stack while handlers run. Frames of `LuaAlchemyLife`
of kind "call" and "async" are entries of `LuaCalls`, whose stack is that of
one `lua_State` that stays open. The values that `Conversion` converts are
those that `LuaCalls` moves without looking at them, and its userdata are those
that `AS3Values` counts references of. Of Lua the first four modules assume
what the others show: that finalizers run once on what is lost (`LuaGC`), that
`pcall` catches and restores (`LuaThreads`).

### LuaCalls

`frames[i].slots` is what the indices of the Lua API see in the i-th C
function on the Lua stack; a slot is a marker for what lies there ("userdata",
"arg", "handler", "true", …) or a script's result, and a *user value's*
content is never looked at. `entries[i]` is the call made on top of frame i.
AS3 code runs when there is one frame more than entries, a Lua function when
there are as many. A call is three steps: the entry (`doFileImpl`,
`luaDoStringImpl`, `callGlobal`, `setGlobal`, `as3_lua_callback`: everything
up to `lua_pcall()`), what the script does (`as3_call`, `as3_access`,
`as3_flyield`, `HideAs3`), and its end (`ScriptReturns`, `ScriptFails`,
`SetGlobalReturns`: everything after `lua_pcall()`, to the settop of the
public function). The stack arithmetic is the code's: `HandlerIndex` is
`LCALL_ARGS`, `lua_replace(…, 1)` the absolute index of `doFileImpl`, `base +
3` the `results_base` of the callback.

`halt` names why the program cannot go on: `unbalanced` (an `LCHECK` fails),
`panic` (`panic_handler` exits), `astray` (an error jumps out of its C
thread), `crossed` (C code of one thread comes back to a frame of another),
`misyield` (`flyield()` where AS3 code of the same thread lies below, or
outside any asynchronous call). The code has no reaction to the last three;
what the player does then is outside the model, so the model stops.

External, and modelled from the way the bridge uses it: the Lua API on the
stack, and Alchemy's threads — a thread that was started asynchronously is
suspended by `flyield()`, gives control back to the AS3 code that started it
(`by`) and is resumed by a timer tick, which Flash delivers when it runs no
code (`FlashIdle`).

### AS3Values

`udata` lists the userdata with a `__gc` in the order they are made: those
that carry an AS3 value, those that `setup_callback` puts in the registry, and
the one that runs the `as3.onclose` handlers. `refs` counts the references the
C code acquires and gives back. Scripts act while the state is open and from
handlers while it is being closed; `luaClose` fixes `height`, the userdata
that `luaC_separateudata()` sets apart; `Finalize` takes them newest first,
and `CloseState` drops the memory. `of` is a map from AS3 functions to the Lua
functions they call: each time a Lua function is handed over it is another AS3
function.

Each function of the `as3` table acquires and releases as its C code does on
every path: `as3_new`, `as3_toas3_value` and `as3_stage` keep what AS3 returned
besides the reference of the userdata, `Fetch` stands for all that release it,
`as3_set` and `as3_set_function` keep the reference of the value they hand to
AS3. `JumpedOver` is the error that leaves a function of the bridge in the
middle (AS3 code it called reads or writes a global, and the metamethod of `_G`
raises): what the function held is not released. An AS3 object stands for all
that it may hold, arrays, classes and namespaces too.

`ipairs()` in `runners` comes to the handlers that a handler adds while it
runs. `MaxHandlers` of them are told apart; `Further` is the registration of
one more, after which the last handler runs again in place of it. So a close
that goes on for ever is a behaviour of the model. A handler's error is caught
by the pcall of the loop and reported by `as3.trace()`; when that raises, the
loop and the finalizer end (`ReportRaises`), and `luaC_callGCTMudata()`, which
`lua_close()` calls again after an error, goes on with the next userdata. The
other finalizers of the bridge, `as3_release` and `release_callback`, raise
nothing.

### LuaAlchemyLife

`stack` holds the frames in progress: calls into a `lua_State`, `close()`
while its handlers run, and `init()` waiting for the `close()` it makes first.
The frame on top may let AS3 code call any method of the object, `close()` and
`init()` included. A state is "open", "closing" or "closed"; the program is
`lost` when a frame of a closed state runs, since its memory was freed.
`suspended` is the set of states with a call in `flyield()`.

`OneInterpreter` is the abstract specification: a number of the current
interpreter, 0 for none, and a count; a new one is made only when there is
none. `LuaAlchemyLife` implements it with the mapping `current <- Current,
count <- Len(states)`, `Current` being the state that is not closed. (The
mapping is not the variable `luaState`: that is the point.)

### Conversion

`ToAS3` is `get_as3_value_from_lua_stack_type()` and `ToLua` is
`push_as3_to_lua_stack()`. A Lua value is a record with a type, an AS3 value
one with a class; a userdata of the bridge is written as the AS3 value it
carries. Texts are members of a set; the ones that matter to a conversion (the
name of a type, a string that goes on behind a zero byte, a class whose name
begins with "null") are told apart. `as3_tolua` and `as3_toas3` convert one
argument a step on the stack of the C function, arguments below and results
above the slot of the metatable, because which slot that is decides what a
userdata becomes. `callGlobal` and `as3_lua_callback` are one step: their loops
look at no slot but the argument's.

### LuaGC

Objects have fixed kinds and one field each (a table one entry, a stack one
slot, a closure one upvalue), which is enough for every shape of a graph of
two edges. The two white bits are named by what they mean now: `"white"` is
the current one, `"dead"` the other. `Collector` is one `singlestep()`, in the
phases of `gcstate`; `Script` is what a program may do between two of them:
allocate, write with the barrier the code has for that place, open and close
upvalues, change a weak mode, switch coroutines, call a full collection.
`pool` bounds what one behaviour allocates. `live` is what is allocated: a
pointer to what is not live dangles. `Only(list, S)` is what is left of a list
when the objects outside `S` are taken out, as a sweep and
`luaC_separateudata()` do. `Known` is what the program can get at; userdata
that waits for its finalizer and can only be found as a key of a weak table is
not in it, and `FinalizeOnlyLost` speaks of what is `Known`.

### LuaLibrary

The ten parts share no state with one another, so one specification holds
them: a variable `part` is chosen at the start, and the variables of all other
parts stay 0 throughout. Each part is a module of its own, with its own Init,
Next and properties, and is instantiated under a letter. The eight that do not
recurse over data are in `LuaParts`, where they can be reasoned about;
`LuaLibrary` extends it by the two that do (`LuaPatterns` and `LuaCompiler`),
which the prover could not look at. A behaviour of
`LuaLibrary` is one of `PartsSpec`: `Next` either takes a step of `PartsNext`
or leaves `parts` alone.

* `Sugar`: the script has one variable `x`, which holds a proxy of a property
  (with the value it keeps) or of a path, and AS3 may write the property
  between any two steps. `Enable` is the switch in the order of the code, flag
  first. A name is a sequence of segments.
* `FileLoads`: `GoOn` is the end of the wait, which the code gives up after
  one `flyield()`; the event may come before it, after it or in the middle of
  another call. The search of `loadfile` is a function of prefix and root.
* `ToObject`: the recursion is a stack of tables; the order of `pairs()` is
  free, that of `ipairs()` upwards.
* `StrictGlobals`: a step is an access, an assignment, `rawset`, a
  declaration, the removal of the guard or loading it again. `known` is the
  table the guard looks into and `declared` the one `declare()` writes; loading
  the file makes a new one for `declare()` before it finds that `_G` has a
  metatable already, so after a refused load they are two.
* `LuaTable`: `hash` gives the hash of each string, any for any. A value is
  the key it was stored under, so that a wrong answer is seen.
  `Collect` makes keys without value dead, as the collector does. A walk along
  a chain (`Chain`, `First`), the insertions of `resize()` (`Again`) and the
  loops of `luaH_getn()` (`Twice`, `Search`) are functions of how often the
  loop has run. `Full` stands for "no free node": `luaH_set()` then goes
  through `rehash()`, and a table that is `Full` after it would be a rehash
  that found no room for what it had counted.
* `LuaThreads`: `vm.c` is the C stack, on which the C functions of all threads
  lie, and `vm.th` what each `lua_State` knows (`ci`, `nCcalls`, `errfunc`,
  status). A yield, an error and an overflow unwind the first by the second.
* `LuaModules`: `chunks` are the `require()`s whose loader or chunk runs,
  innermost last. A loader is called between the look into `package.loaded`
  and the sentinel, and may call `require()` itself, for the same module too;
  what the loaders find is free.
* `LuaSort`: a step is what happens from the answer of one comparison to the
  call of the next. `ranges` are the calls of `auxsort()` in progress, each with
  its `l` and `u`; a larger part that the loop goes on with takes the place of
  the range it was part of. `scan` is the comparison that is next, with `i`,
  `j` and the pivot. The order function is steady, and then a strict weak
  order, or it is not, and may answer anything; it may raise an error at any
  comparison. `cells` has places on either side of the items, since the inner
  loops are stopped by the pivot alone and may leave the range.
* `LuaPatterns`: the algorithm as operators; a behaviour builds a pattern.
* `LuaCompiler`: a behaviour builds an expression and puts it somewhere, or
  takes one of the statements of `MCLuaLibrary`. `luaY_parser` makes code of
  its syntax tree by the same calls in the same order as the code, `LuaVM`
  runs it, and `LuaPrograms` says what it means, from the reference manual
  (chapter 2): answers, globals, calls and tables must be the same, in the
  same order.

## 3. What the runs show

| Run | Checks | Size |
|---|---|---|
| `LuaCalls` | TypeOK, FlagIsInnermost, AnswerIsWhatScriptLeft, StatusTruthfulAtBottom, Balanced, ArgumentsKept, AtRest, OneAsyncCallIsSafe | 2.6 M states |
| `LuaCallsStatus` | StatusTruthful: violated | |
| `LuaCallsAsync` | NeverCrossed: violated | |
| `AS3Values` | TypeOK, HeldAlive, OlderObjectsIntact, HandlersRunInOrder, LostOnlyIfMadeClosing, OnlyTheseLeak, CloseEnds | 1.0 M states |
| `AS3ValuesLeak` | NoLeak: violated | |
| `AS3ValuesListener` | RemovedIsRemoved: violated | |
| `LuaAlchemyLife` | TypeOK, HoldsTheLivingOne, LostOnlyIf, SugarWhenAsked, ImplementsOneInterpreter | 0.4 M states |
| `LuaAlchemyLifeSuspended` | SuspendedSurvive: violated | |
| `Conversion` | TypeOK, ToLuaOneByOne, ToAS3AndBack, FlashGetsBack | 0.7 M states |
| `ConversionIntact` | ToAS3Intact: violated | |
| `LuaGC` | GcTypeOK, NoDangling, TriColor, FinalizeOnlyLost, GarbageFreed | 0.3 M states |
| `LuaLibrary` | ProxyIsTruthful, PathsAgree, LoadsAnswer, CopiesTrees, NoStrayGlobal, TableIsMap, CallsUnwind, RunOnce, MatchesFirstWay, SortRearranges, CompiledMeansSource | 1.6 M states |

What holds:

* the stack comes back balanced to every C function and every AS3 caller, and
  every call answers what its script left, however calls nest and fail
  (`Balanced`, `AtRest`, `AnswerIsWhatScriptLeft`); a nested call harms at
  most the first argument of the C function it nests in (`ArgumentsKept`), and
  the status it answers is right at the bottom of a frame
  (`StatusTruthfulAtBottom`);
* `is_async` is that of the innermost call unless a script overwrites the
  global `as3` (`FlagIsInnermost`); `flyield()` is reached where it cannot
  work only through a callback or a metamethod of `setGlobal`, which take over
  the mode of the call they interrupt (`OneAsyncCallIsSafe`);
* C threads return to each other's frames only if an asynchronous call was
  started from Lua, or while another one was suspended (`OneAsyncCallIsSafe`);
* no AS3 object is released under a userdata that carries it (`HeldAlive`),
  and references that nothing gives back come from `as3.new`, `new2`, `stage`,
  `toas3`, `set` and `assign`, and from functions an error jumps over, and from
  no other path (`OnlyTheseLeak`); `as3.onclose` handlers run once each in
  order, and all of them unless a report raises, find objects older than the
  first `as3.onclose` intact, and the close ends unless handlers go on
  registering others for ever (`HandlersRunInOrder`, `OlderObjectsIntact`,
  `CloseEnds`); Flash reaches a
  closed state only through a callback made while it was being closed
  (`LostOnlyIfMadeClosing`);
* the object holds the one state that is not closed, its interpreters follow
  one another, freed memory is used only in the three ways `LostOnlyIf` names,
  and a state that was asked to have the sugar has it;
* `as3.tolua` converts each argument whatever stands before it, simple values
  survive `as3.toas3` and the way back, and Flash gets back what it passed but
  for the exceptions `FlashGetsBack` names: a callback answers null where it
  was given nothing, and through `callGlobal` an undefined or an object of a
  class whose name begins with "null" becomes null, an `int` a `Number`, and a
  string ends at its first zero byte;
* no pointer of Lua dangles, weak ones included, and no black object refers to
  a white one, wherever the program writes between two steps of the collector
  (`NoDangling`, `TriColor`); finalizers run once, on what is lost
  (`FinalizeOnlyLost`), and what is lost is freed in the end (`GarbageFreed`);
* a proxy answers with a value the property had since the proxy was made, and
  a path means the same however it is walked, but for namespaces of one
  segment (`ProxyIsTruthful`, `PathsAgree`); `as3.toobject` and `as3.toarray`
  copy exactly what is a tree (`CopiesTrees`); a load answers for itself unless
  events of another came in between, and `loadfile` falls back as its names say
  (`LoadsAnswer`);
  under `strict.lua` every global there is was there when the guard came, was
  set by `rawset` or declared to it, whatever sequence of loading, removing,
  declaring and setting to nil came before, and no declared name is refused
  until a load of the file is (`NoStrayGlobal`);
* a table of Lua is the map the program made of it, and a traversal meets each
  key that stays once (`TableIsMap`); every `lua_State` agrees with the C
  stack, and errors go to the innermost protected call (`CallsUnwind`); the
  chunk of a module runs only where `package.loaded` has nothing or false, and
  what `require` once answered stays, but for a loader that requires its own
  module (`RunOnce`); a match is the first way to match
  (`MatchesFirstWay`); `table.sort` loses and copies nothing whatever the
  order function answers, and with an order it ends and sorts
  (`SortRearranges`); compiled code does what its source says, but for the
  expressions below (`CompiledMeansSource`).

What does not (each a run of its own, and a finding in `PROJECT.json`): a
failing nested call may answer true; asynchronous calls started from Lua are
no longer refused and cross; `as3.new` keeps a reference;
`removeEventListener` with the Lua function that was added removes nothing;
`close()` frees a state with a call suspended in it; `as3.toas3` makes the
string "userdata" of an AS3 value that is not its first argument, since it
compares the metatable with the slot below the top, where the last result lies
(`W/as3_lua_interface.c:705`), and not with the slot of the registered one.

Met on the way, and characterised by a property that holds rather than by a
run: a callback or metamethod in a synchronous call may reach `flyield()`
(`OneAsyncCallIsSafe`); a handler may find objects newer than the first
`as3.onclose` released (`OlderObjectsIntact`); a callback made by a handler is
never expired (`LostOnlyIfMadeClosing`); `as3.stage()`, `as3.toas3()` and `as3.set()`
leave a reference like `as3.new()`, at each call (`OnlyTheseLeak`); a handler's
error that `as3.trace()` cannot report keeps all later handlers from running
(`HandlersRunInOrder`); `callGlobal` of an undeclared name
under `strict.lua` raises outside any pcall and exits (action
`GlobalLookupRaises`); a call after `close()` loads the sugar even when the
constructor was told not to (`Run` makes a state with sugar; `SugarWhenAsked`
is stated one way only). And in the Lua code and the Lua inside:

* `luaK_goiftrue()` jumps for a constant false, and `luaK_goiffalse()` for a
  constant true (`V/lcode.c:547` and `575`). `luaK_jump()` takes the pending
  jumps to that place along, so that a jump meant to fall through to the
  constant goes past it, and the value it tested becomes the result. With the
  vendored Lua, `((x and y) or false) and true` is nil where x is nil, and
  `((y or x) and true) or 5` is y where y is 2; the manual says false and
  true. `JumpLost` in `LuaCompiler` names these expressions, and
  `CompiledMeansSource` holds for all others.
* After a refused argument of `as3.enable_sugar_autoconversion` the flag is
  what was refused, and a path proxy takes what is no boolean for set;
  `as3.toas3` and `as3.invoke` get proxies as tables; a namespace of one
  segment gets a leading dot (`L/as3/sugar.lua:372`).
* An event that comes after its call went on answers a later
  `filegetcontents()`; `init()` that raises after it cleared `load_done`
  refuses every later call; the wait is given up after one `flyield()`
  ("Debugging, remove ASAP").
* `as3.toobject()` and `as3.toarray()` of a table they refuse leave a partly
  filled object; a NaN anywhere in it is an error, since `visited[v]` cannot
  have it as a key.
* A module whose chunk returns false is loaded again by the next `require`; a
  chunk that raises leaves the sentinel, after which `require` reports a loop.
  A module whose loader requires it runs twice, since `require` does not look
  into `package.loaded` again after the search (`V/loadlib.c:457` and `482`).
* Loading `strict.lua` under its own guard is refused, but has already put a
  new `declare()` in place (`L/lua/strict.lua:11`), which the guard in force
  does not hear: names declared from then on stay refused.
* An order function that is no order may move nil from behind the end of the
  table into it.
* `lua_resume()` refuses a thread whose C calls are at LUAI_MAXCCALLS
  (`V/ldo.c:422`) and else counts one more, which may make it the limit. The
  first `luaD_call()` in such a coroutine counts LUAI_MAXCCALLS + 1, which it
  takes for a call in the reserve (`V/ldo.c:370`): no "C stack overflow" is
  raised, and calls nest until the reserve is used up. `CallsUnwind` grants the
  reserve to handlers and to this case (`AtLimit`). It needs a reserve of 2; the
  run has 1, the theorem any.
* Strings are never removed from weak tables, userdata being finalized stays
  as a weak key but not as a weak value, and userdata that waits for its
  finalizer is black between two cycles. If the program gets at such userdata
  again, as a key of a weak table, and the next cycle is a `luaC_fullgc()`
  called while finalizers still wait (`V/lgc.c:636`), marking does not look
  through what is black already: userdata that only it refers to is chosen for
  finalization though the program can reach it.

### Bounds

* `LuaCalls.cfg`: 3 entries at one time, at most 1 argument and 1 result per
  call, 2 asynchronous threads, 2 result values. A defect of index arithmetic
  or of the saved flag needs a call, a call nested in it and what comes after;
  a crossing needs two threads and one more call. The proofs need none of
  these bounds. `Strict` is TRUE, which only adds steps: without it globals
  never raise.
* `AS3Values.cfg`: 1 object and the stage, 2 AS3 functions made of 1 Lua
  function, 4 userdata, 2 handlers told apart and any number after them, no
  action that acquires on what has 2 references. Four userdata are what the worst case
  takes: one older and one newer than the handlers' own, and one made in the
  close.
* `LuaAlchemyLife.cfg`: 3 states, 5 frames: a close within a handler within
  the close an `init()` makes, within a call.
* `Conversion.cfg`: 2 numbers, of which 1 an integer, 1 text, 1 function, 1
  object, 3 arguments. Conversions do not compare values, so one of each kind
  would do; a third argument is the first whose predecessor is itself behind
  the first. The proofs need none of these bounds.
* `LuaGC.cfg`: besides registry, main thread and globals, one pool of two or
  three objects, of which five are checked: table and userdata, table and
  string, closure, upvalue and coroutine, closure, upvalue and userdata, two
  userdata. A wrong barrier needs a black object, a white one and a way to
  hide it; a wrong weak table needs the table and what it holds.
  `GarbageFreed` looks at one object of each kind that is freed in a different
  way (`Watched`).
* `LuaLibrary.cfg`, by part. `Sugar`: 2 objects, paths of 4 segments, the
  first length at which a walk in steps can differ in two places. `FileLoads`:
  4 loads: two that overlap, a late event and the call that gets it.
  `ToObject`: 3 tables of 2 fields, so that a table occurs twice, or contains
  itself at one remove. `StrictGlobals`: 3 names. `LuaTable`: 2 strings with
  hashes 0 and 3, integers up to 3: collisions, moved nodes, three sizes.
  `LuaThreads`: 2 coroutines, 3 C calls with a reserve of 1, 3 calls:
  a coroutine resumed by another, an overflow under a handler. `LuaModules`: 2
  modules, 1 loader, 2 runs of each, 3 calls of `require()` that wait: a ring, a
  loader that requires its own module, and a second run. `LuaPatterns`: up to 3
  items and 2 closing ones over 5 subjects, 2 captures. `LuaSort`: every
  list of up to 5 items under every strict weak order of three, every list of up
  to 7 of two of them, and any answers over a list of up to 5: from 4 items on
  there is a partition, and with 7 its larger part has one too. `LuaCompiler`: one
  operator, then up to two more operands on either side, in four places, plus
  the statements of `MCLuaLibrary`; three inputs that make a global false, nil
  or a number. Lists of a constructor are flushed every 3 items instead of 50.

Symmetry is used twice, where only safety is checked: the asynchronous
threads of `LuaCalls`, and in `LuaLibrary` the modules of `LuaModules` and the
tables of `ToObject` other than the one that is given. `AS3Values` and `LuaGC` check liveness, so they use none.

`MatchesFirstWay` and `CompiledMeansSource` are stated of steps: the pattern,
or the program, that a step makes is right. Only the empty ones, of the initial
states, are left out.

`LuaCalls`, `Conversion` and `LuaGC` check deadlock: in every state some call,
return, resumption or collector step is possible, or the program halted
(`Stopped`). `AS3Values`, `LuaAlchemyLife` and the parts of `LuaLibrary` may
stop at their bounds, at the closed state or when their input is complete, so
their cfgs say CHECK_DEADLOCK FALSE.

### Fairness

`CloseEnds` assumes `WF_vars(Closing)`: `lua_close()` is a C loop that waits
for no one, and a handler is assumed to return or raise. Nothing is assumed of
scripts, Flash or the garbage collector: handlers may call, collect and
register further handlers between any two steps of the close. A program whose
handlers go on registering others never ends its close, and the model has those
behaviours; `CloseEnds` names them (`[]<><<Further>>_vars`) and says that there
are no others.

`GarbageFreed` assumes that the collector takes infinitely many steps
(`[]<><<Collector>>_heap`): `luaC_step()` is called by allocation, and a
program that allocates no more needs no memory freed. A collector step is
possible in every state, so this is weak fairness of `Collector`. Nothing is
assumed of the program, which may go on writing and making new garbage.

## 4. What is proved

TLAPS proves these for all values of the constants that satisfy the named
assumptions of the modules (disjoint names, bounds that are natural numbers) —
any number of threads, depth of nesting, arguments, `lua_State`s, objects of
the heap, modules, names. Each inductive invariant was first checked by TLC, as
an invariant of the run of its module.

| Module | Theorems |
|---|---|
| `LuaCallsProofs` | `TypeCorrect`, `BalancedAlways`, `AtRestAlways`, `ArgumentsKeptAlways`, `FlagIsInnermostAlways`, `AnswerIsWhatScriptLeftAlways`, `StatusTruthfulAtBottomAlways`, `OneAsyncCallIsSafeAlways` |
| `AS3ValuesProofs` | `TypeCorrect`, `HeldAliveAlways`, `OnlyTheseLeakAlways`, `OlderObjectsIntactAlways`, `HandlersRunInOrderAlways`, `LostOnlyIfMadeClosingAlways` |
| `LuaAlchemyLifeProofs` | `TypeCorrect`, `HoldsTheLivingOneAlways`, `LostOnlyIfAlways`, `SugarWhenAskedAlways`, `Refinement` |
| `ConversionProofs` | `TypeCorrect`, `ToLuaOneByOneAlways`, `ToAS3AndBackAlways`, `FlashGetsBackAlways` |
| `LuaGCProofs` | `Inductive`, `TypeCorrect`, `NoDanglingAlways`, `TriColorAlways`, `FinalizeOnlyLostAlways` |
| `LuaPartsProofs` | `NoStrayGlobalAlways`, `LoadsAnswerAlways`, `RunOnceAlways`, `ProxyIsTruthfulAlways`, `PathsAgreeAlways`, `CopiesTreesAlways`, `SortRearrangesAlways` |
| `LuaThreadsProofs` | `CallsUnwindAlways` |
| `LuaTableProofs` | `TableIsMapAlways` |

`LuaCallsProofs`. None of the invariants is inductive alone: that a frame has
its height again after a call needs what the call left on it. The inductive
invariant `IInv` (`StackOK`) relates each frame to the entry made on it
(`Shape`): the entry's `base` is the height the frame's C function waits with,
`pbase` the index of its handler, and the frame is as high as the pushed slots
make it; arguments from the second on are in their place (`ArgsOf`). `FlagInv`
chains the flags: what an entry saved (`old`) is the mode of the entry below
it. The lemmas on `InsertAt`, `RemoveAt`, `SubSeq` and `ReplaceAt` (length and
elements) carry the index arithmetic, and there is one step lemma per action.
For the answers, `StatusAt` says at which slot the end of each kind of call
finds its status, and `AnswerLemma` reads the rest off the same shape. For
`OneAsyncCallIsSafe`, `ThreadsOK` says which entry made each thread
(`MadeOK`), which thread each entry runs on (`OwnersOK`), which of them is on
top (`RunningOK`) and what a suspended one left behind (`SuspendedOK`). That
threads cross only after one was started from Lua is an induction over the
stack: `SmallestLemma` gives the lowest entry that violates it.

`AS3ValuesProofs`. `IInv` is `TypeOK`, `Shape` (what each userdata and record
is), `Phases` (what may exist before, during and after the close),
`NewestFirst` (the order of `height`) and `Counted` (how far the handlers have
come, of which `cut` excuses the rest). Under `IInv` every step is a
`SurplusStep`: the references to a value stay as many beyond the userdata that
carry it, or are one more in a step of the functions `OnlyTheseLeak` names, or
one less for an AS3 function while `lua_close()` runs. The cardinality of
`Holders` under each action is what that takes, and with it
`HeldAlive` and `OnlyTheseLeak` are two halves of one statement.
`OlderObjectsIntact` is `NewestFirst` read at a handler's step.

`LuaAlchemyLifeProofs`. `HoldsTheLivingOne` is not inductive: `init()` makes a
state after the close it asked for, and handlers run in between. `IInv` adds
`InitsWait`: a waiting `init()` always has its `close()` directly above it, and
when it is on top the object holds no state, so that `Make` never overwrites a
living one. `Refinement` then needs one fact per action: `Current` is
`luaState`. For `LostOnlyIf`, `PoliteInv` says what is in progress while
nothing was misclosed: a close lies at the bottom of the stack (or above the
`init()` that made it); every frame is of a state that is not closed, and every
suspended call of an open one, or of a state excused by `late`. `SugarWhenAsked`
needs of an `init()` on the stack that what it was asked for is what it makes.

`ConversionProofs`. The lemmas `ToLuaLemma`, `ToAS3Lemma`, `SimpleComesBack`
and `ThroughLua` are about one value; `InProgress`, the part that makes the
invariant inductive, says where on the stack the arguments, the metatable and
each result made so far lie, and that the result is right. That a foreign
userdata never passes for one of the bridge in `as3.toas3` needs that what lies
below the top is the bridge's metatable or an AS3 value, never another
metatable.

`LuaGCProofs`. `TriColor` and `NoDangling` are not inductive: what is white
when marking ends is freed, so what is white must be out of reach by then, and
between two steps of the collector the program moves references into places it
has already looked at. `IInv` is the types, `Unborn` (what is not allocated
holds nothing), `Linked` (the lists of userdata), `Whole` (no pointer to what is
not live), `PhaseOK` (what each phase promises of `gray`, `grayagain`,
`unswept` and the list being built) and `Marking`: every object that is marked
but not waiting on a list has its children marked, the roots are marked or will
be marked again by `atomic()`, and what an open upvalue shows lies in a stack
that `atomic()` visits. `Incremental` is that statement for given marks and
lists, so that the same lemmas serve every step that marks and every barrier;
`ChangeStep` is for the program's writes, `Half` for `atomic()` in two halves
(before and after weak tables are cleared), `SweepLemma` for freeing,
`KnownLemma` for what a finalizer gets.

`LuaPartsProofs`. The theorems are about `PartsSpec`. `NoStrayGlobal` is not
inductive: that no declared name is refused needs that `declare()` and the guard
use one table as long as no load was refused (`Guarding`). `LoadsAnswer`: at most one load waits that was not overtaken
(`OneLoad`), and which events may still come for it (`Pending`, `Replied`).
`RunOnce`: inside a chunk its module is neither searched nor run, since its
place holds the sentinel or the table of `module()`, and as long as no chunk
began since a search did, the place is as the search found it (`Inside`,
`Placed`); what else stands in a place was left by a chunk that came to its end
(`Loaded`), and what `require` answered stands there (`Answered`). So a chunk
that begins finds nothing or false, or was overtaken by one that its own loader
required, and only a chunk that begins takes an answer away. `ProxyIsTruthful`: what a proxy
keeps is a value of the property since the proxy was made (`Kept`, `Read`), and
the two conversion handlers are switched together (`Agree`). `PathsAgree`:
`SplitLemma` and `QualifiedLemma` say that `splitpath()` undoes the
joining of a path at any segment; `Walked` says where a path proxy stands.
`CopiesTrees`: the calls on the stack copy tables that differ, each the one in
the field the call below is at (`Nested`), so that the recursion is no deeper
than there are tables, and one; what a call has not left to do is right in its
object (`Filled`), where a table in a field is the last copy made of it; and an
error is never raised over a tree (`Failed`). It assumes that the tables within
reach are finitely many, as those of a program are. `SortRearranges`: `SortInv`
says of the ranges that they lie among the items, each larger than the two
within it (`RangesFit`), and with an order that no item is in two of them
(`Apart`); of the places that each value is found in as many of them as at first
(`CellsFit`), which an exchange keeps; and with an order, that two items in no
range together are in order (`Settled`), and what the comparisons of the
innermost range have told of the items on either side of `i` and `j`
(`ScanTells`), which is what stops the inner loops. So nothing is left out of
order when there is no range any more. That the sort ends is a measure: each
step leaves fewer items in a range, as many and fewer calls, or as much of
both and less to look at (`SortEnds`). It is claimed of orders only: with
other answers `i` may stop behind the range, whose larger part is then the
whole range again, and the loop may go round for as long as they last.

`LuaThreadsProofs`. `CallsUnwind` compares what each `lua_State` counts with all
entries it has on the C stack, but an error or a yield takes the stack back to
some entry in its middle, and puts back what was saved there. So the inductive
invariant `ThreadsInv` holds at every height: `Good` says of each entry what may
lie below it (`Shape`), that with the calls up to it the count of its thread has
not passed the limits, and that a `pcall` saved the count, frames and handler of
that height (`Saves`). A thread on the C stack then satisfies `Mine`, `Counts`
and, outside of handlers, `Exact`; one that is not, `Outside`. While an error is
on its way the running thread may have counted anything (`Loose`), which is why
`luaD_throw()` has a lemma of its own that gives `ThreadsInv` back. The limits
are any numbers, and the reserve may be 0.

`LuaTableProofs`. That `luaH_get()` gives what was stored last is only the
outside of a table; the inductive invariant `TableInv` says why. It has four
parts.

* The nodes (`Nodes`). `Linked`: `next` leads to a node that has a key, and no
  two nodes have the same next, so that chains do not merge. `Placed`: every
  node with a key can be reached from the main position of that key, and the
  chain begins with a key whose main position it is; this is what Brent's
  variation keeps by moving a colliding node. `Kept`: a value lies under its
  own key, and never under a dead one. `Ranked`: some numbering of the nodes
  grows along every `next`, so no chain has a cycle. `Newest`: of the nodes
  with one key at most one is not dead, and it comes before the dead ones: a
  key that died and is stored again gets a new node, right behind the main
  position, and its dead node stays where it was. `Reach` is the least set closed under
  `next`, which needs no induction to reason about.
* The table (`Good`). A key of a node is not an index of the array, and every
  node at or above `lastfree` has a key: so `getfreepos()` never misses a free
  node, and "no free node" means that every node has a key.
* The map: `luaH_get()` gives `contents`.
* The traversal (`Walking`): what it has met lies at or before the place of its
  key, what it must meet lies behind.

A step is one lemma. An insertion is one of three (`room` in the main
position; a free node behind the main position; the node in the main position
moves away), each of which gives the nodes, a new numbering and the values
(`Changed`). An assignment while `rehash()` inserts again cannot fail, by
counting: there are as many nodes as `rehash()` counted keys that do not go to
the array, the new key among them (`Resizing`, `Fits`), and in a table made
anew every node that has a key holds the value of a key of its own
(`Packed`), so one of them is free (`RoomLemma`). For
`luaH_getn()`, `Border` says that each round of the two loops keeps a value (or
0) at `i` and none at `j`, and halves or doubles what is between; the rounds the
model allows are enough. `Collect` and a store under a key that is present
change neither keys nor places (`Same`), which is why a traversal may go on. The
proof assumes of the constants what the module's `TableAssumption` says: that
no string is an integer or nil, and that the largest integer key is some
positive number. Sizes are natural numbers, as far as below MAXBITS.

Only model-checked: `MatchesFirstWay` and `CompiledMeansSource` (what recursive
definitions compute), and the liveness properties `CloseEnds` and
`GarbageFreed`. Liveness under fairness and ENABLED are beyond the prover, and
so are RECURSIVE operators and the induction theorems of the library, which
take an operator as parameter. Where an induction over a stack or a list is
needed the proofs take the least counterexample instead (`SmallestLemma`, from
the well-foundedness of < on the natural numbers), which needs no such
parameter.

## 5. Not modelled

* Of the bridge: `as3.type`, `argstoarray`, `print`, `lua_alchemy.lua` (the
  order in which files are loaded): names and formatting.
  `filegetcontents.lua` is modelled though it is not loaded at present.
* Calls, or callbacks made, on a coroutine instead of the main Lua thread:
  `LuaCalls` and `AS3Values` have one Lua thread per state. The record of a
  callback keeps the coroutine's `lua_State`, which may be collected
  (`W/callbacks_as3_lua.c:298`); no property would say more than that.
* AS3 exceptions thrown through C code: the bridge catches none ("TODO check
  for function call failure"), and what they do to C frames, and to the
  references those hold, is Alchemy's matter. After `fatal_error()` and
  `panic_handler()` the program has exited, and references do not matter.
* What a metamethod of `_G` does besides raising: `lua_gettable()` in
  `callGlobal` (`W/lua_wrapper.gg:335`) and `setGlobal` would run any
  `__index` or `__newindex` a script installs. `LuaCalls` has the errors of
  `strict.lua`, and calls to AS3 from the metamethod of `setGlobal`, but none
  from that of `callGlobal`.
* Userdata that a script gives a `__gc` of its own (`newproxy`), which could
  raise or run scripts in `lua_close()` as the handlers do.
* In `as3.set` and `as3.assign` of strings, numbers and tables the AS3 value is
  new and no userdata carries it; its reference is left too (the line is that of
  `as3_set`), but nothing in Lua could tell.
* What AS3 makes of a property of a number or of null, of which a proxy of
  `Sugar` would be made.
* Memory exhaustion (`luaL_newstate()` that answers NULL, allocation that
  fails inside Lua), sizes and the pace of the collector, and the messages and
  tracebacks of errors.
* `vfsRoot` and `supplyFile()`, which only hand a value on.
* The reference count of the AS3 function in `setup_callback`, which the
  library's `AS3_Function` defines.
* Of Lua: tokens, precedence and syntax errors (`LuaParser` starts from a
  syntax tree), the `arg` table of LUA_COMPAT_VARARG, line information,
  hooks, the limits of the compiler (200 locals, 60 upvalues, jumps of 18
  bits), metamethods inside the VM other than the requests they become, sizes
  of tables near MAXBITS, the syntax of patterns and of classes, how loaders
  find files, C libraries, the libraries of input and output, mathematics and
  the operating system, dumps, `lapi.c` and `lauxlib.c` (modelled as the
  parts use them), an order function that changes the table it sorts.
* The demos, the tests and the build.

## 6. What is left

* `CallDiscipline`, an abstract last-in first-out discipline of calls and
  answers that `LuaCalls` would implement until it halts. `BalancedAlways`,
  `AtRestAlways` and `AnswerIsWhatScriptLeftAlways` say the same piece by piece.
* `MatchesFirstWay` and `CompiledMeansSource` for inputs of any length: their
  modules recurse over data and stay with TLC.
* The hazards of section 1 that no property covers, each with its reason in
  `PROJECT.json`.
