------------------------------ MODULE LuaCalls ------------------------------
(***************************************************************************)
(* Calls across the bridge between Flash (AS3) and one lua_State.          *)
(*                                                                         *)
(* AS3 enters Lua through doFile, luaDoString, callGlobal, setGlobal       *)
(* (lua_wrapper.gg) and through a Lua function wrapped as an AS3 function  *)
(* (callbacks_as3_lua.c); Lua calls AS3 through as3.call and its relatives *)
(* (as3_lua_interface.c).  The two nest to any depth on one Lua stack.     *)
(* An asynchronous entry runs on a C thread of its own: as3.flyield()      *)
(* suspends it, Flash goes on, a timer tick resumes it.                    *)
(*                                                                         *)
(* frames[i] is a C function's window on the Lua stack: its slots are what *)
(* the indices of the Lua API see.  entries[i] is the entry into Lua made  *)
(* on top of frames[i].  Either AS3 runs (one frame more than entries) or  *)
(* Lua does (as many).  doFileImpl and luaDoStringImpl differ only in what *)
(* they load: both are entries of kind "chunk".                            *)
(*                                                                         *)
(* An entry says on which C thread it runs (own), on which one the AS3     *)
(* code that made it does (by), whether its mode is asynchronous (async),  *)
(* which mode it found and will put back (old), how high the frame was     *)
(* before it (base), and where the error handler lies (pbase).             *)
(***************************************************************************)
EXTENDS Integers, SequencesExt

CONSTANTS
  Async,          \* the C threads asynchronous entries run on
  Value,          \* the values scripts return
  MaxEntries,     \* bound: entries nested or suspended at one time
  MaxArgs,        \* bound: arguments and results of one call
  Strict          \* strict.lua is loaded: global access may raise an error

Main  == "main"   \* the C thread of every synchronous call
Owner == Async \cup {Main}

Marker == {"userdata", "arg", "guard", "true", "false", "fn", "handler",
           "callbacks", "holder", "value", "msg"}

ASSUME ConstantsAssumption ==
  /\ Main \notin Async
  /\ Value \cap Marker = {}
  /\ MaxEntries \in Nat
  /\ MaxArgs \in Nat
  /\ Strict \in BOOLEAN

Slot       == Marker \cup Value
FrameKind  == {"host", "call", "access", "flyield"}
EntryKind  == {"chunk", "callGlobal", "setGlobal", "callback"}
HaltReason == {"no", "unbalanced", "panic", "astray", "crossed", "misyield"}

VARIABLES
  frames,     \* C frames on the Lua stack, outermost first
  entries,    \* entries into Lua, outermost first
  is_async,   \* the field as3.is_async
  as3Global,  \* the global "as3": untouched, overwritten, or put back
  running,    \* the C thread that runs
  suspended,  \* the C threads waiting in flyield() for a timer tick
  halt,       \* why the program can run no further
  answer      \* what the last step answered to AS3

vars == <<frames, entries, is_async, as3Global, running, suspended, halt,
          answer>>

NoAnswer == [kind |-> "none", base |-> 0, failed |-> FALSE,
             values |-> <<>>, produced |-> <<>>]

Init ==
  /\ frames    = <<[own |-> Main, kind |-> "host", nargs |-> 0,
                   slots |-> <<>>]>>
  /\ entries   = <<>>
  /\ is_async  = FALSE
  /\ as3Global = "ours"
  /\ running   = Main
  /\ suspended = {}
  /\ halt      = "no"
  /\ answer    = NoAnswer

----------------------------------------------------------------------------
(* Who runs, and on which slots.                                           *)

AS3Runs == halt = "no" /\ Len(frames) = Len(entries) + 1
LuaRuns == halt = "no" /\ Len(frames) = Len(entries)

Top     == frames[Len(frames)].slots     \* what lua_gettop() counts
Running(t)  == \E i \in 1..Len(entries) : entries[i].own = t
OnlyEntry(t) == \A i \in 1..Len(entries)-1 : entries[i].own # t

(* While Lua runs: the C thread whose AS3 code made the innermost entry. *)
Caller == entries[Len(entries)].by

Args(n) == [i \in 1..n |-> "arg"]

(* The height of a frame while its C function waits for AS3. *)
Height(f) == f.nargs + IF f.kind = "call" THEN 1 ELSE 0

Push(slots, more) == slots \o more

(* lua_replace(L, i): pop the top value into index i of the frame. *)
lua_replace(slots, i) == Front(ReplaceAt(slots, i, Last(slots)))

SetTop(slots) == frames' = [frames EXCEPT ![Len(frames)].slots = slots]

(* old_async, and the assignment set_async_state() makes: nothing happens  *)
(* when the global "as3" is not a table.                                   *)
as3Here == as3Global # "hidden"

get_async_state == as3Here /\ is_async
set_async_state(flag) == is_async' = IF as3Here THEN flag ELSE is_async

----------------------------------------------------------------------------
(* do_pcall_with_traceback.                                                *)

(* LCALL_ARGS: where the handler goes, one slot under the value that lies  *)
(* below the function and its arguments.                                   *)
HandlerIndex(slots, narg) == Len(slots) - (1 + narg)

(* The stack while lua_pcall() runs the function: the handler inserted,    *)
(* the function and its arguments consumed.                                *)
PcallBegin(slots, narg) ==
  SubSeq(InsertAt(slots, HandlerIndex(slots, narg), "handler"),
         1, Len(slots) - narg)

(* The stack after it: results or message pushed, the handler removed.     *)
PcallEnd(slots, pbase, out) == RemoveAt(slots \o out, pbase)

(* The saved mode is put back whether the call succeeded or not.           *)
(* Mutant: an error path skips the restoring. *)
RestoreFlagOnSuccess(e, failed) ==
  IF failed THEN UNCHANGED is_async ELSE set_async_state(e.old)
RestoreFlag(e, failed) == set_async_state(e.old)

(* Frame slots `pushed` hold the function and narg arguments on top; run   *)
(* it as an entry of thread t.                                             *)
Enter(t, kind, flag, pushed, narg) ==
  /\ SetTop(PcallBegin(pushed, narg))
  /\ entries' = Append(entries,
       [own |-> t, by |-> running, kind |-> kind, async |-> flag,
        old |-> get_async_state, base |-> Len(Top),
        pbase |-> HandlerIndex(pushed, narg)])
  /\ set_async_state(flag)
  /\ answer' = NoAnswer
  /\ UNCHANGED <<as3Global, suspended, halt>>

(* What each entry point leaves on the stack, and answers, once the pcall  *)
(* is over.  The status of the do*() family goes to index 1 of the frame.  *)
(* Mutant: the status goes one slot too low. *)
StatusBelow(slots, failed) ==
  IF failed THEN lua_replace(Append(slots, "false"), Len(slots) - 2) ELSE slots
Status(slots, failed) ==
  IF failed THEN lua_replace(Append(slots, "false"), 1) ELSE slots

(* Mutant: results_base does not count the holder. *)
AnsweredWithHolder(e, slots, failed) ==
  IF e.kind = "callback"
  THEN IF failed THEN <<>> ELSE SubSeq(slots, e.base + 2, Len(slots))
  ELSE SubSeq(Status(slots, failed), e.base + 1, Len(slots))
Answered(e, slots, failed) ==
  IF e.kind = "callback"
  THEN IF failed THEN <<>> ELSE SubSeq(slots, e.base + 3, Len(slots))
  ELSE SubSeq(Status(slots, failed), e.base + 1, Len(slots))

(* Mutant: a callback leaves its tables on the stack. *)
LeftTables(e, slots, failed) ==
  IF e.kind = "callback" /\ ~failed
  THEN SubSeq(slots, 1, e.base + 2)
  ELSE SubSeq(Status(slots, failed), 1, e.base)
Left(e, slots, failed) ==
  SubSeq(IF e.kind = "callback" THEN slots ELSE Status(slots, failed),
         1, e.base)

----------------------------------------------------------------------------
(* AS3 runs: the public functions of lua_wrapper.gg.                       *)

(* The thread of a new call.  The async guards of lua_wrapper.gg are       *)
(* commented out: nothing there refuses a call made from Lua.              *)
StartSync(t) == t = running /\ UNCHANGED running

StartAsync(t) ==
  /\ t \in Async /\ ~Running(t)
  /\ running' = t

Start(t, isAsync) ==
  /\ AS3Runs /\ Len(entries) < MaxEntries
  /\ IF isAsync THEN StartAsync(t) ELSE StartSync(t)

RunChunk(isAsync) == \E t \in Owner :
  /\ Start(t, isAsync)
  /\ Enter(t, "chunk", isAsync, Push(Top, <<"true", "fn">>), 0)

(* luaL_loadfile or luaL_loadbuffer fails: the call is over at once.       *)
LoadFails ==
  LET e     == [kind |-> "chunk", base |-> Len(Top)]
      slots == Push(Top, <<"true", "msg">>)
  IN /\ AS3Runs
     /\ SetTop(Left(e, slots, TRUE))
     /\ answer' = [kind |-> "chunk", base |-> e.base, failed |-> TRUE,
                   values |-> Answered(e, slots, TRUE), produced |-> <<>>]
     /\ UNCHANGED <<entries, is_async, as3Global, running, suspended, halt>>

doFileImpl(isAsync)      == RunChunk(isAsync) \/ LoadFails
luaDoStringImpl(isAsync) == RunChunk(isAsync) \/ LoadFails

(* Mutant: callGlobal runs in the mode of the outer call. *)
callGlobalInherits == \E n \in 0..MaxArgs :
  /\ Start(running, FALSE)
  /\ Enter(running, "callGlobal", get_async_state,
           Push(Top, <<"true", "fn">> \o Args(n)), n)
callGlobal == \E n \in 0..MaxArgs :
  /\ Start(running, FALSE)
  /\ Enter(running, "callGlobal", FALSE,
           Push(Top, <<"true", "fn">> \o Args(n)), n)

(* A metamethod of _G runs under lua_setglobal(), with no pcall around it  *)
(* and as3.is_async as it was.                                             *)
setGlobal ==
  /\ Start(running, FALSE)
  /\ SetTop(Push(Top, <<"value">>))
  /\ entries' = Append(entries,
       [own |-> running, by |-> running, kind |-> "setGlobal",
        async |-> is_async, old |-> is_async, base |-> Len(Top), pbase |-> 0])
  /\ answer' = NoAnswer
  /\ UNCHANGED <<is_async, as3Global, suspended, halt>>

(* An AS3 function made of a Lua function is called.                       *)
as3_lua_callback == \E n \in 0..MaxArgs :
  /\ Start(running, FALSE)
  /\ Enter(running, "callback", get_async_state,
           Push(Top, <<"callbacks", "holder", "fn">> \o Args(n)), n)

----------------------------------------------------------------------------
(* Errors with no pcall between them and AS3.                              *)

(* Entry i is the innermost one with a pcall; 0 when there is none. *)
Innermost(i) ==
  /\ i > 0 => entries[i].kind # "setGlobal"
  /\ \A j \in i+1..Len(entries) : entries[j].kind = "setGlobal"

(* lua_error(): jump to the innermost pcall of the lua_State, past every   *)
(* AS3 frame above it; without one, panic_handler() exits.                 *)
Throw == \E i \in 0..Len(entries) :
  /\ Innermost(i)
  /\ answer' = NoAnswer
  /\ IF i > 0 /\ entries[i].own = running
     THEN /\ entries' = SubSeq(entries, 1, i)
          /\ frames'  = SubSeq(frames, 1, i)
          /\ UNCHANGED halt
     ELSE /\ halt' = IF i = 0 THEN "panic" ELSE "astray"
          /\ UNCHANGED <<frames, entries>>
  /\ UNCHANGED <<is_async, as3Global, running, suspended>>

(* callGlobal: lua_gettable() meets the __index of strict.lua.             *)
GlobalLookupRaises == AS3Runs /\ Strict /\ Throw

(* setGlobal: the __newindex of strict.lua raises.                         *)
SetGlobalRaises ==
  /\ LuaRuns /\ Strict
  /\ entries[Len(entries)].kind = "setGlobal"
  /\ Throw

----------------------------------------------------------------------------
(* Lua runs.                                                               *)

(* The entry's function returns `out`, or raises and `out` is the message. *)
Leave(out, failed) ==
  LET e     == entries[Len(entries)]
      slots == PcallEnd(Top, e.pbase, out)
  IN /\ LuaRuns /\ e.kind # "setGlobal"
     /\ SetTop(Left(e, slots, failed))
     /\ entries' = Front(entries)
     /\ RestoreFlag(e, failed)
     /\ running' = IF e.own # Main /\ OnlyEntry(e.own)
                   THEN Caller ELSE running
     /\ halt' = IF failed /\ Len(slots) # e.pbase + 1
                THEN "unbalanced" ELSE "no"
     /\ answer' = [kind |-> e.kind, base |-> e.base, failed |-> failed,
                   values |-> Answered(e, slots, failed), produced |-> out]
     /\ UNCHANGED <<as3Global, suspended>>

ScriptReturns == \E results \in SeqOf(Value, MaxArgs) : Leave(results, FALSE)
ScriptFails   == Leave(<<"msg">>, TRUE)

SetGlobalReturns ==
  /\ LuaRuns
  /\ entries[Len(entries)].kind = "setGlobal"
  /\ SetTop(Front(Top))
  /\ entries' = Front(entries)
  /\ answer' = NoAnswer
  /\ UNCHANGED <<is_async, as3Global, running, suspended, halt>>

(* Lua calls a function of the as3 table that runs AS3 code.  as3.call and *)
(* as3.invoke push a nil to guard an empty stack; get, set, new and        *)
(* namespacecall ("access") do not.                                        *)
PushFrame(kind, n, slots) ==
  /\ frames' = Append(frames, [own |-> running, kind |-> kind, nargs |-> n,
                               slots |-> slots])
  /\ answer' = NoAnswer
  /\ UNCHANGED <<entries, is_async, as3Global>>

as3_call == \E n \in 0..MaxArgs :
  /\ LuaRuns
  /\ PushFrame("call", 1 + n, <<"userdata">> \o Args(n) \o <<"guard">>)
  /\ UNCHANGED <<running, suspended, halt>>

as3_access == \E n \in 0..MaxArgs :
  /\ LuaRuns
  /\ PushFrame("access", 1 + n, <<"userdata">> \o Args(n))
  /\ UNCHANGED <<running, suspended, halt>>

(* A script overwrites the global "as3", or puts it back. *)
HideAs3 ==
  /\ LuaRuns
  /\ as3Global' = IF as3Here THEN "hidden" ELSE "restored"
  /\ answer' = NoAnswer
  /\ UNCHANGED <<frames, entries, is_async, running, suspended, halt>>

(* flyield() can suspend the C thread only while no AS3 code of its own    *)
(* lies below it, and the thread of synchronous calls not at all.          *)
(* Mutant: a synchronous call is suspended as well. *)
MayYieldInMain == OnlyEntry(running)
MayYield == running # Main /\ OnlyEntry(running)

(* as3.flyield(): refused unless as3.is_async (no step).                   *)
as3_flyield == \E n \in 0..MaxArgs :
  /\ LuaRuns /\ get_async_state
  /\ PushFrame("flyield", n, Args(n))
  /\ IF MayYield
     THEN /\ suspended' = suspended \cup {running}
          /\ running' = Caller
          /\ UNCHANGED halt
     ELSE /\ halt' = "misyield"
          /\ UNCHANGED <<suspended, running>>

----------------------------------------------------------------------------
(* Back into C code that waits.                                            *)

(* The AS3 code called from Lua is done: C goes on in the frame on top of  *)
(* the Lua stack, which is the thread's own unless another thread's call   *)
(* was left suspended above it.                                            *)
AS3Returns ==
  LET f == frames[Len(frames)]
  IN /\ AS3Runs /\ f.own = running /\ f.kind \in {"call", "access"}
     /\ IF Len(f.slots) = Height(f)
        THEN frames' = Front(frames) /\ UNCHANGED halt
        ELSE halt' = "unbalanced" /\ UNCHANGED frames
     /\ answer' = NoAnswer
     /\ UNCHANGED <<entries, is_async, as3Global, running, suspended>>

AS3ReturnsCrossed ==
  /\ AS3Runs /\ frames[Len(frames)].own # running
  /\ Running(running)
  /\ halt' = "crossed"
  /\ answer' = NoAnswer
  /\ UNCHANGED <<frames, entries, is_async, as3Global, running, suspended>>

(* Flash runs no code: the time at which timers tick.                      *)
(* Mutant: they also tick inside a synchronous call. *)
FlashIdleAlways == AS3Runs
FlashIdle == AS3Runs /\ running = Main /\ ~Running(Main)

(* A timer tick resumes thread t behind flyield().                         *)
Resume(t) ==
  LET f == frames[Len(frames)]
  IN /\ FlashIdle /\ t \in suspended
     /\ IF f.own = t
        THEN /\ frames' = Front(frames)
             /\ running' = t
             /\ suspended' = suspended \ {t}
             /\ halt' = IF Len(f.slots) = Height(f)
                        THEN "no" ELSE "unbalanced"
        ELSE /\ halt' = "crossed"
             /\ UNCHANGED <<frames, running, suspended>>
     /\ answer' = NoAnswer
     /\ UNCHANGED <<entries, is_async, as3Global>>

Stopped == halt # "no" /\ UNCHANGED vars

Next ==
  \/ \E isAsync \in BOOLEAN : doFileImpl(isAsync) \/ luaDoStringImpl(isAsync)
  \/ callGlobal \/ setGlobal \/ as3_lua_callback
  \/ GlobalLookupRaises \/ SetGlobalRaises
  \/ ScriptReturns \/ ScriptFails \/ SetGlobalReturns
  \/ as3_call \/ as3_access \/ HideAs3 \/ as3_flyield
  \/ AS3Returns \/ AS3ReturnsCrossed
  \/ \E t \in Async : Resume(t)
  \/ Stopped

Spec == Init /\ [][Next]_vars

----------------------------------------------------------------------------
(* Properties.                                                             *)

Frame == [own : Owner, kind : FrameKind, nargs : Nat, slots : Seq(Slot)]
Entry == [own : Owner, by : Owner, kind : EntryKind, async : BOOLEAN,
          old : BOOLEAN, base : Nat, pbase : Nat]
Answer == [kind : EntryKind \cup {"none"}, base : Nat, failed : BOOLEAN,
           values : Seq(Slot), produced : Seq(Slot)]

(* The variables stay in their types, and AS3 and Lua take turns: there is *)
(* a frame for every entry and at most one more.                           *)
TypeOK ==
  /\ frames \in Seq(Frame)
  /\ entries \in Seq(Entry)
  /\ is_async \in BOOLEAN
  /\ as3Global \in {"ours", "hidden", "restored"}
  /\ running \in Owner
  /\ suspended \subseteq Async
  /\ halt \in HaltReason
  /\ answer \in Answer
  /\ Len(frames) \in Len(entries)..Len(entries)+1

(* as3.is_async tells the mode of the innermost call in progress, running  *)
(* or suspended, and is FALSE when there is none, however calls of both    *)
(* modes nest, fail and yield: do_pcall_with_traceback() saves and         *)
(* restores it.  A script that overwrites the global as3 breaks it.        *)
FlagIsInnermost ==
  as3Global = "ours" /\ halt = "no" =>
    (is_async <=> entries # <<>> /\ entries[Len(entries)].async)

(* Index arithmetic: an entry hands back to AS3 exactly the values its     *)
(* function produced behind the status, or the message, wherever on the    *)
(* frame it was made, and a failed callback hands back nothing.            *)
AnswerIsWhatScriptLeft ==
  answer.kind # "none" =>
    answer.values =
      IF answer.kind = "callback"
      THEN IF answer.failed THEN <<>> ELSE answer.produced
      ELSE <<answer.values[1]>> \o
           (IF answer.failed THEN <<"msg">> ELSE answer.produced)

(* A call made from Flash itself, or while Flash waits on a flyield()      *)
(* without arguments, answers true exactly when it did not fail.           *)
StatusTruthfulAtBottom ==
  answer.kind \in {"chunk", "callGlobal"} /\ answer.base = 0 =>
    answer.values[1] = IF answer.failed THEN "false" ELSE "true"

(* LuaAlchemy.as: the first value returned is true or false, by whether    *)
(* the call succeeded.                                                     *)
StatusTruthful ==
  answer.kind \in {"chunk", "callGlobal"} =>
    answer.values[1] = IF answer.failed THEN "false" ELSE "true"

(* No LCHECK of the code fails: whatever AS3 did below a frame, its C code *)
(* finds the stack as high as it left it.                                  *)
Balanced == halt # "unbalanced"

(* Entries disturb at most the first argument of the call they nest in.    *)
ArgumentsKept ==
  \A i \in 1..Len(frames) : \A k \in 2..frames[i].nargs :
    frames[i].slots[k] = "arg"

(* An asynchronous call goes wrong in two ways only.  Two threads get in   *)
(* each other's way if one was started from Lua, or while another one was  *)
(* suspended; and flyield() is reached under a synchronous AS3 caller in   *)
(* code that took over the mode of an outer call, a callback or a          *)
(* metamethod.                                                             *)
OneAsyncCallIsSafe ==
  /\ halt = "crossed" =>
       \/ \E i \in 1..Len(entries) :
            /\ entries[i].own # frames[i].own
            /\ frames[i].kind \notin {"host", "flyield"}
       \/ \E s, t \in Async : s # t /\ Running(s) /\ Running(t)
  /\ halt = "misyield" /\ as3Global = "ours" =>
       \E i \in 1..Len(entries) :
         entries[i].async /\ entries[i].kind \in {"callback", "setGlobal"}

(* HISTORY: do*Async() cannot be called from Lua, so that no call returns  *)
(* into a frame another one left suspended above it.                       *)
NeverCrossed == halt # "crossed"

(* While the program goes on, AS3 gets back every frame it was given:      *)
(* slots above its arguments are gone when AS3 code resumes.               *)
AtRest ==
  AS3Runs => Len(Top) = Height(frames[Len(frames)])
=============================================================================
