--------------------------- MODULE LuaAlchemyLife ---------------------------
(***************************************************************************)
(* The life of the lua_States of one object of class LuaAlchemy            *)
(* (LuaAlchemy.as): init(), close(), and the calls that initialize on      *)
(* demand, made by Flash and by AS3 code that a script or a handler of     *)
(* as3.onclose() calls.                                                    *)
(*                                                                         *)
(* stack holds what is in progress, innermost last; the frame on top runs  *)
(* and may call AS3.  Memory of a closed lua_State is freed: the program   *)
(* is lost when a frame of a closed state runs.                            *)
(***************************************************************************)
EXTENDS Integers, Sequences

CONSTANTS
  MaxStates,       \* bound: lua_States ever made
  MaxDepth         \* bound: frames in progress

ASSUME ConstantsAssumption == {MaxStates, MaxDepth} \subseteq Nat

VARIABLES
  luaState,    \* the state the object holds; 0 for none
  states,      \* every lua_State made: its sugar, and where it is
  stack,       \* frames in progress
  suspended,   \* states with an asynchronous call waiting in flyield()
  late,        \* states that had a call suspended while they were closed
  asked,       \* the loadSugar last asked for
  misclosed,   \* a state was closed by code that Lua called, or with a
               \* call suspended
  lost         \* a frame of a closed state ran

vars == <<luaState, states, stack, suspended, late, asked, misclosed, lost>>

Ids == 1..Len(states)
Alive(s) == states[s].at # "closed"

(* The state after the constructor succeeded. *)
Init ==
  /\ luaState = 1
  /\ asked \in BOOLEAN
  /\ states = <<[sugar |-> asked, at |-> "open"]>>
  /\ stack = <<>>
  /\ suspended = {}
  /\ late = {}
  /\ misclosed = FALSE
  /\ lost = FALSE

----------------------------------------------------------------------------

Frame(kind, s) == [kind |-> kind, state |-> s, sugar |-> FALSE]
Top == stack[Len(stack)]
Pop == SubSeq(stack, 1, Len(stack) - 1)

(* The frame on top can go on, and AS3 code it calls, or Flash, may call   *)
(* the object.  A frame of kind "init" is init() itself.                   *)
TopRuns  == ~lost /\ (stack # <<>> => Top.kind # "init" /\ Alive(Top.state))
MayCall  == TopRuns /\ Len(stack) < MaxDepth

(* init() from luaInitializeState() on.                                    *)
Make(sugar) ==
  /\ Len(states) < MaxStates
  /\ states' = Append(states, [sugar |-> sugar, at |-> "open"])
  /\ luaState' = Len(states) + 1

(* lua_alchemy.lua fails: close() and an error.                            *)
MakeFails ==
  /\ Len(states) < MaxStates
  /\ states' = Append(states, [sugar |-> TRUE, at |-> "closed"])
  /\ luaState' = 0

(* luaClose() of the state held; handlers of as3.onclose() run next.       *)
BeginClose ==
  /\ states' = [states EXCEPT ![luaState].at = "closing"]
  /\ misclosed' = (misclosed \/ stack # <<>> \/ suspended # {})
  /\ UNCHANGED <<luaState, suspended, late, lost>>

(* Mutant: no state is closed all the same. *)
closeUnguarded ==
  /\ MayCall
  /\ BeginClose
  /\ stack' = Append(stack, Frame("close", luaState))
  /\ UNCHANGED asked
close ==
  /\ MayCall /\ luaState # 0
  /\ BeginClose
  /\ stack' = Append(stack, Frame("close", luaState))
  /\ UNCHANGED asked

(* Mutant: a state that is there is not closed. *)
initNoClose(sugar) ==
  /\ MayCall
  /\ asked' = sugar
  /\ Make(sugar)
  /\ UNCHANGED <<stack, suspended, late, misclosed, lost>>
init(sugar) ==
  /\ MayCall
  /\ asked' = sugar
  /\ IF luaState # 0
     THEN /\ Len(stack) + 1 < MaxDepth
          /\ BeginClose
          /\ stack' = stack \o
               << [Frame("init", 0) EXCEPT !.sugar = sugar],
                  Frame("close", luaState) >>
     ELSE /\ Make(sugar) \/ (sugar /\ MakeFails)
          /\ UNCHANGED <<stack, suspended, late, misclosed, lost>>

(* The handlers are done: the memory goes, and close() forgets the state.  *)
(* Mutant: the object keeps the state. *)
CloseEndsKeeps ==
  /\ TopRuns /\ stack # <<>> /\ Top.kind = "close"
  /\ states' = [states EXCEPT ![Top.state].at = "closed"]
  /\ stack' = Pop
  /\ UNCHANGED <<luaState, suspended, late, asked, misclosed, lost>>
CloseEnds ==
  /\ TopRuns /\ stack # <<>> /\ Top.kind = "close"
  /\ states' = [states EXCEPT ![Top.state].at = "closed"]
  /\ luaState' = 0
  /\ stack' = Pop
  /\ UNCHANGED <<suspended, late, asked, misclosed, lost>>

(* Mutant: what was asked for is forgotten over the close. *)
InitGoesOnBare ==
  /\ ~lost /\ stack # <<>> /\ Top.kind = "init"
  /\ Make(FALSE)
  /\ stack' = Pop
  /\ UNCHANGED <<suspended, late, asked, misclosed, lost>>
InitGoesOn ==
  /\ ~lost /\ stack # <<>> /\ Top.kind = "init"
  /\ Make(Top.sugar) \/ (Top.sugar /\ MakeFails)
  /\ stack' = Pop
  /\ UNCHANGED <<suspended, late, asked, misclosed, lost>>

(* doFile(), doString(), callGlobal(), setGlobal() ("call") and do*Async() *)
(* ("async") run Lua in the state held, made on demand.                    *)
Run(kind) ==
  /\ MayCall
  /\ IF luaState # 0
     THEN /\ stack' = Append(stack, Frame(kind, luaState))
          /\ UNCHANGED <<luaState, states>>
     ELSE \/ /\ Make(TRUE)
             /\ stack' = Append(stack, Frame(kind, Len(states) + 1))
          \/ MakeFails /\ UNCHANGED stack
  /\ UNCHANGED <<suspended, late, asked, misclosed, lost>>

(* Lua, called by Flash or by AS3, is done. *)
Return ==
  /\ TopRuns /\ stack # <<>> /\ Top.kind \in {"call", "async"}
  /\ stack' = Pop
  /\ UNCHANGED <<luaState, states, suspended, late, asked, misclosed, lost>>

(* as3.flyield() in an asynchronous call, and the timer tick after it: no  *)
(* other code of Flash is in progress.                                     *)
Yield ==
  /\ TopRuns /\ stack # <<>> /\ Top.kind = "async"
  /\ stack' = Pop
  /\ suspended' = suspended \cup {Top.state}
  /\ late' = IF states[Top.state].at = "closing"
             THEN late \cup {Top.state} ELSE late
  /\ UNCHANGED <<luaState, states, asked, misclosed, lost>>

Resume(s) ==
  /\ ~lost /\ stack = <<>> /\ s \in suspended
  /\ stack' = << Frame("async", s) >>
  /\ suspended' = suspended \ {s}
  /\ UNCHANGED <<luaState, states, late, asked, misclosed, lost>>

(* C code goes on with a lua_State that was freed. *)
UsesFreed ==
  /\ ~lost /\ stack # <<>> /\ Top.kind # "init" /\ ~Alive(Top.state)
  /\ lost' = TRUE
  /\ UNCHANGED <<luaState, states, stack, suspended, late, asked, misclosed>>

Next ==
  \/ \E sugar \in BOOLEAN : init(sugar)
  \/ close \/ CloseEnds \/ InitGoesOn
  \/ Run("call") \/ Run("async") \/ Return \/ Yield
  \/ \E s \in suspended : Resume(s)
  \/ UsesFreed

Spec == Init /\ [][Next]_vars

----------------------------------------------------------------------------
(* Properties.                                                             *)

State  == [sugar : BOOLEAN, at : {"open", "closing", "closed"}]
Frames == [kind : {"call", "async", "close", "init"}, state : Nat,
           sugar : BOOLEAN]

(* The variables stay in their types, and every frame but one of init()    *)
(* belongs to a lua_State that was made.                                   *)
TypeOK ==
  /\ luaState \in 0..Len(states)
  /\ states \in Seq(State)
  /\ stack \in Seq(Frames)
  /\ \A i \in 1..Len(stack) :
       IF stack[i].kind = "init" THEN stack[i].state = 0
                                 ELSE stack[i].state \in Ids
  /\ suspended \subseteq Ids /\ late \subseteq Ids
  /\ {asked, misclosed, lost} \subseteq BOOLEAN

(* The object holds the one state that is not closed yet, whatever calls   *)
(* whatever: none is lost track of, and none is held that is freed.        *)
HoldsTheLivingOne == \A s \in Ids : Alive(s) <=> s = luaState

(* Freed memory is used only after a close from code that Lua called, or   *)
(* over a suspended call, or by a call that a handler of as3.onclose()     *)
(* started asynchronously and that was suspended while the state was being *)
(* closed.                                                                 *)
LostOnlyIf == lost => misclosed \/ Top.state \in late

(* LuaAlchemy.as: an asynchronous call calls its callback when it is done; *)
(* it can be done only while its state is there.                           *)
SuspendedSurvive == \A s \in suspended : Alive(s)

(* The state in use has the sugar whenever the last init() asked for it,   *)
(* also an init() that had to close a state first.                         *)
SugarWhenAsked ==
  asked => \A s \in Ids : states[s].at = "open" => states[s].sugar

(* The implementation of OneInterpreter.                                   *)
Current == IF \E s \in Ids : Alive(s) THEN CHOOSE s \in Ids : Alive(s) ELSE 0

Abstract == INSTANCE OneInterpreter
            WITH current <- Current, count <- Len(states)

(* Interpreters are made one after the other, each when the last is gone.  *)
ImplementsOneInterpreter == Abstract!Spec
=============================================================================
