----------------------------- MODULE LuaThreads -----------------------------
(***************************************************************************)
(* Calls, errors and coroutines (ldo.c, the coroutine functions and pcall()*)
(* of lbaselib.c): the C stack of one program, on which the C functions of *)
(* several Lua threads run, and what each lua_State knows of its part.     *)
(*                                                                         *)
(* An entry of the C stack is a run of luaV_execute() for n Lua functions, *)
(* a C function, a "try" (luaD_pcall()) or a "start" (lua_resume()).  Any  *)
(* function may call any other, return or raise.  Flash calls lua_pcall(). *)
(***************************************************************************)
EXTENDS Naturals, Sequences, FiniteSets, SequencesExt, FiniteSetsExt

CONSTANTS
  Main,        \* the main thread
  Co,          \* coroutines
  MaxCCalls,   \* LUAI_MAXCCALLS
  ExtraCCalls, \* LUAI_MAXCCALLS >> 3
  BasicCI,     \* BASIC_CI_SIZE
  MaxCalls     \* LUAI_MAXCALLS

Thread == Co \cup {Main}
CKinds == {"plain", "pcall", "xpcall", "resume", "wrap", "yield"}
Callee == CKinds \cup {"execute"}

ThreadsAssumption ==
  /\ Main \notin Co
  /\ {MaxCCalls, ExtraCCalls, BasicCI, MaxCalls} \subseteq Nat
  /\ MaxCCalls > 0 /\ BasicCI > 0 /\ MaxCalls > BasicCI

VARIABLE vm    \* the C stack, the threads, and whether an error is raised

NewThread ==
  [ci |-> 0, size |-> BasicCI, nCcalls |-> 0, baseCcalls |-> 0,
   status |-> "ok", errfunc |-> FALSE, fresh |-> TRUE]

(* called: by luaD_call(); n: Lua functions running, or steps a C function *)
(* has done; old: what luaD_pcall() puts back.                             *)
None == [ci |-> 0, nCcalls |-> 0, errfunc |-> FALSE]
Entry(th, is, called, n) ==
  [th |-> th, is |-> is, called |-> called, n |-> n, handles |-> FALSE,
   old |-> None]

ThreadsInit ==
  vm = [c |-> <<Entry(Main, "host", FALSE, 0)>>,
        th |-> [l \in Thread |-> NewThread], raise |-> FALSE]

Top(s)      == Last(s.c)
L(s)        == Top(s).th
Now(s)      == s.th[L(s)]
Push(s, e)  == [s EXCEPT !.c = Append(@, e)]
Upto(s, i)  == [s EXCEPT !.c = SubSeq(@, 1, i)]
Pop(s)      == Upto(s, Len(s.c) - 1)
Set(s, r)   == [s EXCEPT !.th[L(s)] = r]
Done(s)     == [s EXCEPT !.c[Len(s.c)].n = 1]
Raise(s)    == [s EXCEPT !.raise = TRUE]

----------------------------------------------------------------------------
(* Errors.                                                                 *)

(* restore_stack_limit()                                                   *)
Limited(r) ==
  IF r.size > MaxCalls /\ r.ci + 1 < MaxCalls THEN [r EXCEPT !.size = MaxCalls]
  ELSE r

(* What luaD_pcall() restores when an error was thrown.                    *)
(* Mutant: the count of C calls is not put back. *)
RestoredNot(r, old) ==
  Limited([r EXCEPT !.ci = old.ci, !.errfunc = old.errfunc])
Restored(r, old) ==
  Limited([r EXCEPT !.ci = old.ci, !.nCcalls = old.nCcalls,
             !.errfunc = old.errfunc])

(* luaD_throw(): to the last luaD_rawrunprotected() of the thread, and     *)
(* what follows there.  A coroutine that ends with an error stays as it    *)
(* is, and coroutine.wrap() raises the error again.                        *)
Died(r) == [r EXCEPT !.status = "error", !.nCcalls = @ - 1]
Throw(s) ==
  LET jmp == {i \in DOMAIN s.c : s.c[i].is \in {"try", "start"}
                                 /\ s.c[i].th = L(s)}
      i   == Max(jmp)
      cut == [Upto(s, i - 1) EXCEPT !.raise = FALSE]
  IN  IF jmp = {} THEN Upto(s, 0)                  \* panic and exit
      ELSE IF s.c[i].is = "try"
           THEN [cut EXCEPT !.th[L(s)] = Restored(@, s.c[i].old)]
           ELSE [cut EXCEPT !.th[L(s)] = Died(@),
                            !.raise = s.c[i - 1].is = "wrap"]

(* inc_ci() and growCI(): entry e is entered.                              *)
Enter(s, e) ==
  LET r == Now(s)
  IN  CASE r.ci + 1 < r.size ->
             Push(Set(s, [r EXCEPT !.ci = @ + 1]), e)
        [] r.ci + 1 >= r.size /\ r.size > MaxCalls -> Throw(s)
        [] OTHER ->
             LET grown == [r EXCEPT !.size = 2 * @]
             IN  IF grown.size > MaxCalls THEN Raise(Set(s, grown))
                 ELSE Push(Set(s, [grown EXCEPT !.ci = @ + 1]), e)

(* luaD_call()                                                             *)
luaD_call(s, e) ==
  LET more == Set(s, [Now(s) EXCEPT !.nCcalls = @ + 1])
      n    == Now(more).nCcalls
  IN  CASE n = MaxCCalls -> Raise(more)
        [] n # MaxCCalls /\ n >= MaxCCalls + ExtraCCalls -> Throw(more)
        [] OTHER -> Enter(more, [e EXCEPT !.called = TRUE])

(* luaG_errormsg(): the handler runs where the error is, then luaD_throw().*)
luaG_errormsg(s) ==
  LET calm == [s EXCEPT !.raise = FALSE]
  IN  IF Now(s).errfunc
      THEN luaD_call(calm, [Entry(L(s), "execute", TRUE, 1)
                              EXCEPT !.handles = TRUE])
      ELSE Throw(calm)

----------------------------------------------------------------------------
(* Calls.                                                                  *)

Calls(kind) == Entry(L(vm), kind, FALSE, IF kind = "execute" THEN 1 ELSE 0)
Runs(kinds) == vm.c # <<>> /\ ~vm.raise /\ Top(vm).is \in kinds

(* OP_CALL: a Lua function goes on in the same luaV_execute().             *)
LuaCalls(kind) ==
  /\ Runs({"execute"})
  /\ vm' = IF kind # "execute" THEN Enter(vm, Calls(kind))
           ELSE LET in == Enter(vm, Calls(kind))
                IN  IF Len(in.c) <= Len(vm.c) THEN in
                    ELSE [Pop(in) EXCEPT !.c[Len(vm.c)].n = @ + 1]

(* A metamethod, or lua_call() from a C function.                          *)
CallsBack(kind) ==
  /\ Runs({"execute", "plain"})
  /\ vm' = luaD_call(vm, Calls(kind))

(* lua_pcall() by pcall(), by xpcall() with a handler, or by Flash.        *)
Protect(kind) ==
  /\ Runs({"pcall", "xpcall", "host"}) /\ Top(vm).n = 0
  /\ LET r   == Now(vm)
         try == [Entry(L(vm), "try", FALSE, 0) EXCEPT !.old =
                   [ci |-> r.ci, nCcalls |-> r.nCcalls, errfunc |-> r.errfunc]]
         in  == Push(IF Top(vm).is = "host" THEN vm ELSE Done(vm), try)
     IN  vm' = luaD_call(Set(in, [r EXCEPT !.errfunc = Top(vm).is = "xpcall"]),
                         Calls(kind))

Raises == Runs({"execute", "plain"}) /\ vm' = Raise(vm)
Handle == vm.c # <<>> /\ vm.raise /\ vm' = luaG_errormsg(vm)

(* luaD_poscall() and the return to whoever called: luaD_call() counts     *)
(* down, a try ends well, a coroutine has ended, a handler's caller throws.*)
LeaveTop(s) ==
  LET e == Top(s)
  IN  Pop(Set(s, [Now(s) EXCEPT !.ci = @ - 1,
                    !.nCcalls = IF e.called THEN @ - 1 ELSE @]))
Ended(s) ==
  CASE Top(s).is = "try" ->
         Pop(Set(s, [Now(s) EXCEPT !.errfunc = Top(s).old.errfunc]))
    [] Top(s).is = "start" -> Pop(Set(s, [Now(s) EXCEPT !.nCcalls = @ - 1]))
    [] OTHER -> s
Return ==
  /\ \/ Runs({"execute", "plain"})
     \/ Runs({"pcall", "xpcall", "resume", "wrap"}) /\ Top(vm).n = 1
  /\ vm' = IF Top(vm).is = "execute" /\ Top(vm).n > 1
           THEN [Set(vm, [Now(vm) EXCEPT !.ci = @ - 1])
                   EXCEPT !.c[Len(vm.c)].n = @ - 1]
           ELSE IF Top(vm).handles
                THEN Throw([vm EXCEPT !.th = LeaveTop(vm).th])
                ELSE Ended(LeaveTop(vm))

----------------------------------------------------------------------------
(* Coroutines.                                                             *)

costatus(l, co) ==
  LET r == vm.th[co]
  IN  CASE l = co                                -> "running"
        [] l # co /\ r.status = "yield"          -> "suspended"
        [] l # co /\ r.status = "ok" /\ r.ci > 0 -> "normal"
        [] l # co /\ r.status = "ok" /\ r.ci = 0 ->
             IF r.fresh THEN "suspended" ELSE "dead"
        [] OTHER                                 -> "dead"

Refused(s) == IF Top(s).is = "wrap" THEN Raise(Done(s)) ELSE Done(s)

(* auxresume() and lua_resume().  The coroutine goes on counting C calls   *)
(* where its caller is (lua_setlevel()).  resume_error() empties the       *)
(* stack: a coroutine that had not started is dead then.                   *)
(* Mutant: every coroutine counts from zero. *)
LevelZero(r) == 0
Level(r) == r.nCcalls
Resume(co) ==
  /\ Runs({"resume", "wrap"}) /\ Top(vm).n = 0
  /\ LET r     == vm.th[co]
         n     == Level(Now(vm)) + 1
         ready == [r EXCEPT !.nCcalls = n, !.baseCcalls = n, !.fresh = FALSE]
         start == Entry(co, "start", FALSE, 0)
         runs  == Push([Done(vm) EXCEPT !.th[co] = ready], start)
     IN  vm' = CASE costatus(L(vm), co) # "suspended" -> Refused(vm)
                 [] costatus(L(vm), co) = "suspended" /\ n > MaxCCalls ->
                      Refused([vm EXCEPT !.th[co] =
                                 [@ EXCEPT !.nCcalls = n - 1, !.fresh = FALSE]])
                 [] OTHER ->
                      IF r.status = "ok"
                      THEN Enter(runs, Entry(co, "execute", FALSE, 1))
                      ELSE Push(Set(runs, [ready EXCEPT !.status = "ok",
                                                        !.ci = @ - 1]),
                                Entry(co, "execute", FALSE, r.ci - 1))

(* lua_yield(): its caller leaves luaV_execute(), and lua_resume() must be *)
(* what called that.                                                       *)
(* Mutant: a yield is not refused in a C call. *)
YieldRefusedNever(r) == FALSE
YieldRefused(r) == r.nCcalls > r.baseCcalls
Yield ==
  /\ Runs({"yield"})
  /\ LET n == Len(vm.c)
         r == Now(vm)
     IN  vm' = CASE YieldRefused(r) -> Raise(vm)
                 [] ~YieldRefused(r) /\ ~Top(vm).called
                      /\ vm.c[n - 2].is = "start" ->
                      Upto(Set(vm, [r EXCEPT !.status = "yield",
                                      !.nCcalls = @ - 1]), n - 3)
                 [] OTHER -> Upto(vm, 0)           \* the C stack is lost

ThreadsNext ==
  \/ \E kind \in Callee : LuaCalls(kind) \/ CallsBack(kind) \/ Protect(kind)
  \/ \E co \in Co : Resume(co)
  \/ Raises \/ Handle \/ Return \/ Yield

ThreadsSpec == ThreadsInit /\ [][ThreadsNext]_vm

----------------------------------------------------------------------------
(* Properties.                                                             *)

Of(co)      == {i \in DOMAIN vm.c : vm.c[i].th = co}
CCalls(S)   == {i \in S : vm.c[i].called}
Tries(S)    == {i \in S : vm.c[i].is = "try"}
Handlers    == {i \in DOMAIN vm.c : vm.c[i].handles}
Jumps       == {i \in DOMAIN vm.c : vm.c[i].is \in {"try", "start"}}
AtLimit     == {co \in Co : Of(co) # {} /\ vm.th[co].baseCcalls = MaxCCalls}
Frames(e)   == IF e.is \in {"try", "start", "host"} THEN 0
               ELSE IF e.is = "execute" THEN e.n ELSE 1
Running(S)  == UNION {{i} \X (1 .. Frames(vm.c[i])) : i \in S}

(* Whatever calls, errors, yields and resumes of several threads are mixed,*)
(* the C stack is never lost and what each thread knows of it is true: its *)
(* call frames, its C calls (more only while an overflow is handled), the  *)
(* handler of its innermost pcall, and its status.  An error goes to the   *)
(* innermost protected call of all.  All threads together never nest more  *)
(* C calls than the limit, and its reserve only under a handler or when    *)
(* lua_resume() has counted a coroutine up to the limit, which luaD_call() *)
(* then counts past without an error.                                      *)
CallsUnwind ==
  /\ vm.c # <<>>
  /\ Cardinality(CCalls(DOMAIN vm.c)) + Cardinality(Jumps \ Tries(Jumps))
       <= MaxCCalls + (IF Handlers = {} /\ AtLimit = {} THEN 0 ELSE ExtraCCalls)
  /\ Jumps # {} => vm.c[Max(Jumps)].th = L(vm)
  /\ \A co \in Thread : LET S == Of(co)  r == vm.th[co] IN S # {} =>
       /\ r.ci = Cardinality(Running(S))
       /\ r.nCcalls >= r.baseCcalls + Cardinality(CCalls(S))
       /\ S \cap Handlers = {} /\ ~vm.raise =>
            r.nCcalls = r.baseCcalls + Cardinality(CCalls(S))
       /\ r.errfunc = (Tries(S) # {} /\ vm.c[Max(Tries(S)) - 1].is = "xpcall")
  /\ \A co \in Co :
       /\ costatus(L(vm), co) = "normal" <=> Of(co) # {} /\ co # L(vm)
       /\ vm.th[co].fresh => costatus(L(vm), co) = "suspended"
=============================================================================
