------------------------------- MODULE LuaGC -------------------------------
(***************************************************************************)
(* The incremental collector of the Lua the library runs on (lgc.c, with   *)
(* lfunc.c, lstring.c and lstate.c): three colours, two whites, barriers,  *)
(* open upvalues, weak tables and userdata with finalizers, while scripts  *)
(* go on changing the heap between two steps of the collector.             *)
(*                                                                         *)
(* The two white bits are named by what they mean now: "white" is          *)
(* luaC_white(g), "dead" is otherwhite(g).  Nothing is "dead" while        *)
(* marking; atomic() flips the whites, so what is still white becomes      *)
(* "dead".  Lists whose order decides nothing are sets; a loop over one is *)
(* the least set it reaches.  A table holds one entry, a stack one slot, a *)
(* closure one upvalue, and an object that is not allocated has the        *)
(* contents of a new one.                                                  *)
(***************************************************************************)
EXTENDS Naturals, Sequences, FiniteSets, SequencesExt

CONSTANTS
  Tables, Udata, Closures, Upvals, Strings, Threads,
  Finalizable,    \* the userdata whose metatable has a __gc
  Registry,       \* the table of the registry and of the globals
  MainThread,
  Nil,            \* any value the collector does not see
  Pools,          \* bound: the objects one behaviour may allocate
  Watched         \* bound: one object of each pool, followed to its end

Leafs   == Udata \cup Upvals \cup Strings
Queued  == Tables \cup Closures \cup Threads
Objects == Leafs \cup Queued
Roots   == {Registry, MainThread}
Ref     == Objects \cup {Nil}

ASSUME HeapAssumption ==
  /\ Registry \in Tables /\ MainThread \in Threads /\ Nil \notin Objects
  /\ Queued \cap Leafs = {} /\ Tables \cap (Closures \cup Threads) = {}
  /\ Closures \cap Threads = {}
  /\ Udata \cap (Upvals \cup Strings) = {} /\ Upvals \cap Strings = {}
  /\ Finalizable \subseteq Udata
  /\ Pools \subseteq SUBSET (Objects \ Roots)

VARIABLES
  pool,       \* the objects of this behaviour
  live,       \* allocated and not freed
  color,      \* "white", "dead", "gray" or "black"
  gray, grayagain, weak,          \* the lists of the mark phase
  gcstate,    \* "pause", "propagate", "sweepstring", "sweep", "finalize"
  unswept,    \* what the sweep has still to visit
  udlist,     \* userdata after the main thread, newest first
  tmudata,    \* userdata that wait for their finalizer, first one first
  finalized,  \* the userdata with FINALIZEDBIT
  full,       \* luaC_fullgc(): "no", "sweep" before and "mark" after markroot
  running,    \* the thread that runs
  stack,      \* what the slot of each thread holds
  entry, mode,        \* of a table
  env,                \* of a userdata
  captures,           \* the upvalue of a closure
  location, closedval \* of an upvalue: the thread whose slot it is, Nil
                      \* once closed, and the value it has then

lists   == <<gray, grayagain, weak>>
cycle   == <<gcstate, unswept, udlist, tmudata, finalized, full>>
content == <<mode, env, captures, location, closedval>>
heap    == <<pool, live, color, lists, cycle, running, stack, entry, content>>

Empty == [key |-> Nil, val |-> Nil]

GcInit ==
  /\ pool \in Pools
  /\ live = Roots
  /\ color = [o \in Objects |-> "white"]
  /\ gray = {} /\ grayagain = {} /\ weak = {}
  /\ gcstate = "pause" /\ unswept = {} /\ full = "no"
  /\ udlist = <<>> /\ tmudata = <<>> /\ finalized = {}
  /\ running = MainThread
  /\ stack = [t \in Threads |-> Nil]
  /\ entry = [t \in Tables |-> Empty] /\ mode = [t \in Tables |-> {}]
  /\ env = [u \in Udata |-> Registry]
  /\ captures = [c \in Closures |-> Nil]
  /\ location = [v \in Upvals |-> Nil]
  /\ closedval = [v \in Upvals |-> Nil]

----------------------------------------------------------------------------
(* What an object refers to.                                               *)

Open(v)    == location[v] # Nil
ValueOf(v) == IF Open(v) THEN stack[location[v]] ELSE closedval[v]
OpenOf(t)  == {v \in Upvals \cap live : Open(v) /\ location[v] = t}
OpenUpvals == UNION {OpenOf(t) : t \in Threads}
Weak(t)    == mode[t] # {}

(* traversetable(), traverseclosure(), traversestack(), and the cases of   *)
(* reallymarkobject() that mark through an object at once.                 *)
Children(o) ==
  (CASE o \in Tables   -> {entry[o].key : k \in {"k"} \ mode[o]}
                          \cup {entry[o].val : k \in {"v"} \ mode[o]}
     [] o \in Closures -> {captures[o], Registry}
     [] o \in Threads  -> {stack[o], Registry}
     [] o \in Udata    -> {env[o]}
     [] o \in Upvals   -> {ValueOf(o)}
     [] OTHER          -> {}) \ {Nil}

(* What is found from `base` inside `among`, going on through `through`.   *)
Reach(base, among, through) ==
  LET Complete(S) == /\ base \cap among \subseteq S
                     /\ \A o \in S \cap through :
                          Children(o) \cap among \subseteq S
      All == {S \in SUBSET among : Complete(S)}
  IN  {o \in among : \A S \in All : o \in S}

Reachable == Reach(Roots \cup {running}, live, live)

----------------------------------------------------------------------------
(* Marking, on the colours and the three lists.                            *)

marks == [color |-> color, gray |-> gray, again |-> grayagain, weak |-> weak]
SetMarks(m) == /\ color' = m.color /\ gray' = m.gray
               /\ grayagain' = m.again /\ weak' = m.weak

Paint(m, S, c) ==
  [m EXCEPT !.color = [o \in Objects |-> IF o \in S THEN c ELSE m.color[o]]]
WhiteIn(m) == {o \in pool \cup Roots : m.color[o] \in {"white", "dead"}}

(* The colour of an object that has been traversed: weak tables, threads   *)
(* and open upvalues stay gray, and so do strings.                         *)
StaysGray == {t \in Tables : Weak(t)} \cup Threads \cup OpenUpvals \cup Strings
Traversed(m, S) ==
  LET p == Paint(Paint(m, S \cap StaysGray, "gray"), S \ StaysGray, "black")
  IN  [p EXCEPT !.again = @ \cup (S \cap Threads),
                !.weak  = @ \cup (S \cap {t \in Tables : Weak(t)})]

(* reallymarkobject() of what is white in `base`.                          *)
Mark(m, base) ==
  LET S == Reach(base, WhiteIn(m), Leafs)
  IN  [Traversed(Paint(m, S \cap Queued, "gray"), S \cap Leafs)
         EXCEPT !.gray = @ \cup (S \cap Queued)]

PropagateMark(m, o) ==
  Mark(Traversed([m EXCEPT !.gray = @ \ {o}], {o}), Children(o))

PropagateAll(m) ==
  LET S == Reach(UNION {Children(o) : o \in m.gray}, WhiteIn(m), Objects)
  IN  Traversed([m EXCEPT !.gray = {}], m.gray \cup S)

----------------------------------------------------------------------------
(* The collector.                                                          *)

(* What is left of the list s without the objects outside S. *)
Only(s, S) ==
  LET F[i \in 0..Len(s)] ==
        IF i = 0 THEN <<>>
        ELSE IF s[i] \in S THEN Append(F[i-1], s[i]) ELSE F[i-1]
  IN  F[Len(s)]

Fresh(m) == [m EXCEPT !.gray = {}, !.again = {}, !.weak = {}]

markroot ==
  /\ SetMarks(Mark(Fresh(marks), Roots))
  /\ gcstate' = "propagate"

StartCycle ==
  /\ gcstate = "pause" /\ full = "no"
  /\ markroot
  /\ UNCHANGED <<pool, live, unswept, udlist, tmudata, finalized, full,
                 running, stack, entry, content>>

Propagate ==
  /\ gcstate = "propagate"
  /\ \E o \in gray : SetMarks(PropagateMark(marks, o))
  /\ UNCHANGED <<pool, live, cycle, running, stack, entry, content>>

(* iscleared(): strings are values, and a userdata that is being finalized *)
(* is kept as a key and not as a value.                                    *)
IsCleared(m, x, fin, isKey) ==
  /\ x \in Objects \ Strings
  /\ \/ m.color[x] \in {"white", "dead"}
     \/ ~isKey /\ x \in fin

Cleared(m, fin) ==
  {t \in m.weak : \/ IsCleared(m, entry[t].key, fin, TRUE)
                  \/ IsCleared(m, entry[t].val, fin, FALSE)}

(* The strings cleartable() marks: a key always, a value when the key      *)
(* stays.                                                                  *)
StringsKept(m, fin) ==
  Strings \cap ({entry[t].key : t \in m.weak}
    \cup {entry[t].val : t \in {u \in m.weak :
                            ~IsCleared(m, entry[u].key, fin, TRUE)}})

(* remarkupvals(), the weak tables, the running thread, what the barriers  *)
(* caught, and then what only finalizers will use.                         *)
MarkedAgain ==
  LET open == {ValueOf(v) : v \in {u \in OpenUpvals : color[u] = "gray"}}
      m1   == PropagateAll(Mark(marks, open))
      m2   == PropagateAll(Mark([m1 EXCEPT !.gray = m1.weak, !.weak = {}],
                                {running}))
  IN  PropagateAll([m2 EXCEPT !.gray = m2.again, !.again = {}])

(* luaC_separateudata(): every white userdata is finalized from now on,    *)
(* those with a __gc go to the end of tmudata.                             *)
(* Mutant: userdata that had its finalizer is separated again. *)
DeadUdataAgain(m) == WhiteIn(m) \cap ToSet(udlist)
DeadUdata(m) == (WhiteIn(m) \cap ToSet(udlist)) \ finalized
(* Mutant: finalizers are chosen before the weak tables, the running thread *)
(* and what the barriers caught are marked. *)
ToFinalizeEarly(m) ==
  Only(udlist, DeadUdata(marks) \cap Finalizable)
ToFinalize(m) == Only(udlist, DeadUdata(m) \cap Finalizable)

atomic ==
  LET m3  == MarkedAgain
      tm  == tmudata \o ToFinalize(m3)
      fin == finalized \cup DeadUdata(m3)
      m4  == PropagateAll(Mark(Paint(m3, ToSet(tm), "white"), ToSet(tm)))
      m5  == Paint(m4, StringsKept(m4, fin) \cap live, "gray")
  IN  /\ tmudata' = tm /\ finalized' = fin
      /\ udlist' = Only(udlist, Udata \ ToSet(tm))
      /\ entry' = [t \in Tables |-> IF t \in Cleared(m4, fin)
                                    THEN Empty ELSE entry[t]]
      /\ SetMarks(Paint(m5, {o \in live : m5.color[o] = "white"}, "dead"))
      /\ unswept' = live \ ToSet(tm)
      /\ gcstate' = "sweepstring"

Atomic ==
  /\ gcstate = "propagate" /\ gray = {}
  /\ atomic
  /\ UNCHANGED <<pool, live, full, running, stack, content>>

(* freeobj() of everything in S, and the end of the open upvalues that a   *)
(* thread in S leaves: luaE_freethread() closes those that survive.        *)
Free(S) ==
  LET orphans == (UNION {OpenOf(t) : t \in S \cap Threads}) \ S
  IN  /\ live' = live \ S
      /\ stack' = [t \in Threads |-> IF t \in S THEN Nil ELSE stack[t]]
      /\ entry' = [t \in Tables |-> IF t \in S THEN Empty ELSE entry[t]]
      /\ mode' = [t \in Tables |-> IF t \in S THEN {} ELSE mode[t]]
      /\ env' = [u \in Udata |-> IF u \in S THEN Registry ELSE env[u]]
      /\ captures' = [c \in Closures |-> IF c \in S THEN Nil ELSE captures[c]]
      /\ location' = [v \in Upvals |-> IF v \in S \cup orphans
                                       THEN Nil ELSE location[v]]
      /\ closedval' = [v \in Upvals |-> CASE v \in S       -> Nil
                                          [] v \in orphans -> ValueOf(v)
                                          [] OTHER         -> closedval[v]]
      /\ udlist' = Only(udlist, Udata \ S)
      /\ finalized' = finalized \ S

(* sweeplist() of S: the dead go, the others are white for the next cycle. *)
Sweep(S) ==
  LET dead == {o \in S : color[o] = "dead"}
  IN  /\ Free(dead)
      /\ color' = [o \in Objects |-> IF o \in S THEN "white" ELSE color[o]]
      /\ unswept' = unswept \ S
(* Mutant: a thread is swept without its open upvalues. *)
SweepAlone(o) == {o}
SweepSet(o) == {o} \cup IF o \in Threads THEN OpenOf(o) ELSE {}

SweepStrings ==
  /\ gcstate = "sweepstring"
  /\ \/ /\ \E s \in unswept \cap Strings : Sweep({s})
        /\ UNCHANGED gcstate
     \/ /\ unswept \cap Strings = {} /\ gcstate' = "sweep"
        /\ UNCHANGED <<live, color, unswept, udlist, finalized, stack, entry,
                       content>>
  /\ UNCHANGED <<pool, lists, tmudata, full, running>>

(* The list of objects, newest first, ends with the registry, the main     *)
(* thread and the userdata.  A step sweeps up to GCSWEEPMAX objects: here  *)
(* one, or the roots.                                                      *)
NextSwept ==
  LET young == unswept \ (Roots \cup Udata \cup OpenUpvals)
  IN  IF young # {} THEN {SweepSet(o) : o \in young}
      ELSE IF Roots \subseteq unswept THEN {Roots \cup OpenOf(MainThread)}
      ELSE {{u} : u \in unswept \cap Udata}

SweepOne ==
  /\ gcstate = "sweep"
  /\ \/ /\ \E S \in NextSwept : Sweep(S)
        /\ UNCHANGED gcstate
     \/ /\ unswept \subseteq OpenUpvals /\ gcstate' = "finalize"
        /\ UNCHANGED <<live, color, unswept, udlist, finalized, stack, entry,
                       content>>
  /\ UNCHANGED <<pool, lists, tmudata, full, running>>

(* An assignment to a table goes through luaC_barriert(): a black table    *)
(* that gets a white object is gray again and waits for atomic().          *)
BarrierT(m, t, S) ==
  IF m.color[t] = "black" /\ S \cap WhiteIn(m) # {}
  THEN [Paint(m, {t}, "gray") EXCEPT !.again = @ \cup {t}]
  ELSE m

(* luaC_barrierf(): the other objects mark what they get, or are white     *)
(* early once marking is over.                                             *)
Barrier(m, o, x) ==
  IF m.color[o] = "black" /\ x \in WhiteIn(m)
  THEN IF gcstate = "propagate" THEN Mark(m, {x}) ELSE Paint(m, {o}, "white")
  ELSE m

Assign(t, k, v) ==
  /\ SetMarks(BarrierT(marks, t, IF v = Nil THEN {} ELSE {k, v}))
  /\ entry' = [entry EXCEPT ![t] = IF v = Nil THEN Empty
                                   ELSE [key |-> k, val |-> v]]

(* GCTM(): the first userdata of tmudata is an ordinary one again, and its *)
(* method may keep it in the globals.                                      *)
(* Mutant: the userdata keeps the mark it waited with. *)
ReleasedBlack(u) == marks
Released(u) == Paint(marks, {u}, "white")

GCTM ==
  LET u == Head(tmudata)
  IN  /\ tmudata # <<>>
      /\ tmudata' = Tail(tmudata) /\ udlist' = <<u>> \o udlist
      /\ \/ SetMarks(Released(u)) /\ UNCHANGED entry
         \/ /\ u \in Finalizable
            /\ SetMarks(BarrierT(Released(u), Registry, {u}))
            /\ entry' = [entry EXCEPT ![Registry] = [key |-> Nil, val |-> u]]

Finalize ==
  /\ gcstate = "finalize" /\ full # "sweep"
  /\ \/ GCTM /\ UNCHANGED <<gcstate, full>>
     \/ /\ tmudata = <<>> /\ gcstate' = "pause" /\ full' = "no"
        /\ UNCHANGED <<color, lists, udlist, tmudata, entry>>
  /\ UNCHANGED <<pool, live, unswept, finalized, running, stack, content>>

(* luaC_fullgc(): a mark phase that has begun is given up and its colours  *)
(* are swept, then a whole cycle runs before the script goes on.           *)
FullGC ==
  /\ full = "no" /\ full' = "sweep"
  /\ IF gcstate \in {"pause", "propagate"}
     THEN /\ SetMarks(Fresh(marks))
          /\ gcstate' = "sweepstring"
          /\ unswept' = live \ ToSet(tmudata)
     ELSE UNCHANGED <<color, lists, gcstate, unswept>>
  /\ UNCHANGED <<pool, live, udlist, tmudata, finalized, running, stack,
                 entry, content>>

FullGCMarks ==
  /\ full = "sweep" /\ gcstate = "finalize" /\ full' = "mark"
  /\ markroot
  /\ UNCHANGED <<pool, live, unswept, udlist, tmudata, finalized, running,
                 stack, entry, content>>

Collector == \/ StartCycle \/ Propagate \/ Atomic \/ SweepStrings
             \/ SweepOne \/ Finalize \/ FullGCMarks

----------------------------------------------------------------------------
(* The script: one instruction of the thread that runs.                    *)

ScriptRuns == full = "no" /\ UNCHANGED <<pool, cycle>>
Here       == {Nil, stack[running], entry[Registry].val}
Usable(S)  == S \cap Here
Put(t, x)  == stack' = [stack EXCEPT ![t] = x]

(* luaC_link(), luaH_new(), luaE_newthread(), luaS_newudata(), and         *)
(* luaS_newlstr(), which also finds a string again that was to be freed.   *)
Create(o) ==
  /\ full = "no"
  /\ o \in pool \ (Closures \cup Upvals)
  /\ o \in Strings \/ o \notin live
  /\ live' = live \cup {o}
  /\ color' = [color EXCEPT ![o] = IF @ = "dead" THEN "white" ELSE @]
  /\ udlist' = IF o \in Udata THEN <<o>> \o udlist ELSE udlist
  /\ Put(running, o)
  /\ UNCHANGED <<pool, lists, gcstate, unswept, tmudata, finalized, full,
                 running, entry, content>>

(* OP_CLOSURE with luaF_findupval(): the open upvalue of a slot is shared, *)
(* and saved when the sweep was to free it.  The closure becomes a global. *)
(* Mutant: the upvalue that is found stays dead. *)
FoundDead(v) == marks
Found(v) == IF color[v] = "dead" THEN Paint(marks, {v}, "white") ELSE marks

Closure(c, v) ==
  /\ ScriptRuns
  /\ c \in pool \cap (Closures \ live)
  /\ v \in pool \cap Upvals
  /\ IF \E u \in live \cap Upvals : location[u] = running
     THEN v \in live /\ location[v] = running
     ELSE v \notin live
  /\ live' = live \cup {c, v}
  /\ captures' = [captures EXCEPT ![c] = v]
  /\ location' = [location EXCEPT ![v] = running]
  /\ SetMarks(BarrierT(Found(v), Registry, {c}))
  /\ entry' = [entry EXCEPT ![Registry] = [key |-> Nil, val |-> c]]
  /\ UNCHANGED <<running, stack, mode, env, closedval>>

Drop ==
  /\ ScriptRuns /\ stack[running] # Nil /\ Put(running, Nil)
  /\ UNCHANGED <<live, color, lists, running, entry, content>>

SetTable(t, k, v) ==
  /\ ScriptRuns /\ t \in Usable(Tables) \cup {Registry}
  /\ t = Registry => k = Nil
  /\ Assign(t, k, v)
  /\ UNCHANGED <<live, running, stack, content>>

(* luaV_gettable(), and luaH_next() for the key.                           *)
GetTable(t) ==
  /\ ScriptRuns /\ t \in Usable(Tables) \cup {Registry}
  /\ entry[t] # Empty
  /\ \E x \in {entry[t].key, entry[t].val} : Put(running, x)
  /\ UNCHANGED <<live, color, lists, running, entry, content>>

SetMode(t, md) ==
  /\ ScriptRuns /\ t \in Usable(Tables) \ {Registry} /\ mode[t] # md
  /\ mode' = [mode EXCEPT ![t] = md]
  /\ UNCHANGED <<live, color, lists, running, stack, entry, env, captures,
                 location, closedval>>

(* lua_setfenv() of a userdata.                                            *)
SetEnv(u, t) ==
  /\ ScriptRuns /\ u \in Usable(Udata) /\ t \in Usable(Tables) \ {Registry}
  /\ env' = [env EXCEPT ![u] = t]
  /\ SetMarks(Barrier(marks, u, t))
  /\ UNCHANGED <<live, running, stack, entry, mode, captures, location,
                 closedval>>

GetUpval(c) ==
  /\ ScriptRuns /\ c \in Usable(Closures)
  /\ Put(running, ValueOf(captures[c]))
  /\ UNCHANGED <<live, color, lists, running, entry, content>>

SetUpval(c, x) ==
  LET v == captures[c]
  IN  /\ ScriptRuns /\ c \in Usable(Closures)
      /\ IF Open(v)
         THEN Put(location[v], x) /\ UNCHANGED closedval
         ELSE closedval' = [closedval EXCEPT ![v] = x] /\ UNCHANGED stack
      /\ SetMarks(Barrier(marks, v, x))
      /\ UNCHANGED <<live, running, entry, mode, env, captures, location>>

(* luaF_close(): a dead upvalue is freed, another takes its value with it  *)
(* and luaC_linkupval() gives it the colour of a closed one.               *)
(* Mutant: the value of an upvalue closed while marking is not marked. *)
LinkUpvalNone(m, v) ==
  IF m.color[v] # "gray" THEN m
  ELSE IF gcstate = "propagate" THEN Paint(m, {v}, "black")
  ELSE Paint(m, {v}, "white")
LinkUpval(m, v) ==
  IF m.color[v] # "gray" THEN m
  ELSE IF gcstate = "propagate"
       THEN Barrier(Paint(m, {v}, "black"), v, ValueOf(v))
  ELSE Paint(m, {v}, "white")

Close(v) ==
  /\ full = "no" /\ v \in OpenOf(running)
  /\ IF color[v] = "dead"
     THEN Sweep({v}) /\ UNCHANGED lists
     ELSE /\ location' = [location EXCEPT ![v] = Nil]
          /\ closedval' = [closedval EXCEPT ![v] = ValueOf(v)]
          /\ unswept' = unswept \ {v}
          /\ SetMarks(LinkUpval(marks, v))
          /\ UNCHANGED <<live, udlist, finalized, stack, entry, mode, env,
                         captures>>
  /\ UNCHANGED <<pool, gcstate, tmudata, full, running>>

Switch(t) ==
  /\ ScriptRuns
  /\ IF running = MainThread THEN t \in Usable(Threads) \ {MainThread}
     ELSE t = MainThread
  /\ running' = t
  /\ UNCHANGED <<live, color, lists, stack, entry, content>>

Script ==
  \/ \E o \in pool : Create(o)
  \/ \E c \in pool, v \in pool : Closure(c, v)
  \/ Drop
  \/ \E t \in Tables, k \in Here, v \in Here : SetTable(t, k, v)
  \/ \E t \in Tables : GetTable(t)
  \/ \E t \in Tables, md \in SUBSET {"k", "v"} : SetMode(t, md)
  \/ \E u \in Udata, t \in Tables : SetEnv(u, t)
  \/ \E c \in Closures : GetUpval(c)
  \/ \E c \in Closures, x \in Here : SetUpval(c, x)
  \/ \E v \in Upvals : Close(v)
  \/ \E t \in Threads : Switch(t)
  \/ FullGC

GcNext == Collector \/ Script

(* Scripts go on allocating, so the collector always takes another step: a *)
(* step is possible in every phase, which is why this is weak fairness.    *)
GcSpec == GcInit /\ [][GcNext]_heap /\ []<><<Collector>>_heap

----------------------------------------------------------------------------
(* Properties.                                                             *)

(* The collector's lists hold what their names say: only gray objects wait *)
(* to be traversed, only udata with FINALIZEDBIT wait for a finalizer, and *)
(* nothing is dead outside a sweep.                                        *)
GcTypeOK ==
  /\ Roots \subseteq live /\ live \subseteq pool \cup Roots
  /\ color \in [Objects -> {"white", "dead", "gray", "black"}]
  /\ gcstate \in {"pause", "propagate", "sweepstring", "sweep", "finalize"}
  /\ gray \cup grayagain \cup weak \subseteq Queued \cap live
  /\ \A o \in gray : color[o] = "gray"
  /\ unswept \subseteq live
  /\ running \in Threads \cap live
  /\ ToSet(tmudata) \subseteq finalized /\ finalized \subseteq Udata \cap live
  /\ ToSet(udlist) \cup ToSet(tmudata) = Udata \cap live
  /\ \A o \in Objects : color[o] = "dead" =>
       o \in unswept /\ gcstate \in {"sweepstring", "sweep"}

(* No pointer dangles: whatever the thread that runs, the globals or a     *)
(* userdata that waits for its finalizer lead to, weak references          *)
(* included, is allocated, and nothing they hold strongly is about to be   *)
(* freed.                                                                  *)
NoDangling ==
  LET found == Reach(Roots \cup {running} \cup ToSet(tmudata), live, live)
  IN  /\ \A o \in found : Children(o) \subseteq live /\ color[o] # "dead"
      /\ \A t \in found \cap Tables :
           {entry[t].key, entry[t].val} \ {Nil} \subseteq live

(* The invariant of an incremental collector: while it marks, no black     *)
(* object refers to a white one; and as luaC_barrierf() and                *)
(* luaC_barrierback() assert, none is black between two cycles.  Userdata  *)
(* that waits for its finalizer since the cycle before stays black, and is *)
(* marked anew by marktmu().                                               *)
TriColor ==
  /\ gcstate = "propagate" =>
       \A o \in live \ ToSet(tmudata) : color[o] = "black" =>
         \A x \in Children(o) : color[x] \notin {"white", "dead"}
  /\ gcstate \in {"pause", "finalize"} =>
       \A o \in live : color[o] = "black" => o \in ToSet(tmudata)

(* A finalizer runs on userdata the program has lost, and once for each.   *)
(* What only userdata that waits for its own finalizer leads to is lost as *)
(* well, even if the program has found that userdata again as the key of a *)
(* weak table: left black by the cycle before, it is not traversed again   *)
(* until marktmu() has made it white.                                      *)
Known == Reach(Roots \cup {running}, live, live \ ToSet(tmudata))
FinalizeOnlyLost ==
  [][\A u \in ToSet(tmudata') \ ToSet(tmudata) :
       u \in Finalizable \ (Known \cup finalized)]_heap

(* What the program has lost is freed in the end, or a finalizer brings it *)
(* back.                                                                   *)
GarbageFreed == []<>(pool \cap Watched \cap live \subseteq Reachable)
=============================================================================
