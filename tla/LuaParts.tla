------------------------------ MODULE LuaParts ------------------------------
(***************************************************************************)
(* Parts of the Lua side that keep a state of their own and do not look    *)
(* into one another: the Lua code that comes with the bridge (Sugar,       *)
(* ToObject, FileLoads, StrictGlobals) and, of Lua 5.1, its tables, its    *)
(* calls and coroutines, its modules and its sort.  A behaviour is one of  *)
(* one part; the variables of the others stay idle, and all of them when   *)
(* `part` is none of these (LuaLibrary has more).                          *)
(***************************************************************************)
EXTENDS Integers, Sequences, FiniteSets

CONSTANTS
  AsObj, Number, Null, NotBoolean, Segments, Statics, New, Class, Colons,
  MaxPath,                                              \* Sugar
  MaxLoads, Builtin, Broken,                            \* FileLoads
  Table, Given, Field, Scalar, NaN, Unset,              \* ToObject
  Name, Before,                                         \* StrictGlobals
  Strings, MaxIndex, HashValues, Nil,                   \* LuaTable
  Main, Co, MaxCCalls, ExtraCCalls, BasicCI, MaxCalls,  \* LuaThreads
  Module, Loaders, MaxRuns, MaxNested,                  \* LuaModules
  Item, Nothing, Sorts                                  \* LuaSort

VARIABLES
  part,                                                 \* which one moves
  property, flag, getter, tolua, x, held, given, answer,
  loads, load_done, load_err, data, coming, waiting, overlap, early, raised,
  reply,
  called, fields, oddKey, frames, visited, object, outcome,
  present, declared, known, shared, strict, said, excused,
  hash, table, contents, walk,
  vm,
  loaded, chunks, runs, ended, touched, required,
  items, lt, cells, ranges, scan

sugar     == <<property, flag, getter, tolua, x, held, given, answer>>
files     == <<loads, load_done, load_err, data, coming, waiting, overlap,
               early, raised, reply>>
copying   == <<called, fields, oddKey, frames, visited, object, outcome>>
globals   == <<present, declared, known, shared, strict, said, excused>>
tables    == <<hash, table, contents, walk>>
modules   == <<loaded, chunks, runs, ended, touched, required>>
sorting   == <<items, lt, cells, ranges, scan>>

S == INSTANCE Sugar
F == INSTANCE FileLoads
O == INSTANCE ToObject
G == INSTANCE StrictGlobals
T == INSTANCE LuaTable
C == INSTANCE LuaThreads
M == INSTANCE LuaModules
Q == INSTANCE LuaSort

ASSUME PartsAssumption ==
  /\ S!SugarAssumption /\ F!FileAssumption /\ O!ToObjectAssumption
  /\ G!StrictAssumption /\ T!TableAssumption /\ C!ThreadsAssumption
  /\ M!ModulesAssumption /\ Q!SortAssumption

(* The value of a variable whose part does not move.                       *)
Idle(v) == v = 0

IdleSugar    == /\ Idle(property) /\ Idle(flag) /\ Idle(getter) /\ Idle(tolua)
                /\ Idle(x) /\ Idle(held) /\ Idle(given) /\ Idle(answer)
IdleFiles    == /\ Idle(loads) /\ Idle(load_done) /\ Idle(load_err)
                /\ Idle(data) /\ Idle(coming) /\ Idle(waiting)
                /\ Idle(overlap) /\ Idle(early) /\ Idle(raised) /\ Idle(reply)
IdleCopying  == /\ Idle(called) /\ Idle(fields) /\ Idle(oddKey)
                /\ Idle(frames) /\ Idle(visited) /\ Idle(object)
                /\ Idle(outcome)
IdleGlobals  == /\ Idle(present) /\ Idle(declared) /\ Idle(known)
                /\ Idle(shared) /\ Idle(strict) /\ Idle(said)
                /\ Idle(excused)
IdleTables   == Idle(hash) /\ Idle(table) /\ Idle(contents) /\ Idle(walk)
IdleModules  == /\ Idle(loaded) /\ Idle(chunks) /\ Idle(runs) /\ Idle(ended)
                /\ Idle(touched) /\ Idle(required)
IdleSorting  == /\ Idle(items) /\ Idle(lt) /\ Idle(cells)
                /\ Idle(ranges) /\ Idle(scan)

PartsInit ==
  /\ IF part = "sugar" THEN S!SugarInit ELSE IdleSugar
  /\ IF part = "files" THEN F!FilesInit ELSE IdleFiles
  /\ IF part = "toobject" THEN O!ToObjectInit ELSE IdleCopying
  /\ IF part = "strict" THEN G!StrictInit ELSE IdleGlobals
  /\ IF part = "table" THEN T!TableInit ELSE IdleTables
  /\ IF part = "threads" THEN C!ThreadsInit ELSE Idle(vm)
  /\ IF part = "modules" THEN M!ModulesInit ELSE IdleModules
  /\ IF part = "sort" THEN Q!SortInit ELSE IdleSorting

(* The step of one part leaves the variables of the others alone.          *)
Only(p) ==
  /\ UNCHANGED part
  /\ IF p = "sugar" THEN TRUE ELSE UNCHANGED sugar
  /\ IF p = "files" THEN TRUE ELSE UNCHANGED files
  /\ IF p = "toobject" THEN TRUE ELSE UNCHANGED copying
  /\ IF p = "strict" THEN TRUE ELSE UNCHANGED globals
  /\ IF p = "table" THEN TRUE ELSE UNCHANGED tables
  /\ IF p = "threads" THEN TRUE ELSE UNCHANGED vm
  /\ IF p = "modules" THEN TRUE ELSE UNCHANGED modules
  /\ IF p = "sort" THEN TRUE ELSE UNCHANGED sorting

PartsNext ==
  \/ part = "sugar"    /\ S!SugarNext    /\ Only("sugar")
  \/ part = "files"    /\ F!FilesNext    /\ Only("files")
  \/ part = "toobject" /\ O!ToObjectNext /\ Only("toobject")
  \/ part = "strict"   /\ G!StrictNext   /\ Only("strict")
  \/ part = "table"    /\ T!TableNext    /\ Only("table")
  \/ part = "threads"  /\ C!ThreadsNext  /\ Only("threads")
  \/ part = "modules"  /\ M!ModulesNext  /\ Only("modules")
  \/ part = "sort"     /\ Q!SortNext     /\ Only("sort")

parts == <<part, sugar, files, copying, globals, tables, vm, modules,
           sorting>>
PartsSpec == PartsInit /\ [][PartsNext]_parts

----------------------------------------------------------------------------
(* The properties of the parts.                                            *)

(* What comes through a proxy of a property was there (as3/sugar.lua).     *)
ProxyIsTruthful == part = "sugar" => S!ProxyIsTruthful

(* A path means the same however it is walked (as3/sugar.lua).             *)
PathsAgree == part = "sugar" => S!PathsAgree

(* A load answers for itself, and loadfile() falls back as its names say   *)
(* (as3/filegetcontents.lua, lua/dofile.lua).                              *)
LoadsAnswer == part = "files" => F!LoadsAnswer

(* as3.toobject() and as3.toarray() copy what is a tree, and refuse the    *)
(* rest.                                                                   *)
CopiesTrees == part = "toobject" => O!CopiesTrees

(* strict.lua: no global comes to exist unnoticed, or comes back so.       *)
NoStrayGlobal == part = "strict" => G!Noticed

(* A table of Lua is a map, in spite of collisions, rehashes, dead keys    *)
(* and traversals (ltable.c).                                              *)
TableIsMap == part = "table" => T!TableIsMap

(* The C stack and every lua_State agree (ldo.c, lbaselib.c).              *)
CallsUnwind == part = "threads" => C!CallsUnwind

(* The chunk of a module runs once, and again only if it is not loaded     *)
(* (loadlib.c).                                                            *)
RunOnce ==
  /\ [](part = "modules" => M!Loading)
  /\ [][part = "modules" => M!RunsOnce]_parts

(* table.sort() rearranges whatever it is given, and with an order it ends *)
(* and sorts (ltablib.c).                                                  *)
SortRearranges ==
  /\ [](part = "sort" => Q!Rearranged)
  /\ [][part = "sort" => Q!SortEnds]_parts
=============================================================================
