------------------------------- MODULE Sugar -------------------------------
(***************************************************************************)
(* The syntax sugar over the as3 functions (as3/sugar.lua): the proxies of *)
(* properties (callobj), the proxies of class and namespace paths          *)
(* (pkgobj), the patched functions that see through both, and the switch   *)
(* that converts what is read to Lua at once.                              *)
(*                                                                         *)
(* A script has one variable and AS3 objects one property each, which AS3  *)
(* code changes between any two operations.  A name is a sequence of       *)
(* segments: splitpath() drops dots, colons and empty segments.            *)
(***************************************************************************)
EXTENDS Naturals, Sequences, SequencesExt

CONSTANTS
  AsObj,        \* AS3 objects
  Number,       \* an AS3 value that has a Lua form
  Null,         \* AS3 null
  NotBoolean,   \* an argument enable_sugar_autoconversion() does not expect
  Segments,     \* the segments of paths
  Statics,      \* the names of static properties, of any class: Numbers
  New, Class,   \* the segments "new" and "class"
  Colons,       \* the "::" of a qualified name
  MaxPath       \* bound: segments of a path

AsVal == AsObj \cup {Number, Null}
Kinds == {"class", "namespace"}

SugarAssumption ==
  /\ {Number, Null} \cap AsObj = {} /\ NotBoolean \notin BOOLEAN
  /\ Colons \notin Segments /\ MaxPath \in Nat

VARIABLES
  property,   \* what the property of each AS3 object holds
  flag,       \* is_mas3gaa_enabled
  getter,     \* TRUE: maybe_as3_get_and_autoconvert converts
  tolua,      \* TRUE: maybe_as3_tolua converts
  x,          \* the script's variable
  held,       \* what the property behind x held since x is its proxy
  given,      \* the segments x was made of so far, when x is a pkgobj
  answer      \* what the last operation gave the script, or AS3

switch == <<flag, getter, tolua>>
sugar  == <<property, switch, x, held, given, answer>>

LuaNumber  == [is |-> "number"]
LuaNil     == [is |-> "nil"]
None       == <<>>
AS3(v)     == [is |-> "as3", of |-> v]
Callobj(o, cached) == [is |-> "callobj", of |-> o, value |-> cached]
Raised     == [is |-> "error"]

SugarInit ==
  /\ property \in [AsObj -> AsVal]
  /\ flag = FALSE /\ getter = FALSE /\ tolua = FALSE
  /\ \E o \in AsObj : x = AS3(o)
  /\ held = {} /\ answer = LuaNil /\ given = <<>>

----------------------------------------------------------------------------
(* Proxies of properties.                                                  *)

as3_tolua(v) ==
  IF v.is # "as3" THEN v
  ELSE IF v.of = Number THEN LuaNumber
  ELSE IF v.of = Null THEN LuaNil
  ELSE v
MaybeToLua(v) == IF tolua THEN as3_tolua(v) ELSE v
as3_get(o)    == AS3(property[o])

(* value() of a callobj: read once, and again only while it is nil.        *)
(* Mutant: a value is fetched without the conversion that was asked for. *)
ValueRaw(c) == IF c.value # LuaNil THEN c.value ELSE as3_get(c.of)
Value(c) ==
  IF c.value # LuaNil THEN c.value ELSE MaybeToLua(as3_get(c.of))
(* value() of a pkgobj: the static property, for classes only.             *)
StaticValue(p) ==
  IF p.kind # "class" \/ p.class = None THEN Raised
  ELSE MaybeToLua(AS3(IF p.key[1] \in Statics THEN Number ELSE Null))
Unproxy(v) ==
  CASE v.is = "callobj" -> Value(v)
    [] v.is = "pkgobj"  -> StaticValue(v)
    [] OTHER            -> v
Remember(v) == IF v.is = "callobj" THEN [v EXCEPT !.value = Value(v)] ELSE v

(* make_callobj(): with the conversion on, a property that has a Lua form  *)
(* is read at once and needs no proxy.                                     *)
MakeCallobj(o) ==
  LET got == as3_get(o)
  IN  IF ~getter THEN Callobj(o, LuaNil)
      ELSE IF as3_tolua(got) # got THEN as3_tolua(got)
      ELSE Callobj(o, got)

Stays == UNCHANGED switch
NoWalk == x.is # "pkgobj" /\ UNCHANGED given

(* What AS3 makes of a property of a number or of null is left out.        *)
HasProperties(t) == t.is = "as3" => t.of \in AsObj

(* __index of a callobj and of AS3 userdata.                               *)
Index ==
  LET t == Unproxy(x)
  IN  /\ HasProperties(t)
      /\ IF t.is = "as3"
         THEN x' = MakeCallobj(t.of) /\ held' = {property[t.of]}
         ELSE x' = Remember(x) /\ UNCHANGED held
      /\ answer' = IF t.is = "as3" THEN LuaNil ELSE Raised
      /\ NoWalk /\ Stays /\ UNCHANGED property

(* __newindex of both: what is written goes to AS3 at once.                *)
NewIndex(v) ==
  LET t == Unproxy(x)
  IN  /\ HasProperties(t)
      /\ x' = Remember(x)
      /\ IF t.is = "as3"
         THEN /\ property' = [property EXCEPT ![t.of] = v]
              /\ held' = IF x.is = "callobj" /\ x.of = t.of
                         THEN held \cup {v} ELSE held
              /\ answer' = LuaNil
         ELSE answer' = Raised /\ UNCHANGED <<property, held>>
      /\ NoWalk /\ Stays

(* __call: the object and the key go to AS3, the property is not read.     *)
CallMethod ==
  /\ x.is = "callobj"
  /\ answer' = [is |-> "called", of |-> x.of]
  /\ Stays /\ UNCHANGED <<property, x, held, given>>

(* A patched function, as3.tolua(x) for one, gets what the proxy stands    *)
(* for.                                                                    *)
Patched ==
  /\ answer' = [is |-> "read", got |-> as3_tolua(Unproxy(x)),
                first |-> x.is = "callobj" /\ x.value = LuaNil]
  /\ x' = Remember(x)
  /\ Stays /\ UNCHANGED <<property, held, given>>

(* as3.toas3() and as3.invoke() are not patched: they get the proxy.       *)
Unpatched ==
  /\ answer' = [is |-> IF x.is \in {"callobj", "pkgobj"} THEN "table"
                       ELSE "value"]
  /\ Stays /\ UNCHANGED <<property, x, held, given>>

(* AS3 code runs between two operations of the script.                     *)
AS3Writes(o, v) ==
  /\ property' = [property EXCEPT ![o] = v]
  /\ held' = IF x.is = "callobj" /\ x.of = o THEN held \cup {v} ELSE held
  /\ answer' = LuaNil
  /\ Stays /\ UNCHANGED <<x, given>>

Forget ==
  /\ \E o \in AsObj : x' = AS3(o)
  /\ held' = {} /\ given' = <<>> /\ answer' = LuaNil
  /\ Stays /\ UNCHANGED property

(* as3.enable_sugar_autoconversion() and as3.disable_...: the flag is set  *)
(* before the argument is refused.                                         *)
(* Mutant: maybe_as3_tolua is not switched back. *)
EnableHalf(arg) ==
  /\ flag' = arg
  /\ getter' = IF arg \in BOOLEAN THEN arg ELSE getter
  /\ tolua' = (tolua \/ arg = TRUE)
  /\ answer' = LuaNil /\ UNCHANGED <<property, x, held, given>>
Enable(arg) ==
  /\ flag' = arg
  /\ IF arg \in BOOLEAN
     THEN getter' = arg /\ tolua' = arg
     ELSE UNCHANGED <<getter, tolua>>
  /\ answer' = IF arg \in BOOLEAN THEN LuaNil ELSE Raised
  /\ UNCHANGED <<property, x, held, given>>

----------------------------------------------------------------------------
(* Proxies of paths.                                                       *)

splitpath(segs) ==
  LET n == Len(segs)
  IN  [namespace |-> SubSeq(segs, 1, n - 2),
       class     |-> IF n > 1 THEN <<segs[n - 1]>> ELSE None,
       key       |-> IF n > 0 THEN <<segs[n]>> ELSE None]

(* path2(): the path so far as a class and its namespace.                  *)
(* Mutant: the namespace of a class that has one is not its prefix. *)
path2Short(p) == [namespace |-> p.class, class |-> p.key]
path2(p) == [namespace |-> p.namespace \o p.class, class |-> p.key]

(* What AS3 looks up: a name in a namespace, which may be empty.           *)
AS3_NSGetS(namespace, name) == [namespace |-> namespace, name |-> name]
get_class2(namespace, name) == AS3_NSGetS(namespace, name)

(* get_class(): the namespace is before the first "::", if it is not empty.*)
get_class(name) ==
  LET at == {i \in DOMAIN name : name[i] = Colons}
      i  == CHOOSE j \in at : \A k \in at : j <= k
  IN  IF at = {} \/ 1 \in at THEN AS3_NSGetS(<<>>, name)
      ELSE AS3_NSGetS(SubSeq(name, 1, i - 1), SubSeq(name, i + 1, Len(name)))

(* newclass2(), and namespacecall(), whose namespace starts with a dot     *)
(* when it has one segment.                                                *)
newclass2(p)     == get_class2(p.namespace, p.class)
namespacecall(p) == AS3_NSGetS(p.namespace \o p.class, p.key)
DotFirst(p) == p.kind = "namespace" /\ p.namespace = <<>> /\ p.class # None

(* make_pkgobj(): with the flag set, a path whose class has a static       *)
(* property of that name is the number and no longer a path.  The flag     *)
(* counts as set when it is not a boolean.                                 *)
make_pkgobj(kind, segs) ==
  LET p == splitpath(segs)
  IN  IF flag # FALSE /\ kind = "class" /\ p.class # None
         /\ p.key[1] \in Statics
      THEN LuaNumber
      ELSE [is |-> "pkgobj", kind |-> kind, namespace |-> p.namespace,
            class |-> p.class, key |-> p.key]

Walk(kind, segs) ==
  /\ x.is = "as3"
  /\ x' = make_pkgobj(kind, segs) /\ given' = segs
  /\ held' = {} /\ answer' = LuaNil
  /\ Stays /\ UNCHANGED property

(* "path is empty": a path of no segment cannot be walked on.              *)
WalkOn(segs) ==
  /\ x.is = "pkgobj" /\ Len(given) + Len(segs) <= MaxPath
  /\ IF x.key = None
     THEN answer' = Raised /\ UNCHANGED <<x, given>>
     ELSE LET q == path2(x)
          IN  /\ x' = make_pkgobj(x.kind, q.namespace \o q.class \o segs)
              /\ given' = given \o segs /\ answer' = LuaNil
  /\ Stays /\ UNCHANGED <<property, held>>

(* __call of a pkgobj: what AS3 is asked to do, and of what.  There is no  *)
(* class and no namespace before the second segment.                       *)
PkgCall ==
  /\ x.is = "pkgobj"
  /\ answer' =
       IF x.class = None THEN Raised
       ELSE [is  |-> IF x.kind = "namespace"   THEN "namespacecall"
                     ELSE IF x.key[1] = New   THEN "new2"
                     ELSE IF x.key[1] = Class THEN "newclass2"
                     ELSE "call",
             of  |-> IF x.kind = "namespace" THEN namespacecall(x)
                     ELSE newclass2(x),
             key |-> x.key, dot |-> DotFirst(x)]
  /\ Stays /\ UNCHANGED <<property, x, held, given>>

(* __newindex of a pkgobj: a static property of the class the whole path   *)
(* names, and an error for a namespace or a path of no segment.            *)
PkgNewIndex(k) ==
  /\ x.is = "pkgobj"
  /\ answer' = IF x.kind = "namespace" \/ x.key = None THEN Raised
               ELSE [is |-> "set", of |-> newclass2(path2(x)), key |-> <<k>>]
  /\ Stays /\ UNCHANGED <<property, x, held, given>>

Steps == BoundedSeq(Segments, 2)

SugarNext ==
  \/ Index \/ CallMethod \/ Patched \/ Unpatched \/ Forget
  \/ \E v \in AsVal : NewIndex(v)
  \/ \E o \in AsObj, v \in AsVal : AS3Writes(o, v)
  \/ \E arg \in {TRUE, FALSE, NotBoolean} : Enable(arg)
  \/ \E kind \in Kinds, s \in Steps : Walk(kind, s)
  \/ \E s \in Steps : WalkOn(s)
  \/ PkgCall \/ \E k \in Segments : PkgNewIndex(k)

SugarSpec == SugarInit /\ [][SugarNext]_sugar

----------------------------------------------------------------------------
(* Properties.                                                             *)

(* A proxy tells the truth, late at worst: what a function gets through it *)
(* is a value the property had since the proxy was made, the present one   *)
(* when the proxy had not been read, and never the proxy, except for the   *)
(* functions that are not patched.  A refused switch leaves both handlers  *)
(* as they were, so they always agree, with the flag too once it is a      *)
(* boolean.                                                                *)
ProxyIsTruthful ==
  /\ answer.is = "read" /\ x.is = "callobj" =>
       /\ answer.got \in {as3_tolua(AS3(v)) : v \in held}
       /\ answer.first => answer.got = as3_tolua(as3_get(x.of))
  /\ getter = tolua /\ (flag \in BOOLEAN => tolua = flag)
  /\ x.is = "callobj" /\ x.value # LuaNil => x.value.is \in {"as3", "number"}

(* A path walked in any steps asks AS3 for what the whole path asks for,   *)
(* which is what its qualified name means to as3.newclass(): path2() undoes*)
(* splitpath().  Conversion may end a walk early, at a static property     *)
(* that has a Lua form, and only there; and writing a field of a path      *)
(* writes a static property of the class the path names.  A namespace of   *)
(* one segment is the exception: its name gets a dot.                      *)
Qualified(segs) ==
  IF Len(segs) < 2 THEN segs ELSE Front(segs) \o <<Colons, Last(segs)>>
PathsAgree ==
  /\ x.is = "pkgobj" =>
       /\ x.namespace \o x.class \o x.key = given
       /\ x.key # None => \A s \in Segments :
            LET q == path2(x) IN
            splitpath(q.namespace \o q.class \o <<s>>)
              = splitpath(given \o <<s>>)
  /\ answer.is = "namespacecall" =>
       /\ answer.of = get_class(Qualified(given))
       /\ answer.dot => Len(given) = 2
  /\ answer.is \in {"new2", "newclass2", "call"} =>
       /\ answer.of = get_class(Qualified(Front(given)))
       /\ answer.key = <<Last(given)>> /\ ~answer.dot
  /\ answer.is = "set" => answer.of = get_class(Qualified(given))
  /\ x.is = "number" /\ given # <<>> =>
       Len(given) > 1 /\ Last(given) \in Statics
=============================================================================
