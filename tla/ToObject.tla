------------------------------ MODULE ToObject ------------------------------
(***************************************************************************)
(* as3.toobject() and as3.toarray() (as3/toobject.lua): a Lua table that   *)
(* refers to other tables becomes a tree of new AS3 objects or arrays; a   *)
(* table that contains itself is refused.                                  *)
(*                                                                         *)
(* The recursion is a stack of tables being copied: each has the fields    *)
(* still to visit, in any order as pairs() gives them or upwards as        *)
(* ipairs() does, and an object that is filled field by field.             *)
(***************************************************************************)
EXTENDS Naturals, Sequences, FiniteSets, SequencesExt

CONSTANTS
  Table,     \* Lua tables
  Given,     \* the table the function gets
  Field,     \* indices 1 .. n, for as3.toobject() n keys that are strings
  Scalar,    \* a value that is not a table
  NaN,       \* a number that cannot be a key, as visited[v] needs
  Unset      \* nil

ToObjectAssumption ==
  /\ {Scalar, NaN, Unset} \cap Table = {}
  /\ Given \in Table /\ IsFiniteSet(Table)
  /\ Field = 1 .. Cardinality(Field)

VARIABLES
  called,    \* "toobject" or "toarray"
  fields,    \* the Lua tables: what each field holds
  oddKey,    \* the tables that have a key that is not a string
  frames,    \* the calls of impl(), outermost first
  visited,   \* the values on the way down
  object,    \* the AS3 objects made so far: of which table, what they hold
  outcome    \* "running", "done" or "error"

copying == <<called, fields, oddKey, frames, visited, object, outcome>>

SetFields(t)     == {f \in Field : fields[t][f] # Unset}
Listed(t)        == {f \in Field : 1 .. f \subseteq SetFields(t)}
VisitedFields(t) == IF called = "toarray" THEN Listed(t) ELSE SetFields(t)

Refs(t)          == {fields[t][f] : f \in VisitedFields(t)} \cap Table

(* as3.new2() and the fields pairs() or ipairs() will give.                *)
Frame(t, n) ==
  [table |-> t, left |-> VisitedFields(t), object |-> n, at |-> Unset]
Made(t)     == [of |-> t, has |-> [f \in Field |-> Unset]]

(* Bound: one odd key, or NaNs, the key in the table that is given when it *)
(* does not matter.                                                        *)
ToObjectInit ==
  /\ called \in {"toobject", "toarray"}
  /\ \/ /\ fields \in [Table -> [Field -> Table \cup {Scalar, Unset}]]
        /\ oddKey \in {{}} \cup
             {{t} : t \in IF called = "toobject" THEN Table ELSE {Given}}
     \/ /\ fields \in [Table -> [Field -> Table \cup {NaN}]]
        /\ oddKey = {}
  /\ frames = <<Frame(Given, 1)>> /\ object = <<Made(Given)>>
  /\ visited = {} /\ outcome = "running"

top == frames[Len(frames)]
Rest == SubSeq(frames, 1, Len(frames) - 1)
Put(n, f, v) == object' = [object EXCEPT ![n].has[f] = v]
AtField(f) == Append(Rest, [top EXCEPT !.at = f, !.left = @ \ {f}])

(* Mutant: visited[v] is not cleared after the value was copied. *)
LeaveMarked(v) == visited' = visited
Leave(v) == visited' = visited \ {v}

(* One turn of the loop: a value on the way down raises, and so does one   *)
(* that visited[v] cannot have; a scalar is stored, a table is copied      *)
(* first.                                                                  *)
Visit(f) ==
  LET v == fields[top.table][f]
  IN  /\ outcome = "running" /\ frames # <<>> /\ top.at = Unset
      /\ f \in top.left
      /\ called = "toarray" => \A g \in top.left : f <= g
      /\ IF v \in visited \cup {NaN}
         THEN outcome' = "error" /\ UNCHANGED <<frames, visited, object>>
         ELSE /\ IF v \in Table
                 THEN /\ object' = Append(object, Made(v))
                      /\ frames' = Append(AtField(f),
                                          Frame(v, Len(object) + 1))
                      /\ visited' = visited \cup {v}
                 ELSE /\ Put(top.object, f, v)
                      /\ frames' = Append(Rest, [top EXCEPT !.left = @ \ {f}])
                      /\ UNCHANGED visited
              /\ UNCHANGED outcome
      /\ UNCHANGED <<called, fields, oddKey>>

(* A key that is not a string, which ipairs() would not give.              *)
OddKey ==
  /\ called = "toobject" /\ outcome = "running"
  /\ frames # <<>> /\ top.table \in oddKey
  /\ outcome' = "error"
  /\ UNCHANGED <<called, fields, oddKey, frames, visited, object>>

(* impl() returns to the call that copies the table around it.             *)
Return ==
  /\ outcome = "running" /\ top.left = {}
  /\ called = "toobject" => top.table \notin oddKey
  /\ IF Len(frames) = 1
     THEN frames' = <<>> /\ outcome' = "done" /\ UNCHANGED <<visited, object>>
     ELSE LET outer == Rest[Len(Rest)]
          IN  /\ Put(outer.object, outer.at, top.object)
              /\ Leave(top.table)
              /\ frames' = [Rest EXCEPT ![Len(Rest)].at = Unset]
              /\ UNCHANGED outcome
  /\ UNCHANGED <<called, fields, oddKey>>

ToObjectNext == OddKey \/ Return \/ \E f \in Field : Visit(f)
ToObjectSpec == ToObjectInit /\ [][ToObjectNext]_copying

----------------------------------------------------------------------------
(* Properties.                                                             *)

Below(t) ==
  LET Complete(S) == /\ Refs(t) \subseteq S
                     /\ \A u \in S : Refs(u) \subseteq S
  IN  {u \in Table : \A S \in SUBSET Table : Complete(S) => u \in S}
Refused(t) == \/ t \in Below(t)
              \/ called = "toobject" /\ t \in oddKey
              \/ \E f \in VisitedFields(t) : fields[t][f] = NaN

(* as3.toobject() and as3.toarray() end with a copy exactly when no table  *)
(* they reach contains itself, has a key that is not a string (for an      *)
(* object) or holds a NaN: a table that occurs twice without containing    *)
(* itself is copied twice.  The copy has the fields of its table at every  *)
(* depth, an array those before the first hole, and the recursion is never *)
(* deeper than there are tables, and one.                                  *)
CopiesTrees ==
  /\ outcome # "running" =>
       (outcome = "error" <=> \E t \in {Given} \cup Below(Given) : Refused(t))
  /\ outcome = "done" =>
       \A n \in 1..Len(object), f \in Field :
         LET t == object[n].of  w == object[n].has[f]
             v == IF f \in VisitedFields(t) THEN fields[t][f] ELSE Unset
         IN  IF v \in Table THEN w \in 2..Len(object) /\ object[w].of = v
             ELSE w = v
  /\ Len(frames) <= Cardinality(Table) + 1
=============================================================================
