------------------------ MODULE LuaAlchemyLifeProofs ------------------------
(* Theorems about LuaAlchemyLife for every bound.                          *)
EXTENDS LuaAlchemyLife, SequenceTheorems, TLAPS

(* An init() that closes first waits below its close(), and goes on when   *)
(* the object holds no state.                                              *)
InitsWait ==
  /\ \A i \in 1..Len(stack)-1 :
        stack[i].kind = "init" => stack[i+1].kind = "close"
  /\ stack # <<>> /\ Top.kind = "init" => luaState = 0

IInv == TypeOK /\ HoldsTheLivingOne /\ InitsWait

----------------------------------------------------------------------------
(* The stack.                                                              *)

StackOK(st, n) ==
  /\ st \in Seq(Frames)
  /\ \A i \in 1..Len(st) :
       IF st[i].kind = "init" THEN st[i].state = 0 ELSE st[i].state \in 1..n
  /\ \A i \in 1..Len(st)-1 : st[i].kind = "init" => st[i+1].kind = "close"

LEMMA FrameLemma ==
  ASSUME NEW kind \in {"call", "async", "close", "init"}, NEW s \in Nat
  PROVE  /\ Frame(kind, s) \in Frames
         /\ Frame(kind, s).kind = kind /\ Frame(kind, s).state = s
BY DEF Frame, Frames

LEMMA AppendLemma ==
  ASSUME NEW n \in Nat, NEW st, StackOK(st, n), NEW f \in Frames,
         IF f.kind = "init" THEN f.state = 0 ELSE f.state \in 1..n,
         st # <<>> /\ st[Len(st)].kind = "init" => f.kind = "close"
  PROVE  /\ StackOK(Append(st, f), n)
         /\ Append(st, f) # <<>>
         /\ Len(Append(st, f)) = Len(st) + 1
         /\ Append(st, f)[Len(st) + 1] = f
<1>1. /\ st \in Seq(Frames) /\ Len(st) \in Nat
      /\ st = <<>> <=> Len(st) = 0
  BY LenProperties, EmptySeq DEF StackOK
<1>2. /\ Append(st, f) \in Seq(Frames) /\ Append(st, f) # <<>>
      /\ Len(Append(st, f)) = Len(st) + 1
      /\ \A i \in 1..Len(st) : Append(st, f)[i] = st[i]
      /\ Append(st, f)[Len(st) + 1] = f
  BY <1>1, AppendProperties
<1>3. \A i \in 1..Len(st)+1 : i = Len(st) + 1 \/ i \in 1..Len(st)
  BY <1>1
<1>4. \A i \in 1..Len(st) : i = Len(st) \/ (i \in 1..Len(st)-1 /\ i+1 \in 1..Len(st))
  BY <1>1
<1>5. ASSUME NEW i \in 1..Len(st), Append(st, f)[i].kind = "init"
      PROVE  Append(st, f)[i+1].kind = "close"
  <2>1. CASE i = Len(st)
    BY <1>1, <1>2, <1>5, <2>1
  <2>2. CASE i \in 1..Len(st)-1 /\ i+1 \in 1..Len(st)
    BY <1>2, <1>5, <2>2 DEF StackOK
  <2> QED BY <1>4, <2>1, <2>2
<1>6. \A i \in 1..Len(st)+1 :
        IF Append(st, f)[i].kind = "init" THEN Append(st, f)[i].state = 0
        ELSE Append(st, f)[i].state \in 1..n
  BY <1>2, <1>3 DEF StackOK
<1>7. Len(st) + 1 - 1 = Len(st)
  BY <1>1
<1> QED BY <1>2, <1>5, <1>6, <1>7 DEF StackOK

LEMMA PopLemma ==
  ASSUME NEW n \in Nat, NEW st, StackOK(st, n), st # <<>>,
         NEW p, p = SubSeq(st, 1, Len(st) - 1)
  PROVE  /\ StackOK(p, n)
         /\ Len(p) = Len(st) - 1
         /\ p # <<>> /\ p[Len(p)].kind = "init" => st[Len(st)].kind = "close"
<1>1. st \in Seq(Frames) /\ Len(st) \in Nat /\ Len(st) > 0
  BY LenProperties, EmptySeq DEF StackOK
<1>2. \A i \in 1..Len(st)-1 : st[i] \in Frames
  BY <1>1, ElementOfSeq
<1> DEFINE m == Len(st) - 1
<1>8. m \in Int /\ m = Len(st) - 1 /\ (1 <= m + 1) /\ m - 1 + 1 = m
  BY <1>1
<1> HIDE DEF m
<1>9. /\ SubSeq(st, 1, m) \in Seq(Frames) /\ Len(SubSeq(st, 1, m)) = m
      /\ \A i \in 1..m : SubSeq(st, 1, m)[i] = st[i]
  BY <1>1, <1>2, <1>8, SubSeqProperties
<1>3. /\ p \in Seq(Frames) /\ Len(p) = Len(st) - 1
      /\ \A i \in 1..Len(st)-1 : p[i] = st[i]
  BY <1>8, <1>9
<1>4. p # <<>> => Len(p) \in 1..Len(st)-1 /\ Len(p) + 1 = Len(st)
  BY <1>1, <1>3, EmptySeq
<1>5. StackOK(p, n)
  <2>1. /\ \A i \in 1..Len(st) :
             IF st[i].kind = "init" THEN st[i].state = 0
                                    ELSE st[i].state \in 1..n
        /\ \A i \in 1..Len(st)-1 : st[i].kind = "init" => st[i+1].kind = "close"
    BY DEF StackOK
  <2>2. \A i \in 1..Len(p) :
          IF p[i].kind = "init" THEN p[i].state = 0 ELSE p[i].state \in 1..n
    BY <1>1, <1>3, <2>1
  <2>3. ASSUME NEW i \in 1..Len(p)-1, p[i].kind = "init"
        PROVE  p[i+1].kind = "close"
    <3>1. i \in 1..Len(st)-1 /\ i+1 \in 1..Len(st)-1
      BY <1>1, <1>3
    <3>2. st[i].kind = "init"
      BY <1>3, <2>3, <3>1
    <3>3. st[i+1].kind = "close"
      BY <2>1, <3>1, <3>2
    <3> QED BY <1>3, <3>1, <3>3
  <2> QED BY <1>3, <2>2, <2>3 DEF StackOK
<1>6. p # <<>> /\ p[Len(p)].kind = "init" => st[Len(st)].kind = "close"
  BY <1>3, <1>4 DEF StackOK
<1> QED BY <1>3, <1>5, <1>6

LEMMA GrowLemma ==
  ASSUME NEW n \in Nat, NEW m \in Nat, n <= m, NEW st, StackOK(st, n)
  PROVE  StackOK(st, m)
BY DEF StackOK

LEMMA TopLemma ==
  ASSUME IInv, stack # <<>>
  PROVE  /\ Top \in Frames /\ Len(stack) \in 1..Len(stack)
         /\ IF Top.kind = "init" THEN Top.state = 0 ELSE Top.state \in Ids
<1>1. Len(stack) \in Nat /\ Len(stack) > 0 /\ stack \in Seq(Frames)
  BY LenProperties, EmptySeq DEF IInv, TypeOK
<1> QED BY <1>1, ElementOfSeq DEF IInv, TypeOK, Top

----------------------------------------------------------------------------
(* The states.                                                             *)

(* What every action keeps of the states, given the number there are next. *)
StatesOK(sts, held) ==
  /\ sts \in Seq(State)
  /\ held \in 0..Len(sts)
  /\ \A s \in 1..Len(sts) : sts[s].at # "closed" <=> s = held

LEMMA StatesFacts ==
  ASSUME IInv
  PROVE  StatesOK(states, luaState) /\ Len(states) \in Nat
BY LenProperties DEF IInv, TypeOK, HoldsTheLivingOne, StatesOK, Alive, Ids

LEMMA MakeLemma ==
  ASSUME IInv, luaState = 0, NEW sugar \in BOOLEAN, Make(sugar) \/ MakeFails
  PROVE  StatesOK(states', luaState') /\ Len(states') = Len(states) + 1
<1>1. StatesOK(states, 0) /\ Len(states) \in Nat
  BY StatesFacts
<1>2. PICK new \in State : /\ states' = Append(states, new)
                          /\ luaState' = IF new.at = "closed" THEN 0 ELSE Len(states) + 1
  <2>1. CASE Make(sugar)
    <3> DEFINE new == [sugar |-> sugar, at |-> "open"]
    <3>1. new \in State /\ new.at # "closed"
      BY DEF State
    <3> QED BY <2>1, <3>1 DEF Make
  <2>2. CASE MakeFails
    <3> DEFINE new == [sugar |-> TRUE, at |-> "closed"]
    <3>1. new \in State /\ new.at = "closed"
      BY DEF State
    <3> QED BY <2>2, <3>1 DEF MakeFails
  <2> QED BY <2>1, <2>2
<1>3. /\ states' \in Seq(State) /\ Len(states') = Len(states) + 1
      /\ \A s \in 1..Len(states) : states'[s] = states[s]
      /\ states'[Len(states) + 1] = new
  BY <1>1, <1>2, AppendProperties DEF StatesOK
<1>4. \A s \in 1..Len(states)+1 : s = Len(states) + 1 \/ s \in 1..Len(states)
  BY <1>1
<1> QED BY <1>1, <1>2, <1>3, <1>4 DEF StatesOK

(* A state moves on; it is the one the object holds. *)
LEMMA MoveLemma ==
  ASSUME IInv, luaState # 0, NEW at \in {"open", "closing", "closed"},
         states' = [states EXCEPT ![luaState].at = at],
         luaState' = IF at = "closed" THEN 0 ELSE luaState
  PROVE  StatesOK(states', luaState') /\ Len(states') = Len(states)
<1>1. StatesOK(states, luaState) /\ Len(states) \in Nat
  BY StatesFacts
<1>2. luaState \in 1..Len(states)
  BY <1>1 DEF StatesOK
<1> DEFINE new == [states[luaState] EXCEPT !.at = at]
<1>3. states[luaState] \in State
  BY <1>1, <1>2, ElementOfSeq DEF StatesOK
<1>4. new \in State /\ new.at = at
  BY <1>3 DEF State
<1>5. states' = [states EXCEPT ![luaState] = new]
  OBVIOUS
<1> HIDE DEF new
<1>6. /\ states' \in Seq(State) /\ Len(states') = Len(states)
      /\ \A s \in 1..Len(states) :
            states'[s] = IF s = luaState THEN new ELSE states[s]
  BY <1>1, <1>2, <1>4, <1>5, ExceptSeq DEF StatesOK
<1> QED BY <1>1, <1>2, <1>4, <1>6 DEF StatesOK

(* IInv in the next state, put together from the stack and the states.     *)
LEMMA Together ==
  ASSUME StatesOK(states', luaState'), StackOK(stack', Len(states')),
         suspended' \subseteq 1..Len(states'), late' \subseteq 1..Len(states'),
         asked' \in BOOLEAN, misclosed' \in BOOLEAN, lost' \in BOOLEAN,
         stack' # <<>> /\ stack'[Len(stack')].kind = "init" => luaState' = 0
  PROVE  IInv'
BY DEF StatesOK, StackOK, IInv, TypeOK, HoldsTheLivingOne, InitsWait, Alive,
       Ids, Top

LEMMA Apart ==
  ASSUME IInv
  PROVE  /\ StatesOK(states, luaState) /\ Len(states) \in Nat
         /\ StackOK(stack, Len(states))
         /\ suspended \subseteq 1..Len(states) /\ late \subseteq 1..Len(states)
         /\ asked \in BOOLEAN /\ misclosed \in BOOLEAN /\ lost \in BOOLEAN
         /\ stack # <<>> /\ stack[Len(stack)].kind = "init" => luaState = 0
BY StatesFacts DEF StackOK, IInv, TypeOK, InitsWait, Ids, Top

----------------------------------------------------------------------------
(* One lemma per action.                                                   *)

LEMMA InitIInv == Init => IInv
<1> SUFFICES ASSUME Init PROVE IInv
  OBVIOUS
<1> DEFINE first == [sugar |-> asked, at |-> "open"]
<1>1. first \in State /\ first.at # "closed" /\ states = <<first>>
  BY DEF Init, State
<1> HIDE DEF first
<1>2. states \in Seq(State) /\ Len(states) = 1 /\ states[1] = first
  BY <1>1
<1>3. \A s \in 1..Len(states) : states[s].at # "closed" <=> s = 1
  BY <1>1, <1>2
<1>4. /\ luaState = 1 /\ stack = <<>> /\ Len(stack) = 0 /\ stack \in Seq(Frames)
      /\ suspended = {} /\ late = {} /\ asked \in BOOLEAN
      /\ misclosed = FALSE /\ lost = FALSE
  BY DEF Init
<1>5. {asked, misclosed, lost} \subseteq BOOLEAN
  BY <1>4
<1>6. TypeOK
  BY <1>2, <1>4, <1>5 DEF TypeOK, Ids
<1>7. HoldsTheLivingOne
  BY <1>3, <1>4 DEF HoldsTheLivingOne, Alive, Ids
<1>8. InitsWait
  BY <1>4 DEF InitsWait
<1> QED BY <1>6, <1>7, <1>8 DEF IInv

(* A frame of the state held goes on top of one that is not init()'s.      *)
LEMMA PushLemma ==
  ASSUME IInv, TopRuns, NEW kind \in {"call", "async", "close"},
         NEW s, NEW n, n = Len(states'), Len(states) <= n, n \in Nat, s \in 1..n,
         stack' = Append(stack, Frame(kind, s))
  PROVE  StackOK(stack', n) /\ stack'[Len(stack')].kind # "init"
<1>1. /\ StackOK(stack, n)
      /\ stack # <<>> => stack[Len(stack)].kind # "init"
  BY Apart, GrowLemma DEF TopRuns, Top
<1>2. /\ Frame(kind, s) \in Frames
      /\ Frame(kind, s).kind = kind /\ Frame(kind, s).state = s
  BY FrameLemma
<1> QED BY <1>1, <1>2, AppendLemma

LEMMA BeginCloseLemma ==
  ASSUME IInv, luaState # 0, BeginClose
  PROVE  /\ StatesOK(states', luaState') /\ Len(states') = Len(states)
         /\ misclosed' \in BOOLEAN
<1>1. misclosed' \in BOOLEAN
  BY Zenon DEF BeginClose
<1> QED BY <1>1, MoveLemma DEF BeginClose

LEMMA closeStep == ASSUME IInv, close PROVE IInv'
<1>1. /\ StatesOK(states', luaState') /\ Len(states') = Len(states)
      /\ misclosed' \in BOOLEAN
  BY BeginCloseLemma DEF close
<1>2. TopRuns /\ luaState \in 1..Len(states) /\ Len(states) \in Nat
  BY Apart DEF close, MayCall, StatesOK
<1>3. StackOK(stack', Len(states')) /\ stack'[Len(stack')].kind # "init"
  BY <1>1, <1>2, PushLemma DEF close
<1> QED BY <1>1, <1>3, Apart, Together DEF close, BeginClose

LEMMA initStep == ASSUME IInv, NEW sugar \in BOOLEAN, init(sugar) PROVE IInv'
<1>1. CASE luaState # 0
  <2> DEFINE f == [Frame("init", 0) EXCEPT !.sugar = sugar]
             c == Frame("close", luaState)
  <2>1. /\ StatesOK(states', luaState') /\ Len(states') = Len(states)
        /\ misclosed' \in BOOLEAN
    BY <1>1, BeginCloseLemma DEF init
  <2>2. /\ TopRuns /\ luaState \in 1..Len(states) /\ Len(states) \in Nat
        /\ StackOK(stack, Len(states))
        /\ stack # <<>> => stack[Len(stack)].kind # "init"
    BY <1>1, Apart DEF init, MayCall, StatesOK, TopRuns, Top
  <2>3. /\ f \in Frames /\ f.kind = "init" /\ f.state = 0
        /\ c \in Frames /\ c.kind = "close" /\ c.state = luaState
    <3>1. f \in Frames /\ f.kind = "init" /\ f.state = 0
      BY DEF Frame, Frames
    <3>2. c \in Frames /\ c.kind = "close" /\ c.state = luaState
      BY <2>2, FrameLemma
    <3> QED BY <3>1, <3>2
  <2>4. stack' = stack \o <<f, c>>
    BY <1>1 DEF init
  <2> HIDE DEF f, c
  <2> DEFINE one == Append(stack, f)
  <2>5. /\ StackOK(one, Len(states)) /\ one # <<>>
        /\ Len(one) = Len(stack) + 1 /\ one[Len(stack) + 1] = f
    BY <2>2, <2>3, AppendLemma
  <2>6. one[Len(one)] = f
    BY <2>5
  <2> HIDE DEF one
  <2>7. /\ StackOK(Append(one, c), Len(states)) /\ Append(one, c) # <<>>
        /\ Len(Append(one, c)) = Len(one) + 1 /\ Append(one, c)[Len(one) + 1] = c
    BY <2>2, <2>3, <2>5, <2>6, AppendLemma
  <2>8. stack' = Append(one, c)
    <3>1. stack \in Seq(Frames) /\ <<f, c>> = Append(<<f>>, c)
      BY <2>2, <2>3 DEF StackOK
    <3>2. stack \o <<f, c>> = Append(Append(stack, f), c)
      BY <2>3, <3>1
    <3> QED BY <2>4, <3>2 DEF one
  <2>9. stack'[Len(stack')].kind # "init"
    BY <2>3, <2>7, <2>8
  <2> QED BY <1>1, <2>1, <2>7, <2>8, <2>9, Apart, Together DEF init, BeginClose
<1>2. CASE luaState = 0
  <2>1. StatesOK(states', luaState') /\ Len(states') = Len(states) + 1
    BY <1>2, MakeLemma DEF init
  <2>2. /\ StackOK(stack', Len(states'))
        /\ stack' # <<>> => stack'[Len(stack')].kind # "init"
    BY <1>2, <2>1, Apart, GrowLemma DEF init, MayCall, TopRuns, Top
  <2> QED BY <1>2, <2>1, <2>2, Apart, Together DEF init
<1> QED BY <1>1, <1>2

LEMMA CloseEndsStep == ASSUME IInv, CloseEnds PROVE IInv'
<1>1. /\ stack # <<>> /\ Top.state \in 1..Len(states) /\ Alive(Top.state)
      /\ stack' = SubSeq(stack, 1, Len(stack) - 1)
  BY TopLemma DEF CloseEnds, TopRuns, Pop, Ids
<1>2. Top.state = luaState /\ luaState # 0
  BY <1>1, Apart DEF StatesOK, Alive
<1>3. StatesOK(states', luaState') /\ Len(states') = Len(states) /\ luaState' = 0
  BY <1>2, MoveLemma DEF CloseEnds
<1>4. StackOK(stack', Len(states'))
  BY <1>1, <1>3, Apart, PopLemma
<1> QED BY <1>3, <1>4, Apart, Together DEF CloseEnds

LEMMA InitGoesOnStep == ASSUME IInv, InitGoesOn PROVE IInv'
<1>1. /\ stack # <<>> /\ Top.kind = "init" /\ Top \in Frames /\ luaState = 0
      /\ stack' = SubSeq(stack, 1, Len(stack) - 1)
  BY TopLemma DEF InitGoesOn, Pop, IInv, InitsWait
<1>2. StatesOK(states', luaState') /\ Len(states') = Len(states) + 1
  BY <1>1, MakeLemma DEF InitGoesOn, Frames
<1>3. /\ StackOK(stack', Len(states))
      /\ stack' # <<>> => stack'[Len(stack')].kind # "init"
  BY <1>1, Apart, PopLemma DEF Top
<1>4. StackOK(stack', Len(states'))
  BY <1>2, <1>3, Apart, GrowLemma
<1> QED BY <1>2, <1>3, <1>4, Apart, Together DEF InitGoesOn

LEMMA RunStep ==
  ASSUME IInv, NEW kind \in {"call", "async"}, Run(kind) PROVE IInv'
<1>1. TopRuns
  BY DEF Run, MayCall
<1>2. CASE luaState # 0
  <2>1. /\ luaState \in 1..Len(states) /\ Len(states') = Len(states)
        /\ StatesOK(states', luaState')
    BY <1>2, Apart DEF Run, StatesOK
  <2>2. StackOK(stack', Len(states')) /\ stack'[Len(stack')].kind # "init"
    BY <1>1, <1>2, <2>1, Apart, PushLemma DEF Run
  <2> QED BY <1>2, <2>1, <2>2, Apart, Together DEF Run
<1>3. CASE luaState = 0
  <2>1. StatesOK(states', luaState') /\ Len(states') = Len(states) + 1
    BY <1>3, MakeLemma DEF Run
  <2>2. /\ StackOK(stack', Len(states'))
        /\ stack' # <<>> => stack'[Len(stack')].kind # "init"
    <3>1. CASE stack' = Append(stack, Frame(kind, Len(states) + 1))
      BY <1>1, <2>1, <3>1, Apart, PushLemma
    <3>2. CASE stack' = stack
      BY <1>1, <2>1, <3>2, Apart, GrowLemma DEF TopRuns, Top
    <3> QED BY <1>3, <3>1, <3>2 DEF Run
  <2> QED BY <1>3, <2>1, <2>2, Apart, Together DEF Run
<1> QED BY <1>2, <1>3

LEMMA PopStep == ASSUME IInv, Return \/ Yield PROVE IInv'
<1>1. /\ stack # <<>> /\ Top.kind \in {"call", "async"}
      /\ Top.state \in 1..Len(states)
      /\ stack' = SubSeq(stack, 1, Len(stack) - 1)
      /\ states' = states /\ luaState' = luaState
  BY TopLemma DEF Return, Yield, Pop, Ids
<1>2. /\ StackOK(stack', Len(states'))
      /\ stack' # <<>> => stack'[Len(stack')].kind # "init"
  BY <1>1, Apart, PopLemma DEF Top
<1>3. /\ suspended' \subseteq 1..Len(states) /\ late' \subseteq 1..Len(states)
      /\ asked' = asked /\ misclosed' = misclosed /\ lost' = lost
  BY <1>1, Apart DEF Return, Yield
<1> QED BY <1>1, <1>2, <1>3, Apart, Together

LEMMA ResumeStep == ASSUME IInv, NEW s \in suspended, Resume(s) PROVE IInv'
<1>1. /\ stack = <<>> /\ s \in 1..Len(states) /\ s \in Nat
      /\ stack' = <<Frame("async", s)>>
  BY Apart DEF Resume
<1>2. /\ Frame("async", s) \in Frames
      /\ Frame("async", s).kind = "async" /\ Frame("async", s).state = s
  BY <1>1, FrameLemma
<1>3. /\ stack' \in Seq(Frames) /\ Len(stack') = 1
      /\ \A i \in 1..1 : stack'[i].kind = "async" /\ stack'[i].state = s
  BY <1>1, <1>2
<1>4. StackOK(stack', Len(states)) /\ stack'[Len(stack')].kind # "init"
  BY <1>1, <1>3 DEF StackOK
<1> QED BY <1>4, Apart, Together DEF Resume

LEMMA NextIInv == IInv /\ [Next]_vars => IInv'
<1> SUFFICES ASSUME IInv, [Next]_vars PROVE IInv'
  OBVIOUS
<1>1. ASSUME NEW sugar \in BOOLEAN, init(sugar) PROVE IInv'
  BY <1>1, initStep
<1>2. CASE close
  BY <1>2, closeStep
<1>3. CASE CloseEnds
  BY <1>3, CloseEndsStep
<1>4. CASE InitGoesOn
  BY <1>4, InitGoesOnStep
<1>5. CASE Run("call") \/ Run("async")
  BY <1>5, RunStep
<1>6. CASE Return \/ Yield
  BY <1>6, PopStep
<1>7. ASSUME NEW s \in suspended, Resume(s) PROVE IInv'
  BY <1>7, ResumeStep
<1>8. CASE UsesFreed
  BY <1>8, Apart, Together DEF UsesFreed
<1>9. CASE UNCHANGED vars
  BY <1>9, Apart, Together DEF vars
<1> QED BY <1>1, <1>2, <1>3, <1>4, <1>5, <1>6, <1>7, <1>8, <1>9 DEF Next

THEOREM Inductive == Spec => []IInv
BY InitIInv, NextIInv, PTL DEF Spec

(* The variables of the object keep their types. *)
THEOREM TypeCorrect == Spec => []TypeOK
<1>1. IInv => TypeOK
  BY DEF IInv
<1> QED BY <1>1, Inductive, PTL

(* However init(), close() and the calls that initialize on demand nest,   *)
(* LuaAlchemy holds the one lua_State that is not closed. *)
THEOREM HoldsTheLivingOneAlways == Spec => []HoldsTheLivingOne
<1>1. IInv => HoldsTheLivingOne
  BY DEF IInv
<1> QED BY <1>1, Inductive, PTL

----------------------------------------------------------------------------
(* The implementation of OneInterpreter.                                   *)

LEMMA CurrentLemma == IInv => Current = luaState
<1> SUFFICES ASSUME IInv PROVE Current = luaState
  OBVIOUS
<1>1. /\ \A s \in Ids : Alive(s) <=> s = luaState
      /\ luaState \in 0..Len(states) /\ Len(states) \in Nat
  BY Apart DEF IInv, HoldsTheLivingOne, StatesOK
<1>2. CASE luaState = 0
  BY <1>1, <1>2 DEF Current, Ids
<1>3. CASE luaState # 0
  <2>1. luaState \in Ids /\ Alive(luaState)
    BY <1>1, <1>3 DEF Ids
  <2>2. (CHOOSE s \in Ids : Alive(s)) = luaState
    BY <1>1, <2>1
  <2> QED BY <2>1, <2>2 DEF Current
<1> QED BY <1>2, <1>3

(* Interpreters come, fail to come, and go. *)
Same == luaState' = luaState /\ Len(states') = Len(states)
Gone == luaState # 0 /\ luaState' = 0 /\ Len(states') = Len(states)
Come == /\ luaState = 0 /\ luaState' \in {0, Len(states) + 1}
        /\ Len(states') = Len(states) + 1

LEMMA MakeComes ==
  ASSUME IInv, luaState = 0, NEW sugar \in BOOLEAN, Make(sugar) \/ MakeFails
  PROVE  Come
BY MakeLemma DEF Come, Make, MakeFails

LEMMA StepLemma ==
  ASSUME IInv, [Next]_vars PROVE Same \/ Gone \/ Come
<1>1. ASSUME NEW sugar \in BOOLEAN, init(sugar) PROVE Same \/ Come
  <2>1. CASE luaState # 0
    BY <1>1, <2>1, BeginCloseLemma DEF init, BeginClose, Same
  <2>2. CASE luaState = 0
    BY <1>1, <2>2, MakeComes DEF init
  <2> QED BY <2>1, <2>2
<1>2. CASE close
  BY <1>2, BeginCloseLemma DEF close, BeginClose, Same
<1>3. CASE CloseEnds
  <2>1. Top.state \in 1..Len(states) /\ Alive(Top.state)
    BY <1>3, TopLemma DEF CloseEnds, TopRuns, Ids
  <2>2. Top.state = luaState /\ luaState # 0
    BY <2>1, Apart DEF StatesOK, Alive
  <2> QED BY <1>3, <2>2, MoveLemma DEF CloseEnds, Gone
<1>4. CASE InitGoesOn
  <2>1. luaState = 0 /\ Top \in Frames
    BY <1>4, TopLemma DEF InitGoesOn, IInv, InitsWait
  <2> QED BY <1>4, <2>1, MakeComes DEF InitGoesOn, Frames
<1>5. ASSUME NEW kind \in {"call", "async"}, Run(kind) PROVE Same \/ Come
  <2>1. CASE luaState # 0
    BY <1>5, <2>1 DEF Run, Same
  <2>2. CASE luaState = 0
    BY <1>5, <2>2, MakeComes DEF Run
  <2> QED BY <2>1, <2>2
<1>6. CASE Return \/ Yield
  BY <1>6 DEF Return, Yield, Same
<1>7. ASSUME NEW s \in suspended, Resume(s) PROVE Same
  BY <1>7 DEF Resume, Same
<1>8. CASE UsesFreed \/ UNCHANGED vars
  BY <1>8 DEF UsesFreed, vars, Same
<1> QED BY <1>1, <1>2, <1>3, <1>4, <1>5, <1>6, <1>7, <1>8 DEF Next

(* LuaAlchemy makes interpreters one after the other, each when the last   *)
(* is gone, however its methods are called.                                *)
THEOREM Refinement == Spec => ImplementsOneInterpreter
<1>1. Init => Abstract!Init
  <2> SUFFICES ASSUME Init PROVE Abstract!Init
    OBVIOUS
  <2>1. Current = 1
    BY InitIInv, CurrentLemma DEF Init
  <2>2. Len(states) = 1
    BY DEF Init
  <2> QED BY <2>1, <2>2 DEF Abstract!Init
<1>2. IInv /\ IInv' /\ [Next]_vars => [Abstract!Next]_<<Current, Len(states)>>
  <2> SUFFICES ASSUME IInv, IInv', [Next]_vars
               PROVE  [Abstract!Next]_<<Current, Len(states)>>
    OBVIOUS
  <2>1. Current = luaState
    BY CurrentLemma
  <2>2. Current' = luaState'
    <3>1. (IInv => Current = luaState)'
      BY CurrentLemma, PTL
    <3> QED BY <3>1
  <2>3. Same \/ Gone \/ Come
    BY StepLemma
  <2>4. CASE Same
    BY <2>1, <2>2, <2>4 DEF Same
  <2>5. CASE Gone
    BY <2>1, <2>2, <2>5 DEF Gone, Abstract!Next, Abstract!Close
  <2>6. CASE Come
    BY <2>1, <2>2, <2>6 DEF Come, Abstract!Next, Abstract!Make, Abstract!MakeFail
  <2> QED BY <2>3, <2>4, <2>5, <2>6
<1>3. Spec => Abstract!Spec
  BY <1>1, <1>2, Inductive, PTL DEF Spec, Abstract!Spec
<1> QED BY <1>3 DEF ImplementsOneInterpreter

----------------------------------------------------------------------------
(* Freed memory.                                                           *)

(* When Flash alone closes, over no suspended call: init() and close() are *)
(* at the bottom of the stack, a frame of a freed state is one that was    *)
(* suspended while the state was being closed, and so is a call that waits.*)
Excused(s) == Alive(s) \/ s \in late

PoliteInv ==
  /\ \A i \in 1..Len(stack) :
       /\ stack[i].kind = "init" => i = 1
       /\ stack[i].kind = "close" =>
            /\ i = 1 \/ (i = 2 /\ stack[1].kind = "init")
            /\ states[stack[i].state].at # "open"
       /\ stack[i].kind # "init" => Excused(stack[i].state)
  /\ \A s \in suspended : states[s].at = "open" \/ s \in late
  /\ lost => stack # <<>> /\ Top.state \in late

(* PoliteInv for a stack whose frames were there before, over states none  *)
(* of which was moved. *)
KeptStates ==
  /\ Len(states) <= Len(states') /\ Len(states') \in Nat
  /\ \A s \in Ids : states'[s].at = states[s].at

LEMMA KeptLemma ==
  ASSUME IInv, PoliteInv, KeptStates, ~lost, ~lost',
         late \subseteq late',
         NEW n \in 0..Len(stack), Len(stack') = n,
         \A i \in 1..n : stack'[i] = stack[i],
         \A s \in suspended' : s \in Ids /\ (states[s].at = "open" \/ s \in late')
  PROVE  PoliteInv'
<1>1. Len(stack) \in Nat
  BY LenProperties, Apart DEF StackOK
<1>2. \A i \in 1..n : i \in 1..Len(stack) /\ (i = 2 => 1 \in 1..n)
  BY <1>1
<1>3. \A i \in 1..n : stack[i].kind # "init" => stack[i].state \in Ids
  BY <1>2, Apart DEF StackOK, Ids
<1>4. ASSUME NEW i \in 1..n
      PROVE  /\ stack'[i].kind = "init" => i = 1
             /\ stack'[i].kind = "close" =>
                  /\ i = 1 \/ (i = 2 /\ stack'[1].kind = "init")
                  /\ states'[stack'[i].state].at # "open"
             /\ stack'[i].kind # "init" =>
                  states'[stack'[i].state].at # "closed" \/ stack'[i].state \in late'
  BY <1>2, <1>3 DEF PoliteInv, KeptStates, Excused, Alive
<1>5. \A s \in suspended' : states'[s].at = "open" \/ s \in late'
  BY DEF KeptStates
<1> QED BY <1>4, <1>5 DEF PoliteInv, Excused, Alive

LEMMA MakeKeeps ==
  ASSUME IInv, NEW sugar \in BOOLEAN, Make(sugar) \/ MakeFails
  PROVE  KeptStates
<1>1. states \in Seq(State) /\ Len(states) \in Nat
  BY Apart DEF StatesOK
<1>2. PICK new \in State : states' = Append(states, new)
  BY DEF Make, MakeFails, State
<1>3. /\ Len(states') = Len(states) + 1
      /\ \A s \in 1..Len(states) : states'[s] = states[s]
  BY <1>1, <1>2, AppendProperties
<1> QED BY <1>1, <1>3 DEF KeptStates, Ids

LEMMA RestKeeps ==
  ASSUME IInv, states' = states PROVE KeptStates
BY Apart DEF KeptStates, Ids

(* The state held moves on, and no other. *)
LEMMA MovesHeld ==
  ASSUME IInv, luaState # 0, NEW at \in {"open", "closing", "closed"},
         states' = [states EXCEPT ![luaState].at = at]
  PROVE  /\ luaState \in Ids /\ states'[luaState].at = at
         /\ \A s \in Ids : s # luaState => states'[s].at = states[s].at
<1>1. /\ states \in Seq(State) /\ luaState \in 1..Len(states)
      /\ Len(states) \in Nat
  BY Apart DEF StatesOK
<1> DEFINE new == [states[luaState] EXCEPT !.at = at]
<1>2. states[luaState] \in State
  BY <1>1, ElementOfSeq
<1>3. new \in State /\ new.at = at
  BY <1>2 DEF State
<1>4. states' = [states EXCEPT ![luaState] = new]
  OBVIOUS
<1> HIDE DEF new
<1>5. \A s \in 1..Len(states) :
        states'[s] = IF s = luaState THEN new ELSE states[s]
  BY <1>1, <1>3, <1>4, ExceptSeq
<1> QED BY <1>1, <1>3, <1>5 DEF Ids

(* Flash begins to close: nothing else is in progress. *)
LEMMA BeginClosePolite ==
  ASSUME IInv, ~misclosed', MayCall, luaState # 0, BeginClose
  PROVE  /\ stack = <<>> /\ suspended' = {} /\ ~lost' /\ luaState \in Nat
         /\ states'[luaState].at = "closing"
<1>1. states'[luaState].at = "closing" /\ luaState \in Ids
  BY MovesHeld DEF BeginClose
<1>2. luaState \in Nat
  BY <1>1 DEF Ids
<1> QED BY <1>1, <1>2 DEF MayCall, TopRuns, BeginClose

LEMMA closePolite ==
  ASSUME IInv, ~misclosed', close PROVE PoliteInv'
<1> DEFINE c == Frame("close", luaState)
<1>1. /\ stack = <<>> /\ suspended' = {} /\ ~lost' /\ luaState \in Nat
      /\ states'[luaState].at = "closing" /\ stack' = Append(stack, c)
  BY BeginClosePolite DEF close
<1>2. c.kind = "close" /\ c.state = luaState
  BY <1>1, FrameLemma
<1> HIDE DEF c
<1>3. Len(stack') = 1 /\ stack'[1] = c
  BY <1>1
<1> QED BY <1>1, <1>2, <1>3 DEF PoliteInv, Excused, Alive

LEMMA initPolite ==
  ASSUME IInv, PoliteInv, ~misclosed', NEW sugar \in BOOLEAN, init(sugar)
  PROVE  PoliteInv'
<1>1. CASE luaState # 0
  <2> DEFINE f == [Frame("init", 0) EXCEPT !.sugar = sugar]
             c == Frame("close", luaState)
  <2>1. /\ stack = <<>> /\ suspended' = {} /\ ~lost' /\ luaState \in Nat
        /\ states'[luaState].at = "closing" /\ stack' = stack \o <<f, c>>
    BY <1>1, BeginClosePolite DEF init
  <2>2. c.kind = "close" /\ c.state = luaState
    BY <2>1, FrameLemma
  <2>3. f.kind = "init"
    BY DEF Frame
  <2> HIDE DEF f, c
  <2>4. Len(stack') = 2 /\ stack'[1] = f /\ stack'[2] = c
    BY <2>1
  <2>5. \A i \in 1..2 : i = 1 \/ i = 2
    OBVIOUS
  <2> QED BY <2>1, <2>2, <2>3, <2>4, <2>5 DEF PoliteInv, Excused, Alive
<1>2. CASE luaState = 0
  <2>1. KeptStates /\ stack' = stack /\ ~lost /\ ~lost' /\ late' = late
        /\ suspended' = suspended
    BY <1>2, MakeKeeps DEF init, MayCall, TopRuns
  <2>2. Len(stack) \in 0..Len(stack)
    BY LenProperties, Apart DEF StackOK
  <2>3. \A s \in suspended' : s \in Ids /\ (states[s].at = "open" \/ s \in late')
    BY <2>1, Apart DEF PoliteInv, Ids
  <2> QED BY <2>1, <2>2, <2>3, KeptLemma
<1> QED BY <1>1, <1>2

(* What a frame popped off leaves. *)
LEMMA PopKeeps ==
  ASSUME IInv, stack # <<>>, stack' = SubSeq(stack, 1, Len(stack) - 1)
  PROVE  /\ Len(stack) - 1 \in 0..Len(stack) /\ Len(stack') = Len(stack) - 1
         /\ \A i \in 1..Len(stack)-1 : stack'[i] = stack[i]
         /\ Len(stack) \in 1..Len(stack)
<1>1. stack \in Seq(Frames) /\ Len(stack) \in Nat /\ Len(stack) > 0
  BY LenProperties, EmptySeq, Apart DEF StackOK
<1> DEFINE m == Len(stack) - 1
<1>2. m \in Int /\ m = Len(stack) - 1 /\ m - 1 + 1 = m
  BY <1>1
<1>3. \A i \in 1..m : stack[i] \in Frames
  BY <1>1, ElementOfSeq
<1> HIDE DEF m
<1>4. /\ Len(SubSeq(stack, 1, m)) = m
      /\ \A i \in 1..m : SubSeq(stack, 1, m)[i] = stack[i]
  BY <1>1, <1>2, <1>3, SubSeqProperties
<1> QED BY <1>1, <1>2, <1>4

LEMMA CloseEndsPolite ==
  ASSUME IInv, PoliteInv, CloseEnds PROVE PoliteInv'
<1>1. /\ stack # <<>> /\ Top.kind = "close" /\ Top.state \in Ids
      /\ Alive(Top.state) /\ ~lost /\ ~lost' /\ late' = late
      /\ suspended' = suspended /\ stack' = SubSeq(stack, 1, Len(stack) - 1)
  BY TopLemma DEF CloseEnds, TopRuns, Pop
<1>2. Top.state = luaState /\ luaState # 0
  BY <1>1, Apart DEF StatesOK, Alive, Ids
<1>3. /\ Len(stack) \in 1..Len(stack) /\ Len(stack') = Len(stack) - 1
      /\ \A i \in 1..Len(stack)-1 : stack'[i] = stack[i]
  BY <1>1, PopKeeps
<1>4. /\ Len(stack) = 1 \/ (Len(stack) = 2 /\ stack[1].kind = "init")
      /\ states[luaState].at # "open"
  BY <1>1, <1>2, <1>3 DEF PoliteInv, Top
<1>5. \A i \in 1..Len(stack') : i = 1 /\ stack'[i].kind = "init"
  BY <1>3, <1>4
<1>6. \A s \in Ids : s # luaState => states'[s].at = states[s].at
  BY <1>2, MovesHeld DEF CloseEnds
<1>7. \A s \in suspended' : states'[s].at = "open" \/ s \in late'
  BY <1>1, <1>4, <1>6, Apart DEF PoliteInv, Ids
<1> QED BY <1>1, <1>5, <1>7 DEF PoliteInv

LEMMA InitGoesOnPolite ==
  ASSUME IInv, PoliteInv, InitGoesOn PROVE PoliteInv'
<1>1. /\ stack # <<>> /\ Top \in Frames /\ ~lost /\ ~lost' /\ late' = late
      /\ suspended' = suspended /\ stack' = SubSeq(stack, 1, Len(stack) - 1)
  BY TopLemma DEF InitGoesOn, Pop
<1>2. KeptStates
  BY <1>1, MakeKeeps DEF InitGoesOn, Frames
<1>3. \A s \in suspended' : s \in Ids /\ (states[s].at = "open" \/ s \in late')
  BY <1>1, Apart DEF PoliteInv, Ids
<1> QED BY <1>1, <1>2, <1>3, PopKeeps, KeptLemma

LEMMA PopPolite ==
  ASSUME IInv, PoliteInv, Return \/ Yield PROVE PoliteInv'
<1>1. /\ stack # <<>> /\ ~lost /\ ~lost' /\ states' = states
      /\ Top.state \in Ids /\ Alive(Top.state)
      /\ stack' = SubSeq(stack, 1, Len(stack) - 1)
  BY TopLemma DEF Return, Yield, TopRuns, Pop
<1>2. \A s \in suspended : s \in Ids /\ (states[s].at = "open" \/ s \in late)
  BY Apart DEF PoliteInv, Ids
<1>3. /\ late \subseteq late'
      /\ \A s \in suspended' : s \in Ids /\ (states[s].at = "open" \/ s \in late')
  <2>1. CASE Return
    BY <1>2, <2>1 DEF Return
  <2>2. CASE Yield
    <3> DEFINE t == Top.state
    <3>1. states[t] \in State
      BY <1>1, Apart, ElementOfSeq DEF StatesOK, Ids
    <3>2. states[t].at = "open" \/ states[t].at = "closing"
      BY <1>1, <3>1 DEF State, Alive
    <3>3. /\ suspended' = suspended \cup {t}
          /\ late' = IF states[t].at = "closing" THEN late \cup {t} ELSE late
      BY <2>2 DEF Yield
    <3>4. t \in Ids /\ (states[t].at = "open" \/ t \in late')
      BY <1>1, <3>2, <3>3
    <3> HIDE DEF t
    <3> QED BY <1>2, <3>3, <3>4
  <2> QED BY <2>1, <2>2
<1> QED BY <1>1, <1>3, RestKeeps, PopKeeps, KeptLemma

LEMMA ResumePolite ==
  ASSUME IInv, PoliteInv, NEW s \in suspended, Resume(s) PROVE PoliteInv'
<1> DEFINE f == Frame("async", s)
<1>1. /\ s \in Nat /\ stack' = <<f>> /\ states' = states /\ late' = late
      /\ suspended' \subseteq suspended /\ ~lost'
  BY Apart DEF Resume
<1>2. f.kind = "async" /\ f.state = s
  BY <1>1, FrameLemma
<1> HIDE DEF f
<1>3. Len(stack') = 1 /\ stack'[1] = f
  BY <1>1
<1>4. states[s].at # "closed" \/ s \in late
  BY DEF PoliteInv
<1> QED BY <1>1, <1>2, <1>3, <1>4 DEF PoliteInv, Excused, Alive

LEMMA RunPolite ==
  ASSUME IInv, IInv', PoliteInv, NEW kind \in {"call", "async"}, Run(kind)
  PROVE  PoliteInv'
<1>1. /\ ~lost /\ ~lost' /\ late' = late /\ suspended' = suspended
      /\ stack \in Seq(Frames) /\ Len(stack) \in Nat
      /\ \A s \in suspended : s \in Ids /\ (states[s].at = "open" \/ s \in late)
  BY LenProperties, Apart
     DEF Run, MayCall, TopRuns, PoliteInv, Ids, StackOK
<1>2. KeptStates
  BY RestKeeps, MakeKeeps DEF Run
<1>3. CASE stack' = stack
  <2>1. Len(stack) \in 0..Len(stack)
    BY <1>1
  <2> QED BY <1>1, <1>2, <1>3, <2>1, KeptLemma
<1>4. CASE stack' = Append(stack, Frame(kind, luaState')) /\ luaState' # 0
  <2> DEFINE f == Frame(kind, luaState')
  <2>1. luaState' \in 1..Len(states') /\ states'[luaState'].at # "closed"
    BY <1>2, <1>4 DEF KeptStates, IInv, TypeOK, HoldsTheLivingOne, Alive, Ids
  <2>2. f \in Frames /\ f.kind = kind /\ f.state = luaState'
    BY <1>2, <2>1, FrameLemma DEF KeptStates
  <2> HIDE DEF f
  <2>3. /\ Len(stack') = Len(stack) + 1 /\ stack'[Len(stack) + 1] = f
        /\ \A i \in 1..Len(stack) : stack'[i] = stack[i]
    BY <1>1, <1>4, <2>2, AppendProperties DEF f
  <2>4. \A i \in 1..Len(stack)+1 : i = Len(stack) + 1 \/ i \in 1..Len(stack)
    BY <1>1
  <2>5. \A i \in 1..Len(stack) :
           /\ stack[i].kind # "init" => stack[i].state \in Ids
           /\ i = 2 => 1 \in 1..Len(stack)
    BY <1>1, Apart DEF StackOK, Ids
  <2>6. ASSUME NEW i \in 1..Len(stack)
        PROVE  /\ stack'[i].kind = "init" => i = 1
               /\ stack'[i].kind = "close" =>
                    /\ i = 1 \/ (i = 2 /\ stack'[1].kind = "init")
                    /\ states'[stack'[i].state].at # "open"
               /\ stack'[i].kind # "init" =>
                    states'[stack'[i].state].at # "closed" \/ stack'[i].state \in late'
    BY <1>1, <1>2, <2>3, <2>5 DEF PoliteInv, KeptStates, Excused, Alive
  <2>7. \A s \in suspended' : states'[s].at = "open" \/ s \in late'
    BY <1>1, <1>2 DEF KeptStates
  <2> QED BY <1>1, <2>1, <2>2, <2>3, <2>4, <2>6, <2>7 DEF PoliteInv, Excused, Alive
<1>5. stack' = stack \/ (stack' = Append(stack, Frame(kind, luaState')) /\ luaState' # 0)
  BY Apart DEF Run, Make
<1> QED BY <1>3, <1>4, <1>5

LEMMA UsesFreedPolite ==
  ASSUME IInv, PoliteInv, UsesFreed PROVE PoliteInv'
<1>1. stack # <<>> /\ Top.state \in late
  BY TopLemma DEF UsesFreed, PoliteInv, Excused, Top
<1> QED BY <1>1 DEF UsesFreed, PoliteInv, Excused, Alive, Top

LEMMA MisclosedStays == misclosed /\ [Next]_vars => misclosed'
BY DEF Next, vars, init, close, BeginClose, CloseEnds, InitGoesOn, Run, Return,
       Yield, Resume, UsesFreed

LEMMA NextPolite ==
  IInv /\ IInv' /\ (misclosed \/ PoliteInv) /\ [Next]_vars
    => misclosed' \/ PoliteInv'
<1> SUFFICES ASSUME IInv, IInv', misclosed \/ PoliteInv, [Next]_vars,
                    ~misclosed'
             PROVE  PoliteInv'
  OBVIOUS
<1>0. PoliteInv
  BY MisclosedStays
<1>1. ASSUME NEW sugar \in BOOLEAN, init(sugar) PROVE PoliteInv'
  BY <1>0, <1>1, initPolite
<1>2. CASE close
  BY <1>0, <1>2, closePolite
<1>3. CASE CloseEnds
  BY <1>0, <1>3, CloseEndsPolite
<1>4. CASE InitGoesOn
  BY <1>0, <1>4, InitGoesOnPolite
<1>5. CASE Run("call") \/ Run("async")
  BY <1>0, <1>5, RunPolite
<1>6. CASE Return \/ Yield
  BY <1>0, <1>6, PopPolite
<1>7. ASSUME NEW s \in suspended, Resume(s) PROVE PoliteInv'
  BY <1>0, <1>7, ResumePolite
<1>8. CASE UsesFreed
  BY <1>0, <1>8, UsesFreedPolite
<1>9. CASE UNCHANGED vars
  BY <1>0, <1>9 DEF vars, PoliteInv, Excused, Alive, Top
<1> QED BY <1>1, <1>2, <1>3, <1>4, <1>5, <1>6, <1>7, <1>8, <1>9 DEF Next

(* A freed lua_State is used only by a program that closes the object from *)
(* Lua or over a suspended call, or by a call that a handler started       *)
(* asynchronously and that was suspended while its state was being closed. *)
THEOREM LostOnlyIfAlways == Spec => []LostOnlyIf
<1> DEFINE Polite == misclosed \/ PoliteInv
<1>1. Init => Polite
  BY DEF Init, PoliteInv
<1>2. IInv /\ IInv' /\ Polite /\ [Next]_vars => Polite'
  BY NextPolite
<1>3. Polite => LostOnlyIf
  BY DEF PoliteInv, LostOnlyIf
<1> HIDE DEF Polite
<1> QED BY <1>1, <1>2, <1>3, Inductive, PTL DEF Spec

----------------------------------------------------------------------------
(* The sugar.                                                              *)

(* The init() that goes on next, when the state it closes is gone, makes   *)
(* the state last asked for: one that another init() overtook is above a   *)
(* frame of a freed state, and never goes on.                              *)
Remembers ==
  \A i \in 1..Len(stack) :
    (/\ stack[i].kind = "init"
     /\ \A j \in i+1..Len(stack) : stack[j].kind # "init"
     /\ i < Len(stack) => Alive(stack[i+1].state))
    => stack[i].sugar = asked

LEMMA FrameAbove ==
  ASSUME IInv, NEW i \in 1..Len(stack), stack[i].kind = "init", i < Len(stack)
  PROVE  i+1 \in 1..Len(stack) /\ stack[i+1].kind = "close"
         /\ stack[i+1].state \in Ids
<1>1. Len(stack) \in Nat
  BY LenProperties, Apart DEF StackOK
<1>2. i \in 1..Len(stack)-1 /\ i+1 \in 1..Len(stack)
  BY <1>1
<1>3. stack[i+1].kind = "close"
  BY <1>2, Apart DEF StackOK
<1> QED BY <1>2, <1>3, Apart DEF StackOK, Ids

(* The frames that stay forget nothing when no state comes back to life    *)
(* and no init() gets to the top.                                          *)
LEMMA KeepsRemembering ==
  ASSUME IInv, Remembers, NEW n \in 0..Len(stack), Len(stack') \in Nat,
         n <= Len(stack'),
         \A i \in 1..n : stack'[i] = stack[i],
         \A i \in n+1..Len(stack') : stack'[i].kind # "init",
         \A i \in n+1..Len(stack) : stack[i].kind # "init",
         n > 0 => stack[n].kind # "init",
         asked' = asked,
         \A s \in Ids : Alive(s)' => Alive(s)
  PROVE  Remembers'
<1>1. Len(stack) \in Nat
  BY LenProperties, Apart DEF StackOK
<1> SUFFICES ASSUME NEW i \in 1..Len(stack'), stack'[i].kind = "init",
                    \A j \in i+1..Len(stack') : stack'[j].kind # "init",
                    i < Len(stack') => states'[stack'[i+1].state].at # "closed"
             PROVE  stack'[i].sugar = asked
  BY DEF Remembers, Alive
<1>2. i \in 1..n /\ i # n /\ i+1 \in 1..n /\ i < Len(stack')
      /\ i \in 1..Len(stack) /\ i < Len(stack)
  BY <1>1
<1>3. stack'[i] = stack[i] /\ stack'[i+1] = stack[i+1]
  BY <1>2
<1>4. \A j \in i+1..Len(stack) : stack[j].kind # "init"
  <2> TAKE j \in i+1..Len(stack)
  <2>1. CASE j <= n
    BY <1>1, <1>2, <2>1
  <2>2. CASE j > n
    BY <1>1, <2>2
  <2> QED BY <1>1, <2>1, <2>2
<1>5. stack[i+1].state \in Ids
  BY <1>2, <1>3, FrameAbove
<1>6. Alive(stack[i+1].state)
  BY <1>2, <1>3, <1>5 DEF Alive
<1> QED BY <1>2, <1>3, <1>4, <1>6 DEF Remembers

(* No state is left: every init() but one on top has been overtaken.       *)
LEMMA AllOvertaken ==
  ASSUME IInv, NEW n \in 0..Len(stack), Len(stack') = n,
         \A i \in 1..n : stack'[i] = stack[i],
         n > 0 => stack[n].kind # "init",
         \A s \in Ids : ~Alive(s)'
  PROVE  Remembers'
<1>1. Len(stack) \in Nat
  BY LenProperties, Apart DEF StackOK
<1> SUFFICES ASSUME NEW i \in 1..n, stack'[i].kind = "init",
                    i < n => states'[stack'[i+1].state].at # "closed"
             PROVE  FALSE
  BY DEF Remembers, Alive
<1>2. i # n /\ i+1 \in 1..n /\ i \in 1..Len(stack) /\ i < Len(stack) /\ i < n
  BY <1>1
<1>3. stack[i+1].state \in Ids
  BY <1>2, FrameAbove
<1> QED BY <1>2, <1>3 DEF Alive

(* Frames of init() are under others, or none of the object's states is    *)
(* there.                                                                  *)
LEMMA TopNotInit ==
  ASSUME IInv, TopRuns
  PROVE  Len(stack) \in Nat /\ (Len(stack) > 0 => stack[Len(stack)].kind # "init")
BY LenProperties, EmptySeq, Apart DEF StackOK, TopRuns, Top

LEMMA NoneAlive ==
  ASSUME IInv, luaState = 0
  PROVE  \A s \in Ids : ~Alive(s)
<1>1. \A s \in Ids : s # 0
  BY Apart DEF Ids
<1> QED BY <1>1 DEF IInv, HoldsTheLivingOne

(* What the new state leaves of the old ones, and its sugar.               *)
LEMMA MadeLemma ==
  ASSUME IInv, luaState = 0, NEW sugar \in BOOLEAN,
         Make(sugar) \/ (sugar /\ MakeFails)
  PROVE  /\ \A s \in Ids : ~Alive(s)'
         /\ \A s \in Ids' : states'[s].at = "open" => states'[s].sugar = sugar
<1>1. states \in Seq(State) /\ Len(states) \in Nat
  BY Apart DEF StatesOK
<1>2. \A s \in Ids : states[s].at = "closed"
  BY NoneAlive DEF Alive
<1>3. PICK new \in State : states' = Append(states, new)
                           /\ (new.at = "open" => new.sugar = sugar)
  <2>1. /\ [sugar |-> sugar, at |-> "open"] \in State
        /\ [sugar |-> TRUE, at |-> "closed"] \in State
    BY DEF State
  <2> QED BY <2>1 DEF Make, MakeFails
<1>4. /\ Len(states') = Len(states) + 1
      /\ \A s \in 1..Len(states) : states'[s] = states[s]
      /\ states'[Len(states) + 1] = new
  BY <1>1, <1>3, AppendProperties
<1>5. \A s \in Ids' : s = Len(states) + 1 \/ s \in Ids
  BY <1>1, <1>4 DEF Ids
<1> QED BY <1>2, <1>3, <1>4, <1>5 DEF Alive, Ids

(* A state that moves on keeps its sugar.                                  *)
LEMMA MovedLemma ==
  ASSUME IInv, luaState # 0, NEW at \in {"closing", "closed"},
         states' = [states EXCEPT ![luaState].at = at],
         luaState' = IF at = "closed" THEN 0 ELSE luaState
  PROVE  /\ \A s \in Ids' : states'[s].at # "open"
         /\ \A s \in Ids : Alive(s)' => Alive(s)
         /\ at = "closed" => \A s \in Ids : ~Alive(s)'
<1>1. /\ luaState \in Ids /\ states'[luaState].at = at
      /\ \A s \in Ids : s # luaState => states'[s].at = states[s].at
  BY MovesHeld
<1>2. Len(states') = Len(states) /\ Ids' = Ids
  BY MoveLemma DEF Ids
<1>3. \A s \in Ids : Alive(s) <=> s = luaState
  BY DEF IInv, HoldsTheLivingOne
<1> QED BY <1>1, <1>2, <1>3 DEF Alive

Sugared == Remembers /\ SugarWhenAsked

LEMMA SugaredClose ==
  ASSUME IInv, Sugared, close PROVE Sugared'
<1>1. /\ TopRuns /\ luaState # 0 /\ asked' = asked
      /\ stack' = Append(stack, Frame("close", luaState))
  BY DEF close, MayCall
<1>2. /\ \A s \in Ids' : states'[s].at # "open"
      /\ \A s \in Ids : Alive(s)' => Alive(s)
  BY <1>1, MovedLemma DEF close, BeginClose
<1>3. /\ stack \in Seq(Frames) /\ luaState \in Nat
      /\ Len(stack) \in Nat /\ (Len(stack) > 0 => stack[Len(stack)].kind # "init")
  BY <1>1, Apart, TopNotInit DEF StackOK, StatesOK
<1>4. Frame("close", luaState) \in Frames /\ Frame("close", luaState).kind = "close"
  BY <1>3, FrameLemma
<1>5. /\ Len(stack') = Len(stack) + 1
      /\ \A i \in 1..Len(stack) : stack'[i] = stack[i]
      /\ stack'[Len(stack) + 1].kind = "close"
  BY <1>1, <1>3, <1>4, AppendProperties
<1>6. Remembers'
  <2>1. /\ Len(stack) \in 0..Len(stack) /\ Len(stack) <= Len(stack')
        /\ \A i \in Len(stack)+1..Len(stack') : stack'[i].kind # "init"
        /\ \A i \in Len(stack)+1..Len(stack) : stack[i].kind # "init"
        /\ Len(stack') \in Nat
    BY <1>3, <1>5
  <2> QED BY <1>1, <1>2, <1>3, <1>5, <2>1, KeepsRemembering DEF Sugared
<1> QED BY <1>2, <1>6 DEF Sugared, SugarWhenAsked

LEMMA SugaredInit ==
  ASSUME IInv, Sugared, NEW sugar \in BOOLEAN, init(sugar) PROVE Sugared'
<1>1. /\ TopRuns /\ asked' = sugar /\ stack \in Seq(Frames)
      /\ Len(stack) \in Nat /\ (Len(stack) > 0 => stack[Len(stack)].kind # "init")
  BY TopNotInit, Apart DEF init, MayCall, StackOK
<1>2. CASE luaState # 0
  <2> DEFINE f == [Frame("init", 0) EXCEPT !.sugar = sugar]
             c == Frame("close", luaState)
  <2>1. stack' = stack \o <<f, c>>
    BY <1>2 DEF init
  <2>2. /\ f \in Frames /\ f.kind = "init" /\ f.sugar = sugar
        /\ c \in Frames /\ c.kind = "close"
    <3>1. f \in Frames /\ f.kind = "init" /\ f.sugar = sugar
      BY DEF Frame, Frames
    <3>2. c \in Frames /\ c.kind = "close"
      BY Apart, FrameLemma DEF StatesOK
    <3> QED BY <3>1, <3>2
  <2>3. \A s \in Ids' : states'[s].at # "open"
    BY <1>2, MovedLemma DEF init, BeginClose
  <2> HIDE DEF f, c
  <2> DEFINE k == Len(stack) + 1
  <2>4. Len(stack') = k + 1 /\ stack'[k] = f /\ stack'[k+1] = c
    <3>1. /\ <<f, c>> \in Seq(Frames) /\ Len(<<f, c>>) = 2
          /\ <<f, c>>[1] = f /\ <<f, c>>[2] = c
      BY <2>2
    <3>2. /\ Len(stack') = Len(stack) + 2
          /\ \A i \in 1..Len(stack)+2 : stack'[i] =
               IF i <= Len(stack) THEN stack[i] ELSE <<f, c>>[i - Len(stack)]
      BY <1>1, <2>1, <3>1, ConcatProperties
    <3>3. /\ k \in 1..Len(stack)+2 /\ k+1 \in 1..Len(stack)+2
          /\ ~(k <= Len(stack)) /\ ~(k+1 <= Len(stack))
          /\ k - Len(stack) = 1 /\ k+1 - Len(stack) = 2
          /\ k + 1 = Len(stack) + 2
      BY <1>1
    <3> QED BY <3>1, <3>2, <3>3
  <2>5. k \in Nat /\ k \in 1..Len(stack')
    BY <1>1, <2>4
  <2> HIDE DEF k
  <2>6. Remembers'
    <3> SUFFICES ASSUME NEW i \in 1..Len(stack'), stack'[i].kind = "init",
                        \A j \in i+1..Len(stack') : stack'[j].kind # "init"
                 PROVE  stack'[i].sugar = sugar
      BY <1>1 DEF Remembers, Alive
    <3>1. ~(i < k)
      <4> SUFFICES ASSUME i < k PROVE FALSE
        OBVIOUS
      <4>1. k \in i+1..Len(stack')
        BY <2>4, <2>5
      <4> QED BY <2>2, <2>4, <4>1
    <3>2. i # k + 1
      BY <2>2, <2>4
    <3>3. i = k
      BY <2>4, <2>5, <3>1, <3>2
    <3> QED BY <2>2, <2>4, <3>3
  <2> QED BY <2>3, <2>6 DEF Sugared, SugarWhenAsked
<1>3. CASE luaState = 0
  <2>1. stack' = stack /\ (Make(sugar) \/ (sugar /\ MakeFails))
    BY <1>3 DEF init
  <2>2. /\ \A s \in Ids : ~Alive(s)'
        /\ \A s \in Ids' : states'[s].at = "open" => states'[s].sugar = sugar
    BY <1>3, <2>1, MadeLemma
  <2>3. Remembers'
    <3>1. Len(stack) \in 0..Len(stack)
      BY <1>1
    <3>2. /\ Len(stack') = Len(stack)
          /\ \A i \in 1..Len(stack) : stack'[i] = stack[i]
      BY <2>1
    <3> QED BY <1>1, <2>2, <3>1, <3>2, AllOvertaken
  <2> QED BY <1>1, <2>2, <2>3 DEF Sugared, SugarWhenAsked
<1> QED BY <1>2, <1>3

(* The frame on top goes. *)
LEMMA PoppedFrames ==
  ASSUME IInv, stack # <<>>, stack' = Pop
  PROVE  /\ Len(stack) \in Nat /\ Len(stack) > 0
         /\ Len(stack)-1 \in 0..Len(stack)
         /\ Len(stack') = Len(stack)-1
         /\ \A i \in 1..Len(stack)-1 : stack'[i] = stack[i]
         /\ Len(stack)-1 > 0 /\ stack[Len(stack)-1].kind = "init" =>
              Top.kind = "close"
<1>1. stack \in Seq(Frames) /\ Len(stack) \in Nat /\ Len(stack) > 0
  BY LenProperties, EmptySeq, Apart DEF StackOK
<1>2. \A i \in 1..Len(stack)-1 : stack[i] \in Frames
  BY <1>1, ElementOfSeq
<1> DEFINE m == Len(stack) - 1
<1>3. m \in Int /\ m = Len(stack) - 1 /\ 1 <= m + 1 /\ m - 1 + 1 = m
      /\ m \in 0..Len(stack)
  BY <1>1
<1> HIDE DEF m
<1>4. /\ Len(SubSeq(stack, 1, m)) = m
      /\ \A i \in 1..m : SubSeq(stack, 1, m)[i] = stack[i]
  BY <1>1, <1>2, <1>3, SubSeqProperties
<1>5. m > 0 /\ stack[m].kind = "init" => Top.kind = "close"
  <2>1. m > 0 => m \in 1..Len(stack)-1 /\ m + 1 = Len(stack)
    BY <1>1, <1>3
  <2> QED BY <2>1, Apart DEF StackOK, Top
<1> QED BY <1>1, <1>3, <1>4, <1>5 DEF Pop

LEMMA SugaredCloseEnds ==
  ASSUME IInv, Sugared, CloseEnds PROVE Sugared'
<1> DEFINE m == Len(stack) - 1
<1>1. /\ stack # <<>> /\ Top.kind = "close" /\ Top.state \in Ids
      /\ Alive(Top.state) /\ stack' = Pop /\ asked' = asked
  BY TopLemma DEF CloseEnds, TopRuns
<1>2. Top.state = luaState /\ luaState # 0
  BY <1>1, Apart DEF StatesOK, Alive, Ids
<1>3. /\ \A s \in Ids' : states'[s].at # "open"
      /\ \A s \in Ids : ~Alive(s)'
  BY <1>2, MovedLemma DEF CloseEnds
<1>4. /\ Len(stack) \in Nat /\ Len(stack) > 0 /\ Len(stack') = m
      /\ \A i \in 1..m : stack'[i] = stack[i]
  BY <1>1, PoppedFrames
<1>5. Remembers'
  <2> SUFFICES ASSUME NEW i \in 1..m, stack[i].kind = "init",
                      i < m => states'[stack'[i+1].state].at # "closed"
               PROVE  stack[i].sugar = asked
    BY <1>1, <1>4 DEF Remembers, Alive
  <2>1. i \in 1..Len(stack) /\ i < Len(stack)
    BY <1>4
  <2>2. stack[i+1].kind = "close" /\ stack[i+1].state \in Ids
    BY <2>1, FrameAbove
  <2>3. CASE i < m
    <3>1. i+1 \in 1..m
      BY <1>4, <2>3
    <3> QED BY <1>3, <1>4, <2>2, <2>3, <3>1 DEF Alive
  <2>4. CASE i = m
    <3>1. i+1 = Len(stack) /\ stack[i+1] = Top
      BY <1>4, <2>4 DEF Top
    <3>2. \A j \in i+1..Len(stack) : j = i+1
      BY <1>4, <3>1
    <3> QED BY <1>1, <2>1, <2>2, <3>1, <3>2 DEF Sugared, Remembers
  <2> QED BY <1>4, <2>3, <2>4
<1> QED BY <1>3, <1>5 DEF Sugared, SugarWhenAsked

LEMMA SugaredGoesOn ==
  ASSUME IInv, Sugared, InitGoesOn PROVE Sugared'
<1> DEFINE m == Len(stack) - 1
<1>1. /\ stack # <<>> /\ Top.kind = "init" /\ Top \in Frames /\ luaState = 0
      /\ stack' = Pop /\ asked' = asked
      /\ Make(Top.sugar) \/ (Top.sugar /\ MakeFails)
  BY TopLemma DEF InitGoesOn, IInv, InitsWait
<1>2. /\ Len(stack) \in Nat /\ Len(stack) > 0 /\ Len(stack') = m
      /\ m \in 0..Len(stack) /\ \A i \in 1..m : stack'[i] = stack[i]
      /\ m > 0 => stack[m].kind # "init"
  BY <1>1, PoppedFrames
<1>3. Top.sugar = asked
  <2>1. /\ Len(stack) \in 1..Len(stack) /\ ~(Len(stack) < Len(stack))
        /\ Len(stack)+1..Len(stack) = {}
    BY <1>2
  <2> QED BY <1>1, <2>1 DEF Sugared, Remembers, Top
<1>4. /\ \A s \in Ids : ~Alive(s)'
      /\ \A s \in Ids' : states'[s].at = "open" => states'[s].sugar = Top.sugar
  <2>1. Top.sugar \in BOOLEAN
    BY <1>1 DEF Frames
  <2> QED BY <1>1, <2>1, MadeLemma
<1>5. Remembers'
  BY <1>2, <1>4, AllOvertaken
<1> QED BY <1>1, <1>3, <1>4, <1>5 DEF Sugared, SugarWhenAsked

LEMMA SugaredRun ==
  ASSUME IInv, Sugared, NEW kind \in {"call", "async"}, Run(kind)
  PROVE  Sugared'
<1>1. /\ TopRuns /\ asked' = asked /\ stack \in Seq(Frames)
      /\ Len(stack) \in Nat /\ (Len(stack) > 0 => stack[Len(stack)].kind # "init")
      /\ Len(stack) \in 0..Len(stack) /\ Len(states) \in Nat
      /\ Len(stack)+1..Len(stack) = {}
  BY TopNotInit, Apart DEF Run, MayCall, StackOK
<1>2. /\ \A s \in Ids : Alive(s)' => Alive(s)
      /\ SugarWhenAsked'
  <2>1. CASE luaState # 0
    BY <1>1, <2>1 DEF Run, Sugared, SugarWhenAsked, Alive, Ids
  <2>2. CASE luaState = 0
    <3>1. Make(TRUE) \/ MakeFails
      BY <2>2 DEF Run
    <3>2. /\ \A s \in Ids : ~Alive(s)'
          /\ \A s \in Ids' : states'[s].at = "open" => states'[s].sugar = TRUE
      BY <2>2, <3>1, MadeLemma
    <3> QED BY <3>2 DEF SugarWhenAsked
  <2> QED BY <2>1, <2>2
<1>3. CASE stack' = stack
  <2>1. Remembers'
    BY <1>1, <1>2, <1>3, KeepsRemembering DEF Sugared
  <2> QED BY <1>2, <2>1 DEF Sugared
<1>4. CASE \E s \in Nat : stack' = Append(stack, Frame(kind, s))
  <2>1. PICK s \in Nat : stack' = Append(stack, Frame(kind, s))
    BY <1>4
  <2>2. Frame(kind, s) \in Frames /\ Frame(kind, s).kind # "init"
    BY FrameLemma
  <2>3. /\ Len(stack') = Len(stack) + 1
        /\ \A i \in 1..Len(stack) : stack'[i] = stack[i]
        /\ stack'[Len(stack) + 1] = Frame(kind, s)
    BY <1>1, <2>1, <2>2, AppendProperties
  <2>4. /\ Len(stack) <= Len(stack') /\ Len(stack') \in Nat
        /\ \A i \in Len(stack)+1..Len(stack') : stack'[i].kind # "init"
    BY <1>1, <2>2, <2>3
  <2>5. Remembers'
    BY <1>1, <1>2, <2>3, <2>4, KeepsRemembering DEF Sugared
  <2> QED BY <1>2, <2>5 DEF Sugared
<1>5. luaState \in Nat /\ Len(states) + 1 \in Nat
  BY <1>1, Apart DEF StatesOK
<1> QED BY <1>3, <1>4, <1>5 DEF Run

LEMMA SugaredPop ==
  ASSUME IInv, Sugared, Return \/ Yield PROVE Sugared'
<1> DEFINE m == Len(stack) - 1
<1>1. /\ stack # <<>> /\ Top.kind \in {"call", "async"}
      /\ stack' = Pop /\ asked' = asked /\ states' = states
  BY DEF Return, Yield
<1>2. /\ Len(stack) \in Nat /\ Len(stack) > 0 /\ m \in 0..Len(stack)
      /\ Len(stack') = m /\ \A i \in 1..m : stack'[i] = stack[i]
      /\ m > 0 => stack[m].kind # "init"
  BY <1>1, PoppedFrames
<1>3. /\ m+1..Len(stack') = {} /\ m <= Len(stack') /\ Len(stack') \in Nat
      /\ \A i \in m+1..Len(stack) : stack[i] = Top
  <2>1. \A i \in m+1..Len(stack) : i = Len(stack)
    BY <1>2
  <2> QED BY <1>2, <2>1 DEF Top
<1>4. \A s \in Ids : Alive(s)' => Alive(s)
  BY <1>1 DEF Alive
<1>5. Remembers'
  BY <1>1, <1>2, <1>3, <1>4, KeepsRemembering DEF Sugared
<1> QED BY <1>1, <1>5 DEF Sugared, SugarWhenAsked, Ids

LEMMA SugaredResume ==
  ASSUME IInv, Sugared, NEW s \in suspended, Resume(s) PROVE Sugared'
<1>1. /\ stack' = <<Frame("async", s)>> /\ asked' = asked /\ states' = states
      /\ s \in Nat
  BY Apart DEF Resume
<1>2. Frame("async", s).kind = "async"
  BY <1>1, FrameLemma
<1>3. Remembers'
  BY <1>1, <1>2 DEF Remembers
<1> QED BY <1>1, <1>3 DEF Sugared, SugarWhenAsked, Ids

LEMMA SugaredNext ==
  IInv /\ Sugared /\ [Next]_vars => Sugared'
<1> SUFFICES ASSUME IInv, Sugared, [Next]_vars PROVE Sugared'
  OBVIOUS
<1>1. ASSUME NEW sugar \in BOOLEAN, init(sugar) PROVE Sugared'
  BY <1>1, SugaredInit
<1>2. CASE close
  BY <1>2, SugaredClose
<1>3. CASE CloseEnds
  BY <1>3, SugaredCloseEnds
<1>4. CASE InitGoesOn
  BY <1>4, SugaredGoesOn
<1>5. CASE Run("call") \/ Run("async")
  BY <1>5, SugaredRun
<1>6. CASE Return \/ Yield
  BY <1>6, SugaredPop
<1>7. ASSUME NEW s \in suspended, Resume(s) PROVE Sugared'
  BY <1>7, SugaredResume
<1>8. CASE UsesFreed \/ UNCHANGED vars
  BY <1>8 DEF UsesFreed, vars, Sugared, Remembers, SugarWhenAsked, Alive, Ids
<1> QED BY <1>1, <1>2, <1>3, <1>4, <1>5, <1>6, <1>7, <1>8 DEF Next

(* LuaAlchemy.as, init() and the calls that initialize on demand: however  *)
(* they nest with close() and its handlers, a state that can be used has   *)
(* the sugar whenever it was asked for last.                               *)
THEOREM SugarWhenAskedAlways == Spec => []SugarWhenAsked
<1>1. Init => Sugared
  <2> SUFFICES ASSUME Init PROVE Sugared
    OBVIOUS
  <2>1. Len(stack) = 0 /\ Remembers
    BY DEF Init, Remembers
  <2>2. \A s \in Ids : states[s].sugar = asked
    <3>1. states = <<[sugar |-> asked, at |-> "open"]>>
      BY DEF Init
    <3>2. Len(states) = 1 /\ states[1].sugar = asked
      BY <3>1
    <3> QED BY <3>2 DEF Ids
  <2> QED BY <2>1, <2>2 DEF Sugared, SugarWhenAsked
<1>2. Sugared => SugarWhenAsked
  BY DEF Sugared
<1> QED BY <1>1, <1>2, SugaredNext, Inductive, PTL DEF Spec
=============================================================================
