-------------------------- MODULE CoreEngineProofs --------------------------
(***************************************************************************)
(* For any number of callers, closers and instances: the pool never holds  *)
(* more than MaxInstances instances, no two calls share one, and no failed *)
(* instance is served again.                                               *)
(*                                                                         *)
(* The bound is not inductive by itself: acquire sees an empty pool, drops *)
(* the lock, and creates an instance later, while others are returned.     *)
(* The invariant therefore counts a call from the moment it decides to     *)
(* create an instance (Owners) together with the instances nobody uses     *)
(* (Reserve); a call only decides so when the reserve is empty and it has  *)
(* one of the MaxInstances tokens itself.                                  *)
(***************************************************************************)
EXTENDS CoreEngine, FiniteSetTheorems, TLAPS

Reserve == Pooled \cup detached

\* A load has no concurrent calls, and only a loaded engine has a pool.
Loading ==
    /\ phase # "ready" =>
         idle = <<>> /\ \A c \in Callers : pc[c] = "idle"
    /\ IF phase = "negotiate"
         THEN first \in open /\ ~closed
         ELSE first = NoInstance
    /\ phase \in {"compile", "instantiate"} => ~closed

\* Close has emptied the pool, and only Close does.
Closing ==
    /\ closed => idle = <<>>
    /\ ~closed => /\ detached = {} /\ runtime
                  /\ \A k \in Closers \cup {Loader} : closePc[k] # "instances"

\* Every open instance has an owner, and every name has at most one.
Owned ==
    /\ \A c \in Callers :
         inst[c] # NoInstance <=> pc[c] \in {"invoke", "discard", "release"}
    /\ open \subseteq Reserve \cup Held \cup {first}

\* Only a call that is about to discard its instance holds a failed one, and
\* one that is about to return it to an open engine holds an open one.
Clean ==
    /\ \A i \in failed : \E c \in Callers : inst[c] = i /\ pc[c] = "discard"
    /\ ~closed => \A c \in Callers : pc[c] = "release" => inst[c] \in open

Tokens == active = Cardinality(Active)

Budget == Cardinality(Owners) + Cardinality(Reserve) <= MaxInstances

IInv ==
    /\ TypeOK /\ Loading /\ Closing /\ Owned /\ Clean
    /\ Exclusive /\ PoolIsClean /\ Tokens /\ Budget

-----------------------------------------------------------------------------
(* Stacks and finite sets.                                                 *)

Elems(s) == {s[n] : n \in 1..Len(s)}
Distinct(s) == \A m, n \in 1..Len(s) : s[m] = s[n] => m = n

\* A push adds one element.
LEMMA PushElems ==
    ASSUME NEW s \in Seq(Instances), NEW i \in Instances
    PROVE  /\ Elems(Append(s, i)) = Elems(s) \cup {i}
           /\ Distinct(s) /\ i \notin Elems(s) => Distinct(Append(s, i))
  BY DEF Elems, Distinct

\* A pop of a stack without duplicates removes its last element.
LEMMA PopElems ==
    ASSUME NEW s \in Seq(Instances), s # <<>>, Distinct(s)
    PROVE  /\ SubSeq(s, 1, Len(s) - 1) \in Seq(Instances)
           /\ s[Len(s)] \in Elems(s) /\ s[Len(s)] \in Instances
           /\ Elems(SubSeq(s, 1, Len(s) - 1)) = Elems(s) \ {s[Len(s)]}
           /\ Distinct(SubSeq(s, 1, Len(s) - 1))
  BY DEF Elems, Distinct

\* Pooled instances are instances, and an empty pool has none.
LEMMA ElemsFacts ==
    /\ \A s \in Seq(Instances) : Elems(s) \subseteq Instances
    /\ Elems(<<>>) = {} /\ Distinct(<<>>)
  BY DEF Elems, Distinct

\* The sets the counts are about are finite.
LEMMA Counted ==
    ASSUME TypeOK
    PROVE  /\ Pooled \subseteq Instances
           /\ IsFiniteSet(Owners) /\ IsFiniteSet(Active) /\ IsFiniteSet(Reserve)
           /\ Cardinality(Owners) \in Nat /\ Cardinality(Active) \in Nat
           /\ Cardinality(Reserve) \in Nat
           /\ Cardinality(Owners) <= Cardinality(Active)
<1>1. Pooled \subseteq Instances
  BY ElemsFacts DEF TypeOK, Pooled, Elems
<1>2. Owners \in SUBSET Active /\ Active \in SUBSET Callers /\ Reserve \in SUBSET Instances
  BY <1>1 DEF TypeOK, Owners, Active, Reserve
<1>3. IsFiniteSet(Active) /\ IsFiniteSet(Reserve)
  BY <1>2, PoolAssumption, FS_Subset
<1>4. IsFiniteSet(Owners) /\ Cardinality(Owners) <= Cardinality(Active)
  BY <1>2, <1>3, FS_Subset
<1> QED
  BY <1>1, <1>3, <1>4, FS_CardinalityType

\* The size of a set that gains an element.
LEMMA AddOne ==
    ASSUME NEW S, IsFiniteSet(S), NEW x, x \notin S
    PROVE  Cardinality(S \cup {x}) = Cardinality(S) + 1
  BY FS_AddElement

\* The size of a set that loses an element.
LEMMA RemoveOne ==
    ASSUME NEW S, IsFiniteSet(S), NEW x \in S
    PROVE  Cardinality(S \ {x}) = Cardinality(S) - 1
  BY FS_RemoveElement

-----------------------------------------------------------------------------
\* The invariant holds before LoadArtifact has compiled the module.
LEMMA InitIInv == Init => IInv
<1> SUFFICES ASSUME Init PROVE IInv
  OBVIOUS
<1>1. Pooled = {} /\ Held = {} /\ Owners = {} /\ Active = {} /\ Reserve = {}
  BY ElemsFacts DEF Init, Pooled, Held, Owners, Active, Reserve, Elems
<1>2. TypeOK
  <2>1. active \in 0..MaxInstances /\ idle \in Seq(Instances)
    BY PoolAssumption DEF Init
  <2>2. first \in Instances \cup {NoInstance} /\ detached \subseteq Instances
        /\ open \subseteq Instances /\ failed \subseteq Instances /\ expired \subseteq Callers
    BY DEF Init
  <2> QED
    BY <2>1, <2>2 DEF Init, TypeOK
<1>3. Loading /\ Closing /\ Owned /\ Clean
  BY <1>1 DEF Init, Loading, Closing, Owned, Clean
<1>4. Exclusive /\ PoolIsClean
  BY <1>1 DEF Init, Exclusive, PoolIsClean
<1>5. Tokens /\ Budget
  BY <1>1, FS_EmptySet, PoolAssumption DEF Init, Tokens, Budget
<1> QED
  BY <1>2, <1>3, <1>4, <1>5 DEF IInv

\* The steps of a load that leave the pool empty.
LEMMA LoadStep ==
    ASSUME IInv, Compile \/ InstantiateFirst \/ NegotiateFails
    PROVE  IInv'
<1>0. /\ TypeOK /\ Loading /\ Closing /\ Owned /\ Clean
      /\ Exclusive /\ PoolIsClean /\ Tokens /\ Budget
  BY DEF IInv
<1> USE DEF Compile, InstantiateFirst, NegotiateFails, loadVars, pool, guests, callVars, closeVars
<1>1. Pooled' = Pooled
  BY DEF Pooled
<1>a. Pooled = {} /\ Fresh \subseteq Instances
  BY <1>0, ElemsFacts DEF Loading, Pooled, Elems, Fresh
<1>2. Owners' = Owners
  BY <1>0 DEF TypeOK, Owners, Loading
<1>3. Tokens'
  <2>1. Active' = Active
    BY <1>0 DEF TypeOK, Owners, Active, Loading
  <2> QED
    BY <1>0, <2>1 DEF Tokens
<1>4. TypeOK'
  BY <1>0, <1>1, <1>a DEF TypeOK
<1>5. Loading' /\ Closing'
  BY <1>0, <1>1, <1>a, PoolAssumption DEF TypeOK, Loading, Closing
<1>6. Owned'
  BY <1>0, <1>1, <1>a, PoolAssumption DEF TypeOK, Loading, Closing, Owned, Exclusive, Held, Reserve, Fresh
<1>7. Clean'
  BY <1>0, <1>1, <1>a, PoolAssumption DEF TypeOK, Loading, Closing, Owned, Clean, Exclusive, Held, Fresh
<1>8. Exclusive'
  BY <1>0, <1>1, <1>a, PoolAssumption DEF TypeOK, Loading, Closing, Owned, Exclusive, Held, Fresh, Distinct
<1>9. PoolIsClean'
  BY <1>0, <1>1, <1>a, PoolAssumption DEF TypeOK, Loading, Closing, Owned, Clean, Exclusive, PoolIsClean, Held
<1>10. Budget'
  BY <1>0, <1>1, <1>2 DEF Budget, Reserve, TypeOK, Closing, Loading
<1> QED
  BY <1>3, <1>4, <1>5, <1>6, <1>7, <1>8, <1>9, <1>10 DEF IInv

\* The first instance is pooled.
LEMMA NegotiateStep ==
    ASSUME IInv, Negotiate
    PROVE  IInv'
<1>0. /\ TypeOK /\ Loading /\ Closing /\ Owned /\ Clean
      /\ Exclusive /\ PoolIsClean /\ Tokens /\ Budget
  BY DEF IInv
<1> USE DEF Negotiate, loadVars, pool, guests, callVars, closeVars
<1>1. first \in Instances /\ first \notin Pooled /\ idle' = Append(idle, first)
  BY <1>0, PoolAssumption DEF TypeOK, Loading, Exclusive, Owned, Held, Pooled
<1>1a. Pooled' = Pooled \cup {first} /\ Distinct(idle') /\ idle' \in Seq(Instances)
  <2>1. Distinct(idle) /\ idle \in Seq(Instances) /\ first \notin Elems(idle)
    BY <1>0, <1>1 DEF Exclusive, Distinct, TypeOK, Pooled, Elems
  <2> HIDE DEF loadVars, pool, guests, callVars, closeVars
  <2> QED
    BY <1>1, <2>1, PushElems DEF Pooled, Elems
<1>2. Owners' = Owners
  BY <1>0 DEF TypeOK, Owners, Loading
<1>3. Tokens'
  <2>1. Active' = Active
    BY <1>0 DEF TypeOK, Owners, Active, Loading
  <2> QED
    BY <1>0, <2>1 DEF Tokens
<1>4. TypeOK'
  BY <1>0, <1>1, <1>1a DEF TypeOK
<1>5. Loading' /\ Closing'
  BY <1>0, <1>1, <1>1a, PoolAssumption DEF TypeOK, Loading, Closing
<1>6. Owned'
  BY <1>0, <1>1, <1>1a, PoolAssumption DEF TypeOK, Loading, Closing, Owned, Exclusive, Held, Reserve, Fresh
<1>7. Clean'
  BY <1>0, <1>1, <1>1a, PoolAssumption DEF TypeOK, Loading, Closing, Owned, Clean, Exclusive, Held, Fresh
<1>8. Exclusive'
  BY <1>0, <1>1, <1>1a, PoolAssumption DEF TypeOK, Loading, Closing, Owned, Exclusive, Held, Fresh, Distinct
<1>9. PoolIsClean'
  BY <1>0, <1>1, <1>1a, PoolAssumption DEF TypeOK, Loading, Closing, Owned, Clean, Exclusive, PoolIsClean, Held
<1>10. Budget'
  <2>1. Owners = {} /\ Reserve' = {first}
    BY <1>0, <1>1a, ElemsFacts DEF Owners, Reserve, Loading, Closing, Pooled, Elems
  <2>2. Cardinality(Owners') = 0 /\ Cardinality(Reserve') = 1
    BY <1>2, <2>1, FS_EmptySet, FS_Singleton
  <2> QED
    BY <2>2, PoolAssumption DEF Budget
<1> QED
  BY <1>3, <1>4, <1>5, <1>6, <1>7, <1>8, <1>9, <1>10 DEF IInv

\* The steps of a call that touch neither the pool nor an instance.
Quiet(c) ==
    \/ Call(c) \/ Expire(c) \/ TakeSlot(c) \/ WaitExpires(c) \/ WaitCloses(c)
    \/ AcquireClosed(c) \/ InvokeReturns(c) \/ Leave(c)
    \/ Release(c) /\ closed

\* They keep the invariant.
LEMMA QuietStep ==
    ASSUME IInv, NEW c \in Callers, Quiet(c)
    PROVE  IInv'
<1>0. /\ TypeOK /\ Loading /\ Closing /\ Owned /\ Clean
      /\ Exclusive /\ PoolIsClean /\ Tokens /\ Budget
  BY DEF IInv
<1> USE DEF Quiet, Call, Expire, TakeSlot, TakeSlotWhen, SlotFree, WaitExpires, WaitCloses,
        AcquireClosed, InvokeReturns, Leave, Release, GiveUp, Return, Goto, loadVars, pool, guests, callVars, closeVars
<1>1. Pooled' = Pooled
  BY DEF Pooled
<1>2. Owners' = Owners
  BY <1>0 DEF TypeOK, Owners, Loading
<1>3. Tokens'
  <2>1. CASE TakeSlot(c)
    <3>1. Active' = Active \cup {c} /\ c \notin Active /\ active' = active + 1
      BY <1>0, <2>1 DEF TypeOK, Owners, Active
    <3> QED
      BY <1>0, <3>1, Counted, AddOne DEF Tokens
  <2>2. CASE Leave(c)
    <3>1. Active' = Active \ {c} /\ c \in Active /\ active' = active - 1
      BY <1>0, <2>2 DEF TypeOK, Owners, Active
    <3> QED
      BY <1>0, <3>1, Counted, RemoveOne DEF Tokens
  <2>3. CASE ~TakeSlot(c) /\ ~Leave(c)
    <3>1. Active' = Active /\ active' = active
      BY <1>0, <2>3 DEF TypeOK, Owners, Active
    <3> QED
      BY <1>0, <3>1 DEF Tokens
  <2> QED
    BY <2>1, <2>2, <2>3
<1>4. TypeOK'
  <2>1. active' \in 0..MaxInstances
    <3>1. CASE Leave(c)
      <4>1. c \in Active /\ active' = active - 1
        BY <3>1 DEF Active
      <4>2. active # 0
        BY <1>0, <4>1, Counted, FS_EmptySet DEF Tokens
      <4> QED
        BY <1>0, <4>1, <4>2, PoolAssumption DEF TypeOK
    <3>2. CASE ~Leave(c)
      BY <1>0, <3>2, PoolAssumption DEF TypeOK
    <3> QED
      BY <3>1, <3>2
  <2> QED
    BY <1>0, <1>1, <2>1 DEF TypeOK
<1>5. Loading' /\ Closing'
  BY <1>0, <1>1, PoolAssumption DEF TypeOK, Loading, Closing
<1>6. Owned'
  BY <1>0, <1>1, PoolAssumption DEF TypeOK, Loading, Closing, Owned, Exclusive, Held, Reserve, Fresh
<1>7. Clean'
  BY <1>0, <1>1, PoolAssumption DEF TypeOK, Loading, Closing, Owned, Clean, Exclusive, Held, Fresh
<1>8. Exclusive'
  BY <1>0, <1>1, PoolAssumption DEF TypeOK, Loading, Closing, Owned, Exclusive, Held, Fresh, Distinct
<1>9. PoolIsClean'
  BY <1>0, <1>1, PoolAssumption DEF TypeOK, Loading, Closing, Owned, Clean, Exclusive, PoolIsClean, Held
<1>10. Budget'
  BY <1>0, <1>1, <1>2 DEF Budget, Reserve, TypeOK, Closing, Loading
<1> QED
  BY <1>3, <1>4, <1>5, <1>6, <1>7, <1>8, <1>9, <1>10 DEF IInv

\* A call takes an instance from the pool.
LEMMA AcquirePooledStep ==
    ASSUME IInv, NEW c \in Callers, AcquirePooled(c)
    PROVE  IInv'
<1>0. /\ TypeOK /\ Loading /\ Closing /\ Owned /\ Clean
      /\ Exclusive /\ PoolIsClean /\ Tokens /\ Budget
  BY DEF IInv
<1> USE DEF AcquirePooled, Goto, loadVars, pool, guests, callVars, closeVars
<1>1. idle # <<>> /\ idle' = SubSeq(idle, 1, Len(idle) - 1) /\ Distinct(idle)
  BY <1>0 DEF Exclusive, Distinct
<1>1a. /\ idle' \in Seq(Instances) /\ idle[Len(idle)] \in Pooled /\ idle[Len(idle)] \in Instances
       /\ Pooled' = Pooled \ {idle[Len(idle)]} /\ Distinct(idle')
  BY <1>0, <1>1, PopElems DEF TypeOK, Pooled, Elems
<1>2. Cardinality(Owners') = Cardinality(Owners) + 1
  <2>1. Owners' = Owners \cup {c} /\ c \notin Owners
    BY <1>0 DEF TypeOK, Owners, Loading
  <2> QED
    BY <1>0, <2>1, Counted, AddOne
<1>3. Tokens'
  <2>1. Active' = Active
    BY <1>0 DEF TypeOK, Owners, Active, Loading
  <2> QED
    BY <1>0, <2>1 DEF Tokens
<1>4. TypeOK'
  BY <1>0, <1>1, <1>1a DEF TypeOK
<1>5. Loading' /\ Closing'
  BY <1>0, <1>1, <1>1a, PoolAssumption DEF TypeOK, Loading, Closing
<1>6. Owned'
  BY <1>0, <1>1, <1>1a, PoolAssumption DEF TypeOK, Loading, Closing, Owned, Exclusive, Held, Reserve, Fresh
<1>7. Clean'
  BY <1>0, <1>1, <1>1a, PoolAssumption DEF TypeOK, Loading, Closing, Owned, Clean, Exclusive, Held, Fresh
<1>8. Exclusive'
  BY <1>0, <1>1, <1>1a, PoolAssumption DEF TypeOK, Loading, Closing, Owned, Exclusive, Held, Fresh, Distinct
<1>9. PoolIsClean'
  BY <1>0, <1>1, <1>1a, PoolAssumption DEF TypeOK, Loading, Closing, Owned, Clean, Exclusive, PoolIsClean, Held
<1>10. Budget'
  <2>1. Reserve' = Reserve \ {idle[Len(idle)]} /\ idle[Len(idle)] \in Reserve
    BY <1>0, <1>1, <1>1a DEF Reserve, Closing, Loading, TypeOK
  <2>2. Cardinality(Reserve') = Cardinality(Reserve) - 1
    BY <1>0, <2>1, Counted, RemoveOne
  <2> QED
    BY <1>0, <1>2, <2>2, Counted, PoolAssumption DEF Budget
<1> QED
  BY <1>3, <1>4, <1>5, <1>6, <1>7, <1>8, <1>9, <1>10 DEF IInv

\* A call that holds a token finds the reserve empty.
LEMMA AcquireNewStep ==
    ASSUME IInv, NEW c \in Callers, AcquireNew(c)
    PROVE  IInv'
<1>0. /\ TypeOK /\ Loading /\ Closing /\ Owned /\ Clean
      /\ Exclusive /\ PoolIsClean /\ Tokens /\ Budget
  BY DEF IInv
<1> USE DEF AcquireNew, Goto, loadVars, pool, guests, callVars, closeVars
<1>1. Pooled' = Pooled
  BY DEF Pooled
<1>2. Cardinality(Owners') = Cardinality(Owners) + 1
  <2>1. Owners' = Owners \cup {c} /\ c \notin Owners
    BY <1>0 DEF TypeOK, Owners, Loading
  <2> QED
    BY <1>0, <2>1, Counted, AddOne
<1>3. Tokens'
  <2>1. Active' = Active
    BY <1>0 DEF TypeOK, Owners, Active, Loading
  <2> QED
    BY <1>0, <2>1 DEF Tokens
<1>4. TypeOK'
  BY <1>0, <1>1 DEF TypeOK
<1>5. Loading' /\ Closing'
  BY <1>0, <1>1, PoolAssumption DEF TypeOK, Loading, Closing
<1>6. Owned'
  BY <1>0, <1>1, PoolAssumption DEF TypeOK, Loading, Closing, Owned, Exclusive, Held, Reserve, Fresh
<1>7. Clean'
  BY <1>0, <1>1, PoolAssumption DEF TypeOK, Loading, Closing, Owned, Clean, Exclusive, Held, Fresh
<1>8. Exclusive'
  BY <1>0, <1>1, PoolAssumption DEF TypeOK, Loading, Closing, Owned, Exclusive, Held, Fresh, Distinct
<1>9. PoolIsClean'
  BY <1>0, <1>1, PoolAssumption DEF TypeOK, Loading, Closing, Owned, Clean, Exclusive, PoolIsClean, Held
<1>10. Budget'
  <2>1. Reserve' = {}
    BY <1>0, <1>1, ElemsFacts DEF Reserve, Closing, Pooled, Elems
  <2>2. Cardinality(Owners') <= Cardinality(Active') /\ Cardinality(Owners') \in Nat
    <3>1. Owners' \in SUBSET Active' /\ Active' \in SUBSET Callers
      BY DEF Owners, Active
    <3> QED
      BY <3>1, FS_Subset, FS_CardinalityType, PoolAssumption
  <2>3. Cardinality(Active') <= MaxInstances
    BY <1>0, <1>3 DEF Tokens, TypeOK
  <2> QED
    BY <1>3, <1>4, <2>1, <2>2, <2>3, FS_EmptySet, PoolAssumption DEF Budget, Tokens, TypeOK
<1> QED
  BY <1>3, <1>4, <1>5, <1>6, <1>7, <1>8, <1>9, <1>10 DEF IInv

\* A call gets no instance.
LEMMA InstantiateFailsStep ==
    ASSUME IInv, NEW c \in Callers, InstantiateFails(c)
    PROVE  IInv'
<1>0. /\ TypeOK /\ Loading /\ Closing /\ Owned /\ Clean
      /\ Exclusive /\ PoolIsClean /\ Tokens /\ Budget
  BY DEF IInv
<1> USE DEF InstantiateFails, Goto, loadVars, pool, guests, callVars, closeVars
<1>1. Pooled' = Pooled
  BY DEF Pooled
<1>2. Cardinality(Owners') = Cardinality(Owners) - 1
  <2>1. Owners' = Owners \ {c} /\ c \in Owners
    BY <1>0 DEF TypeOK, Owners, Loading
  <2> QED
    BY <1>0, <2>1, Counted, RemoveOne
<1>3. Tokens'
  <2>1. Active' = Active
    BY <1>0 DEF TypeOK, Owners, Active, Loading
  <2> QED
    BY <1>0, <2>1 DEF Tokens
<1>4. TypeOK'
  BY <1>0, <1>1 DEF TypeOK
<1>5. Loading' /\ Closing'
  BY <1>0, <1>1, PoolAssumption DEF TypeOK, Loading, Closing
<1>6. Owned'
  BY <1>0, <1>1, PoolAssumption DEF TypeOK, Loading, Closing, Owned, Exclusive, Held, Reserve, Fresh
<1>7. Clean'
  BY <1>0, <1>1, PoolAssumption DEF TypeOK, Loading, Closing, Owned, Clean, Exclusive, Held, Fresh
<1>8. Exclusive'
  BY <1>0, <1>1, PoolAssumption DEF TypeOK, Loading, Closing, Owned, Exclusive, Held, Fresh, Distinct
<1>9. PoolIsClean'
  BY <1>0, <1>1, PoolAssumption DEF TypeOK, Loading, Closing, Owned, Clean, Exclusive, PoolIsClean, Held
<1>10. Budget'
  BY <1>0, <1>1, <1>2, Counted, PoolAssumption DEF Budget, Reserve
<1> QED
  BY <1>3, <1>4, <1>5, <1>6, <1>7, <1>8, <1>9, <1>10 DEF IInv

\* A call creates an instance.
LEMMA InstantiateStep ==
    ASSUME IInv, NEW c \in Callers, Instantiate(c)
    PROVE  IInv'
<1>0. /\ TypeOK /\ Loading /\ Closing /\ Owned /\ Clean
      /\ Exclusive /\ PoolIsClean /\ Tokens /\ Budget
  BY DEF IInv
<1> USE DEF Instantiate, Goto, loadVars, pool, guests, callVars, closeVars
<1>1. Pooled' = Pooled
  BY DEF Pooled
<1>a. PICK i \in Fresh : open' = open \cup {i} /\ inst' = [inst EXCEPT ![c] = i]
  OBVIOUS
<1>b. i \in Instances /\ i # NoInstance /\ i \notin failed
  BY <1>0, <1>a, PoolAssumption DEF Fresh, Clean, Held
<1>2. Owners' = Owners
  BY <1>0 DEF TypeOK, Owners, Loading
<1>3. Tokens'
  <2>1. Active' = Active
    BY <1>0 DEF TypeOK, Owners, Active, Loading
  <2> QED
    BY <1>0, <2>1 DEF Tokens
<1>4. TypeOK'
  BY <1>0, <1>1, <1>a, <1>b DEF TypeOK
<1>5. Loading' /\ Closing'
  BY <1>0, <1>1, <1>a, <1>b, PoolAssumption DEF TypeOK, Loading, Closing
<1>6. Owned'
  BY <1>0, <1>1, <1>a, <1>b, PoolAssumption DEF TypeOK, Loading, Closing, Owned, Exclusive, Held, Reserve, Fresh
<1>7. Clean'
  BY <1>0, <1>1, <1>a, <1>b, PoolAssumption DEF TypeOK, Loading, Closing, Owned, Clean, Exclusive, Held, Fresh
<1>8. Exclusive'
  BY <1>0, <1>1, <1>a, <1>b, PoolAssumption DEF TypeOK, Loading, Closing, Owned, Exclusive, Held, Fresh, Distinct
<1>9. PoolIsClean'
  BY <1>0, <1>1, <1>a, <1>b, PoolAssumption DEF TypeOK, Loading, Closing, Owned, Clean, Exclusive, PoolIsClean, Held
<1>10. Budget'
  BY <1>0, <1>1, <1>2 DEF Budget, Reserve, TypeOK, Closing, Loading
<1> QED
  BY <1>3, <1>4, <1>5, <1>6, <1>7, <1>8, <1>9, <1>10 DEF IInv

\* An invocation is interrupted or fails.
LEMMA GuestStepEnds ==
    ASSUME IInv, NEW c \in Callers, InterruptGuest(c) \/ InvokeFails(c)
    PROVE  IInv'
<1>0. /\ TypeOK /\ Loading /\ Closing /\ Owned /\ Clean
      /\ Exclusive /\ PoolIsClean /\ Tokens /\ Budget
  BY DEF IInv
<1> USE DEF InterruptGuest, InvokeFails, Goto, loadVars, pool, guests, callVars, closeVars
<1>1. Pooled' = Pooled
  BY DEF Pooled
<1>a. inst[c] \in Instances
  BY <1>0 DEF TypeOK, Owned
<1>2. Owners' = Owners
  BY <1>0 DEF TypeOK, Owners, Loading
<1>3. Tokens'
  <2>1. Active' = Active
    BY <1>0 DEF TypeOK, Owners, Active, Loading
  <2> QED
    BY <1>0, <2>1 DEF Tokens
<1>4. TypeOK'
  BY <1>0, <1>1, <1>a DEF TypeOK
<1>5. Loading' /\ Closing'
  BY <1>0, <1>1, <1>a, PoolAssumption DEF TypeOK, Loading, Closing
<1>6. Owned'
  BY <1>0, <1>1, <1>a, PoolAssumption DEF TypeOK, Loading, Closing, Owned, Exclusive, Held, Reserve, Fresh
<1>7. Clean'
  BY <1>0, <1>1, <1>a, PoolAssumption DEF TypeOK, Loading, Closing, Owned, Clean, Exclusive, Held, Fresh
<1>8. Exclusive'
  BY <1>0, <1>1, <1>a, PoolAssumption DEF TypeOK, Loading, Closing, Owned, Exclusive, Held, Fresh, Distinct
<1>9. PoolIsClean'
  BY <1>0, <1>1, <1>a, PoolAssumption DEF TypeOK, Loading, Closing, Owned, Clean, Exclusive, PoolIsClean, Held
<1>10. Budget'
  BY <1>0, <1>1, <1>2 DEF Budget, Reserve, TypeOK, Closing, Loading
<1> QED
  BY <1>3, <1>4, <1>5, <1>6, <1>7, <1>8, <1>9, <1>10 DEF IInv

\* A call closes its instance.
LEMMA DiscardStep ==
    ASSUME IInv, NEW c \in Callers, Discard(c)
    PROVE  IInv'
<1>0. /\ TypeOK /\ Loading /\ Closing /\ Owned /\ Clean
      /\ Exclusive /\ PoolIsClean /\ Tokens /\ Budget
  BY DEF IInv
<1> USE DEF Discard, Goto, loadVars, pool, guests, callVars, closeVars
<1>1. Pooled' = Pooled
  BY DEF Pooled
<1>2. Cardinality(Owners') = Cardinality(Owners) - 1
  <2>1. Owners' = Owners \ {c} /\ c \in Owners
    BY <1>0 DEF TypeOK, Owners, Loading
  <2> QED
    BY <1>0, <2>1, Counted, RemoveOne
<1>3. Tokens'
  <2>1. Active' = Active
    BY <1>0 DEF TypeOK, Owners, Active, Loading
  <2> QED
    BY <1>0, <2>1 DEF Tokens
<1>4. TypeOK'
  BY <1>0, <1>1 DEF TypeOK
<1>5. Loading' /\ Closing'
  BY <1>0, <1>1, PoolAssumption DEF TypeOK, Loading, Closing
<1>6. Owned'
  BY <1>0, <1>1, PoolAssumption DEF TypeOK, Loading, Closing, Owned, Exclusive, Held, Reserve, Fresh
<1>7. Clean'
  BY <1>0, <1>1, PoolAssumption DEF TypeOK, Loading, Closing, Owned, Clean, Exclusive, Held, Fresh
<1>8. Exclusive'
  BY <1>0, <1>1, PoolAssumption DEF TypeOK, Loading, Closing, Owned, Exclusive, Held, Fresh, Distinct
<1>9. PoolIsClean'
  BY <1>0, <1>1, PoolAssumption DEF TypeOK, Loading, Closing, Owned, Clean, Exclusive, PoolIsClean, Held
<1>10. Budget'
  BY <1>0, <1>1, <1>2, Counted, PoolAssumption DEF Budget, Reserve
<1> QED
  BY <1>3, <1>4, <1>5, <1>6, <1>7, <1>8, <1>9, <1>10 DEF IInv

\* A call returns its instance to the pool.
LEMMA ReleaseStep ==
    ASSUME IInv, NEW c \in Callers, Release(c), ~closed
    PROVE  IInv'
<1>0. /\ TypeOK /\ Loading /\ Closing /\ Owned /\ Clean
      /\ Exclusive /\ PoolIsClean /\ Tokens /\ Budget
  BY DEF IInv
<1> USE DEF Release, Goto, loadVars, pool, guests, callVars, closeVars
<1>1. inst[c] \in Instances /\ inst[c] \notin Pooled /\ idle' = Append(idle, inst[c])
  BY <1>0, PoolAssumption DEF TypeOK, Exclusive, Owned, Held, Pooled
<1>1a. Pooled' = Pooled \cup {inst[c]} /\ Distinct(idle') /\ idle' \in Seq(Instances)
  <2>1. Distinct(idle) /\ idle \in Seq(Instances) /\ inst[c] \notin Elems(idle)
    BY <1>0, <1>1 DEF Exclusive, Distinct, TypeOK, Pooled, Elems
  <2> HIDE DEF loadVars, pool, guests, callVars, closeVars
  <2> QED
    BY <1>1, <2>1, PushElems DEF Pooled, Elems
<1>2. Cardinality(Owners') = Cardinality(Owners) - 1
  <2>1. Owners' = Owners \ {c} /\ c \in Owners
    BY <1>0 DEF TypeOK, Owners, Loading
  <2> QED
    BY <1>0, <2>1, Counted, RemoveOne
<1>3. Tokens'
  <2>1. Active' = Active
    BY <1>0 DEF TypeOK, Owners, Active, Loading
  <2> QED
    BY <1>0, <2>1 DEF Tokens
<1>4. TypeOK'
  BY <1>0, <1>1, <1>1a DEF TypeOK
<1>5. Loading' /\ Closing'
  BY <1>0, <1>1, <1>1a, PoolAssumption DEF TypeOK, Loading, Closing
<1>6. Owned'
  BY <1>0, <1>1, <1>1a, PoolAssumption DEF TypeOK, Loading, Closing, Owned, Exclusive, Held, Reserve, Fresh
<1>7. Clean'
  <2>1. /\ failed' = failed /\ open' = open /\ pc'[c] = "leave"
        /\ \A d \in Callers \ {c} : pc'[d] = pc[d] /\ inst'[d] = inst[d]
    BY <1>0 DEF TypeOK
  <2>2. ASSUME NEW i \in failed PROVE \E d \in Callers : inst'[d] = i /\ pc'[d] = "discard"
    <3>1. PICK d \in Callers : inst[d] = i /\ pc[d] = "discard"
      BY <1>0 DEF Clean
    <3> QED
      BY <2>1, <3>1
  <2>3. ASSUME NEW d \in Callers, pc'[d] = "release" PROVE inst'[d] \in open'
    BY <1>0, <2>1, <2>3 DEF Clean
  <2> QED
    BY <2>1, <2>2, <2>3 DEF Clean
<1>8. Exclusive'
  BY <1>0, <1>1, <1>1a, PoolAssumption DEF TypeOK, Loading, Closing, Owned, Exclusive, Held, Fresh, Distinct
<1>9. PoolIsClean'
  BY <1>0, <1>1, <1>1a, PoolAssumption DEF TypeOK, Loading, Closing, Owned, Clean, Exclusive, PoolIsClean, Held
<1>10. Budget'
  <2>1. Reserve' = Reserve \cup {inst[c]} /\ inst[c] \notin Reserve
    BY <1>0, <1>1, <1>1a DEF Reserve, Closing, Loading, TypeOK
  <2>2. Cardinality(Reserve') = Cardinality(Reserve) + 1
    BY <1>0, <2>1, Counted, AddOne
  <2> QED
    BY <1>0, <1>2, <2>2, Counted, PoolAssumption DEF Budget
<1> QED
  BY <1>3, <1>4, <1>5, <1>6, <1>7, <1>8, <1>9, <1>10 DEF IInv

\* Close empties the pool, then closes what it found, then the rest.
LEMMA CloseStep ==
    ASSUME IInv, NEW k \in Closers \cup {Loader}, Close(k)
    PROVE  IInv'
<1>0. /\ TypeOK /\ Loading /\ Closing /\ Owned /\ Clean
      /\ Exclusive /\ PoolIsClean /\ Tokens /\ Budget
  BY DEF IInv
<1> USE DEF Close, CloseAgain, CloseDetach, CloseInstance, CloseRuntime, MayClose, loadVars, pool, guests, callVars, closeVars
<1>1. Pooled' \subseteq Pooled /\ (idle' = idle \/ idle' = <<>>) /\ Reserve' \subseteq Reserve
  BY <1>0, ElemsFacts DEF Pooled, Elems, Reserve
<1>a. Pooled' = Pooled \/ Pooled' = {}
  BY <1>1, ElemsFacts DEF Pooled, Elems
<1>b. Pooled \subseteq Instances
  BY <1>0, Counted
<1>2. Owners' = Owners
  BY <1>0 DEF TypeOK, Owners, Loading
<1>3. Tokens'
  <2>1. Active' = Active
    BY <1>0 DEF TypeOK, Owners, Active, Loading
  <2> QED
    BY <1>0, <2>1 DEF Tokens
<1>4. TypeOK'
  <2>1. CASE CloseInstance(k)
    BY <1>0, <2>1 DEF TypeOK
  <2>2. CASE CloseAgain(k) \/ CloseRuntime(k)
    BY <1>0, <2>2 DEF TypeOK
  <2>3. CASE CloseDetach(k)
    BY <1>0, <1>b, <2>3 DEF TypeOK
  <2> QED
    BY <2>1, <2>2, <2>3
<1>5. Loading' /\ Closing'
  BY <1>0, <1>1, <1>a, <1>b, PoolAssumption DEF TypeOK, Loading, Closing
<1>6. Owned'
  <2>1. CASE CloseInstance(k)
    BY <1>0, <1>1, <2>1 DEF Owned, Held, Reserve, Pooled
  <2>2. CASE CloseAgain(k) \/ CloseRuntime(k)
    BY <1>0, <2>2 DEF Owned, Held, Reserve, Pooled
  <2>3. CASE CloseDetach(k)
    BY <1>0, <2>3 DEF Owned, Held, Reserve, Closing
  <2> QED
    BY <2>1, <2>2, <2>3
<1>7. Clean'
  BY <1>0, <1>1, <1>a, <1>b, PoolAssumption DEF TypeOK, Loading, Closing, Owned, Clean, Exclusive, Held, Fresh
<1>8. Exclusive'
  BY <1>0, <1>1, <1>a, <1>b, PoolAssumption DEF TypeOK, Loading, Closing, Owned, Exclusive, Held, Fresh, Distinct
<1>9. PoolIsClean'
  BY <1>0, <1>1, <1>a, <1>b, PoolAssumption DEF TypeOK, Loading, Closing, Owned, Clean, Exclusive, PoolIsClean, Held
<1>10. Budget'
  <2>1. Cardinality(Reserve') <= Cardinality(Reserve) /\ Cardinality(Reserve') \in Nat
    BY <1>0, <1>1, Counted, FS_Subset, FS_CardinalityType
  <2> QED
    BY <1>0, <1>2, <2>1, Counted, PoolAssumption DEF Budget
<1> QED
  BY <1>3, <1>4, <1>5, <1>6, <1>7, <1>8, <1>9, <1>10 DEF IInv

\* Every step of a load, a call or a Close keeps the invariant.
LEMMA IInvStep == IInv /\ [Next]_vars => IInv'
<1> SUFFICES ASSUME IInv, [Next]_vars PROVE IInv'
  OBVIOUS
<1>1. CASE Load
  BY <1>1, LoadStep, NegotiateStep DEF Load
<1>2. ASSUME NEW c \in Callers, CallNext(c) PROVE IInv'
  <2>1. CASE Release(c) /\ ~closed
    BY <2>1, ReleaseStep
  <2>2. CASE AcquirePooled(c) \/ AcquireNew(c) \/ Discard(c)
    BY <2>2, AcquirePooledStep, AcquireNewStep, DiscardStep
  <2>3. CASE Instantiate(c) \/ InstantiateFails(c)
    BY <2>3, InstantiateStep, InstantiateFailsStep
  <2>5. CASE InterruptGuest(c) \/ InvokeFails(c)
    BY <2>5, GuestStepEnds
  <2>6. CASE Quiet(c)
    BY <2>6, QuietStep
  <2> QED
    BY <1>2, <2>1, <2>2, <2>3, <2>5, <2>6 DEF CallNext, HostStep, GuestStep, Quiet
<1>3. ASSUME NEW k \in Closers \cup {Loader}, Close(k) PROVE IInv'
  BY <1>3, CloseStep
<1>4. CASE UNCHANGED vars
  <2>1. /\ Pooled' = Pooled /\ Held' = Held /\ Owners' = Owners /\ Active' = Active
        /\ Reserve' = Reserve
    BY <1>4 DEF vars, loadVars, pool, guests, callVars, closeVars, Pooled, Held, Owners,
                Active, Reserve
  <2> QED
    BY <1>4, <2>1 DEF vars, loadVars, pool, guests, callVars, closeVars, IInv, TypeOK, Loading,
                Closing, Owned, Clean, Exclusive, PoolIsClean, Tokens, Budget
<1> QED
  BY <1>1, <1>2, <1>3, <1>4 DEF Next

\* The invariant holds throughout the life of an engine.
LEMMA IInvHolds == Spec => []IInv
  BY InitIInv, IInvStep, PTL DEF Spec

\* The owners hold at most as many instances as there are owners.
LEMMA BoundFromBudget == IInv => PoolBound
<1> SUFFICES ASSUME IInv PROVE PoolBound
  OBVIOUS
<1>0. TypeOK /\ Loading /\ Owned /\ Budget
  BY DEF IInv
<1>1. CASE phase = "negotiate"
  <2>1. Held = {} /\ open \subseteq Reserve \cup {first} /\ Reserve = {}
    BY <1>0, <1>1, ElemsFacts DEF IInv, Loading, Closing, Owned, Held, Reserve, Pooled, Elems
  <2>2. IsFiniteSet({first}) /\ Cardinality({first}) = 1 /\ open \in SUBSET {first}
    BY <2>1, FS_Singleton
  <2>3. Cardinality(open) <= 1 /\ Cardinality(open) \in Nat
    BY <2>2, FS_Subset, FS_CardinalityType
  <2> QED
    BY <2>3, PoolAssumption DEF PoolBound
<1>2. CASE phase # "negotiate"
  <2> DEFINE f == [c \in Owners |-> inst[c]]
             T == {inst[c] : c \in Owners}
  <2>1. f \in Surjection(Owners, T)
    BY DEF Surjection
  <2>2. IsFiniteSet(T) /\ Cardinality(T) <= Cardinality(Owners)
    <3> HIDE DEF f, T
    <3> QED BY <1>0, <2>1, Counted, FS_Surjection
  <2>3. Held \subseteq T /\ NoInstance \notin open
    BY <1>0, PoolAssumption DEF Held, Owned, Owners, TypeOK
  <2>4. open \in SUBSET (Reserve \cup T)
    BY <1>0, <1>2, <2>3 DEF Owned, Loading
  <2> HIDE DEF f, T
  <2>5. /\ IsFiniteSet(Reserve \cup T)
        /\ Cardinality(Reserve \cup T) <= Cardinality(Reserve) + Cardinality(T)
    <3>1. /\ IsFiniteSet(Reserve \cup T)
          /\ Cardinality(Reserve \cup T)
               = Cardinality(Reserve) + Cardinality(T) - Cardinality(Reserve \cap T)
      BY <1>0, <2>2, Counted, FS_Union
    <3>2. Cardinality(Reserve \cap T) \in Nat
      BY <2>2, FS_Intersection, FS_CardinalityType
    <3> QED
      BY <1>0, <2>2, <3>1, <3>2, Counted, FS_CardinalityType
  <2>6. Cardinality(open) <= Cardinality(Reserve \cup T) /\ Cardinality(open) \in Nat
    BY <2>4, <2>5, FS_Subset, FS_CardinalityType
  <2> QED
    BY <1>0, <2>2, <2>5, <2>6, Counted, FS_CardinalityType, PoolAssumption DEF Budget, PoolBound
<1> QED
  BY <1>1, <1>2

\* Every reachable state is well formed: in particular call never receives from
\* an empty active channel nor sends to a full one.
THEOREM TypeCorrect == Spec => []TypeOK
  BY IInvHolds, PTL DEF IInv

\* Engine pools at most maxInstances instances across concurrent calls.
THEOREM PoolIsBounded == Spec => []PoolBound
  BY IInvHolds, BoundFromBudget, PTL

\* acquire and release give an instance to one call at a time.
THEOREM CallsAreExclusive == Spec => []Exclusive
  BY IInvHolds, PTL DEF IInv

\* call never gets an instance that failed another call or was closed.
THEOREM FailedInstancesAreDiscarded == Spec => []PoolIsClean
  BY IInvHolds, PTL DEF IInv

\* The pool is bounded, exclusive and clean for any number of callers and slots.
THEOREM PoolStaysSound == Spec => []PoolIsSound
  BY PoolIsBounded, CallsAreExclusive, FailedInstancesAreDiscarded, PTL DEF PoolIsSound
-----------------------------------------------------------------------------
\* What Close took from the pool is still being closed by some goroutine: the
\* runtime is closed, and Close returns, only once nothing is left to close.
Detaching ==
    detached # {} => \E k \in Closers \cup {Loader} : closePc[k] = "instances"

\* No step leaves instances behind that no Close is going to close.
LEMMA DetachingStep == TypeOK /\ Detaching /\ [Next]_vars => Detaching'
<1> SUFFICES ASSUME TypeOK, Detaching, [Next]_vars PROVE Detaching'
  OBVIOUS
<1>1. ASSUME NEW k \in Closers \cup {Loader}, Close(k) PROVE Detaching'
  <2>1. CASE CloseDetach(k)
    BY <2>1 DEF CloseDetach, Detaching, TypeOK
  <2>2. CASE CloseRuntime(k)
    BY <2>2 DEF CloseRuntime, Detaching
  <2>3. CASE CloseInstance(k)
    BY <2>3 DEF CloseInstance, Detaching
  <2>4. CASE CloseAgain(k)
    <3>1. ASSUME NEW j \in Closers \cup {Loader}, closePc[j] = "instances"
          PROVE  closePc'[j] = "instances"
      BY <2>4, <3>1 DEF CloseAgain, MayClose, TypeOK
    <3>2. detached' = detached
      BY <2>4 DEF CloseAgain
    <3> QED
      BY <3>1, <3>2 DEF Detaching
  <2> QED
    BY <1>1, <2>1, <2>2, <2>3, <2>4 DEF Close
<1>2. CASE UNCHANGED closeVars
  BY <1>2 DEF closeVars, Detaching
<1>3. CASE Load
  BY <1>2, <1>3 DEF Load, Compile, InstantiateFirst, Negotiate, NegotiateFails
<1>4. ASSUME NEW c \in Callers, CallNext(c) PROVE UNCHANGED closeVars
  BY <1>4 DEF CallNext, Call, Expire, TakeSlot, TakeSlotWhen, HostStep, GuestStep,
     InterruptGuest, WaitExpires, WaitCloses, GiveUp, AcquireClosed, AcquirePooled, AcquireNew,
     Discard, Release, Leave, Instantiate, InstantiateFails, InvokeReturns, InvokeFails
<1> QED
  BY <1>1, <1>2, <1>3, <1>4 DEF Next, vars

\* An instance that is open when no call runs, no load holds one and no Close is
\* at work would have no owner.
LEMMA NothingIsLeft == IInv /\ Detaching => NothingLeaks
<1> SUFFICES ASSUME IInv, Detaching, \A c \in Callers : pc[c] = "idle"
             PROVE  /\ active = 0
                    /\ closed /\ ~(\E k \in Closers \cup {Loader} : closePc[k] = "instances")
                         => open = {}
  BY DEF NothingLeaks
<1>1. active = 0
  <2>1. Active = {}
    BY DEF Active, Owners
  <2> QED
    BY <2>1, FS_EmptySet DEF IInv, Tokens
<1>2. ASSUME closed, ~(\E k \in Closers \cup {Loader} : closePc[k] = "instances")
      PROVE  open = {}
  <2>1. Reserve = {}
    BY <1>2, ElemsFacts DEF IInv, Closing, Detaching, Reserve, Pooled, Elems
  <2>2. Held = {} /\ first = NoInstance
    BY <1>2 DEF IInv, Owned, Held, Loading
  <2>3. NoInstance \notin open
    BY PoolAssumption DEF IInv, TypeOK
  <2> QED
    BY <2>1, <2>2, <2>3 DEF IInv, Owned
<1> QED
  BY <1>1, <1>2

\* However Close overlaps with calls that create and return instances, and with
\* other calls of Close: when the calls and Close are done, call has given back
\* every slot and no instance is left open.
THEOREM EngineIsReclaimed == Spec => []NothingLeaks
<1>1. Init => Detaching
  BY DEF Init, Detaching
<1>2. Spec => []Detaching
  BY <1>1, DetachingStep, TypeCorrect, PTL DEF Spec
<1> QED
  BY <1>2, IInvHolds, NothingIsLeft, PTL
=============================================================================
