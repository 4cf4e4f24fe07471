---------------------------- MODULE EffectProofs ----------------------------
(***************************************************************************)
(* A new effect gets an id of its own, a whole store is loaded whole and a *)
(* request writes what its path names: for any number of ids, any step     *)
(* lists, pages and paths, and any interruption.                           *)
(***************************************************************************)
EXTENDS EffectStore, Induction, FiniteSetTheorems

(* TypeOK without what a fold over a listing computes.                     *)
StoreOK ==
    /\ effects \in [Ids -> Lists \cup {NoBlob}]
    /\ steps \subseteq Ids \X Ids
    /\ next_id \in Ids \cup {NoCounter}
    /\ task \in [pc : {"idle", "create", "batch", "boot", "sample", "steps", "load"},
                 id : Ids, list : Seq(Ids)]
    /\ planted \subseteq Ids /\ wrapped \in BOOLEAN

(* Something is stored under the id.                                       *)
Taken(e) == e \in Stored \/ \E s \in Ids \ {0} : <<e, s>> \in steps

(* Until the counter has gone round it is above every id it gave away.     *)
SpentInv ==
    ~wrapped /\ Counter # 0 =>
        \A e \in Ids : Taken(e) /\ e \notin planted => e < Counter

(* So is it above the id of an effect that is being created.               *)
HeldInv ==
    task.pc \in {"create", "sample", "steps"} /\ ~wrapped /\ Counter # 0 =>
        task.id < Counter

(* What is about to be stored is a list of steps, not the lack of one.     *)
ListInv == task.pc \in {"create", "sample"} => task.list \in Lists

StoreInv == StoreOK /\ SpentInv /\ HeldInv /\ ListInv /\ CreatesAreFresh
-----------------------------------------------------------------------------
LEMMA IdFacts ==
    /\ NumIds \in Nat /\ NumIds > 1
    /\ Ids \subseteq Nat /\ 0 \in Ids /\ 1 \in Ids
    /\ StepIds \subseteq Ids
    /\ NoCounter \notin Ids
    /\ \A l \in Lists : l \in Seq(Ids) /\ l # NoBlob
<1>1. /\ NumIds \in Nat /\ NumIds > 1
      /\ Ids \subseteq Nat /\ 0 \in Ids /\ 1 \in Ids
  BY IdAssumption DEF Ids
<1>2. \A l \in Lists : l \in Seq(Ids) /\ l # NoBlob
  BY ListAssumption
<1>3. ASSUME NEW l \in Lists, NEW i \in DOMAIN l  PROVE l[i] \in Ids
  BY <1>2
<1>4. StepIds \subseteq Ids
  BY <1>1, <1>3 DEF StepIds
<1> QED
  BY <1>1, <1>2, <1>4, CounterAssumption

LEMMA CounterFacts ==
    ASSUME StoreOK
    PROVE  /\ Counter \in Ids
           /\ Advanced(Counter) \in Ids
           /\ Advanced(Counter) # 0 => Advanced(Counter) = Counter + 1
<1>1. Counter \in Ids
  BY IdFacts DEF Counter, StoreOK
<1> QED
  BY <1>1, IdAssumption DEF Advanced, Ids

LEMMA KeyFacts ==
    \A e, s \in Ids : /\ StepKey(e, s) \in Ids \X Ids
                      /\ s # 0 => StepKey(e, s) = <<e, s>>
                      /\ s = 0 => StepKey(e, s) = <<0, 0>>
BY IdFacts DEF StepKey

(* A path is a sequence of segments, a route holds ids.                    *)
LEMMA RouteFacts ==
    \A path \in Paths :
        /\ Route(path).id \in Ids /\ Route(path).parent_id \in Ids
        /\ Route(path).container \in {"none", "effects", "steps"}
<1> SUFFICES ASSUME NEW path \in Paths
             PROVE  /\ Route(path).id \in Ids /\ Route(path).parent_id \in Ids
                    /\ Route(path).container \in {"none", "effects", "steps"}
  OBVIOUS
<1>1. path \in Seq(Segment)
  BY PathAssumption
<1>2. \A i \in 1..Len(path) : Id(path[i]) \in Ids
  <2> SUFFICES ASSUME NEW i \in 1..Len(path)  PROVE Id(path[i]) \in Ids
    OBVIOUS
  <2>0. path[i] \in Segment
    BY <1>1
  <2>1. path[i].number \in Nat
    BY <2>0 DEF Segment
  <2>2. path[i].number % NumIds \in Ids
    BY <2>1, IdAssumption DEF Ids
  <2> QED
    BY <2>2, IdFacts DEF Id
<1>3. ItemId(path) \in Ids
  BY <1>1, <1>2, IdFacts DEF ItemId
<1>4. Len(path) \in Nat /\ (Len(path) <= 1 \/ Id(path[1]) \in Ids)
  BY <1>1, <1>2
<1> QED
  BY <1>3, <1>4, IdFacts DEF Route, NotFound

LEMMA ReachingFacts ==
    ASSUME NEW container \in {"effects", "steps"}, NEW handler \in Handlers[container],
           NEW r \in Reaching[container][handler]
    PROVE  r.id \in Ids /\ r.parent_id \in Ids
<1>0. /\ Handlers["effects"] = {"get", "list", "post", "put", "delete"}
      /\ Handlers["steps"] = {"get", "list", "put", "batch_put", "delete"}
  BY DEF Handlers
<1>1. handler \in {"get", "list", "post", "put", "batch_put", "delete"}
  BY <1>0
<1>2. Reaching[container][handler] \subseteq {Route(path) : path \in Paths}
  BY <1>1 DEF Reaching
<1> QED
  BY <1>2, RouteFacts

(* Reserving an id keeps the invariant, and the id is free.                *)
LEMMA ReserveStep ==
    ASSUME StoreInv, NEW pc \in {"create", "sample"}, NEW list \in Lists,
           Reserve(pc, list)
    PROVE  StoreInv'
<1> USE DEF StoreInv
<1>1. /\ task' = [pc |-> pc, id |-> Counter, list |-> list]
      /\ next_id' = Advanced(Counter)
      /\ wrapped' = (wrapped \/ Counter = 0)
      /\ planted' = IF wrapped' THEN {} ELSE {e \in planted : e >= Counter}
      /\ UNCHANGED <<effects, steps, running>>
  BY DEF Reserve
<1>2. /\ Counter \in Ids /\ Counter \in Nat /\ Advanced(Counter) \in Ids
      /\ Counter' = Advanced(Counter)
      /\ Advanced(Counter) # 0 => Advanced(Counter) = Counter + 1
      /\ list \in Seq(Ids)
  BY <1>1, CounterFacts, IdFacts DEF Counter
<1>3. StoreOK'
  BY <1>1, <1>2 DEF StoreOK
<1>4. \A e \in Ids : Taken(e)' <=> Taken(e)
  BY <1>1 DEF Taken, Stored
<1>5. ASSUME ~wrapped'
      PROVE  /\ ~wrapped /\ Counter # 0
             /\ \A e \in Ids : Taken(e) /\ e \notin planted => e < Counter
  BY <1>1, <1>5 DEF SpentInv, StoreOK
<1>6. SpentInv'
  <2> SUFFICES ASSUME ~wrapped', Counter' # 0, NEW e \in Ids, Taken(e)', e \notin planted'
               PROVE  e < Counter'
    BY DEF SpentInv
  <2>1. e \in Nat /\ Counter \in Nat /\ Counter' = Counter + 1
    BY <1>2, IdFacts
  <2>2. Taken(e) /\ planted' = {d \in planted : d >= Counter}
    BY <1>1, <1>4
  <2>3. CASE e \in planted
    BY <2>1, <2>2, <2>3
  <2>4. CASE e \notin planted
    BY <1>5, <2>1, <2>2, <2>4
  <2> QED
    BY <2>3, <2>4
<1>7. HeldInv'
  BY <1>1, <1>2 DEF HeldInv
<1>8. CreatesAreFresh'
  <2> SUFFICES ASSUME ~wrapped', Counter \notin planted'
               PROVE  /\ Counter \notin Stored'
                      /\ \A s \in StepIds \ {0} : StepKey(Counter, s) \notin steps'
    BY <1>1 DEF CreatesAreFresh
  <2>1. ~Taken(Counter)
    BY <1>1, <1>2, <1>5
  <2>2. Counter \notin Stored'
    BY <1>1, <2>1 DEF Taken, Stored
  <2>3. ASSUME NEW s \in StepIds \ {0}  PROVE StepKey(Counter, s) \notin steps'
    <3>1. s \in Ids \ {0} /\ Counter \in Ids
      BY <1>2, IdFacts
    <3>2. StepKey(Counter, s) = <<Counter, s>>
      BY <3>1, KeyFacts
    <3> QED
      BY <1>1, <2>1, <3>1, <3>2 DEF Taken
  <2> QED
    BY <2>2, <2>3
<1>9. ListInv'
  BY <1>1 DEF ListInv
<1> QED
  BY <1>3, <1>6, <1>7, <1>8, <1>9

(* A step that leaves the counter alone and, if it stores anything, stores *)
(* it under an id e that is spent or planted.                              *)
LEMMA QuietStep ==
    ASSUME StoreInv, StoreOK', NEW e \in Ids,
           UNCHANGED <<next_id, wrapped>>,
           planted \subseteq planted',
           \A d \in Ids : Taken(d)' => Taken(d) \/ d = e,
           ~wrapped /\ Counter # 0 /\ Taken(e)' /\ ~Taken(e) /\ e \notin planted'
               => e < Counter,
           task'.pc \in {"create", "sample", "steps"} =>
               task'.id = task.id /\ task.pc \in {"create", "sample", "steps"},
           task'.pc \in {"create", "sample"} =>
               task' = task /\ UNCHANGED <<effects, steps, planted>>
    PROVE  StoreInv'
<1> USE DEF StoreInv
<1>1. Counter' = Counter
  BY DEF Counter
<1>2. SpentInv'
  BY <1>1 DEF SpentInv
<1>3. HeldInv'
  BY <1>1 DEF HeldInv
<1>4. CreatesAreFresh'
  BY DEF CreatesAreFresh, Stored
<1>5. ListInv'
  BY DEF ListInv
<1> QED
  BY <1>2, <1>3, <1>4, <1>5
-----------------------------------------------------------------------------
LEMMA StoreStep ==
    ASSUME StoreInv, [Next]_vars
    PROVE  StoreInv'
<1> USE DEF StoreInv
<1>1. /\ StoreOK
      /\ Idle \in [pc : {"idle"}, id : Ids, list : Seq(Ids)]
      /\ 0 \in Ids
  BY IdFacts DEF Idle
<1>2. CASE UNCHANGED <<effects, steps, next_id, task, planted, wrapped>>
  <2>1. StoreOK'
    BY <1>2 DEF StoreOK
  <2>2. \A d \in Ids : Taken(d)' <=> Taken(d)
    BY <1>2 DEF Taken, Stored
  <2> QED
    BY <1>1, <1>2, <2>1, <2>2, QuietStep
<1>3. ASSUME UNCHANGED <<effects, steps, next_id, planted, wrapped>>,
             task' \in [pc : {"idle", "batch", "boot", "load"}, id : Ids, list : Seq(Ids)]
      PROVE  StoreInv'
  <2>1. StoreOK'
    BY <1>3 DEF StoreOK
  <2>2. \A d \in Ids : Taken(d)' <=> Taken(d)
    BY <1>3 DEF Taken, Stored
  <2> QED
    BY <1>1, <1>3, <2>1, <2>2, QuietStep
<1>4. CASE StoreNew
  <2>1. /\ task.pc \in {"create", "sample"} /\ task.id \in Ids
        /\ task.list \in Lists
        /\ effects' = [effects EXCEPT ![task.id] = task.list]
        /\ task' = IF task.pc = "create" THEN Idle ELSE [task EXCEPT !.pc = "steps"]
        /\ UNCHANGED <<steps, next_id, planted, wrapped>>
    BY <1>4 DEF StoreNew, StoreOK, ListInv
  <2>2. /\ task' \in [pc : {"idle", "steps"}, id : Ids, list : Seq(Ids)]
        /\ task'.pc = "steps" => task'.id = task.id
    BY <1>1, <2>1 DEF StoreOK
  <2>3. StoreOK'
    BY <2>1, <2>2 DEF StoreOK
  <2>4. \A d \in Ids : Taken(d)' => Taken(d) \/ d = task.id
    BY <2>1 DEF Taken, Stored, StoreOK
  <2>5. ~wrapped /\ Counter # 0 => task.id < Counter
    BY <2>1 DEF HeldInv
  <2>6. /\ task'.pc \in {"create", "sample", "steps"} =>
              task'.id = task.id /\ task.pc \in {"create", "sample", "steps"}
        /\ task'.pc \notin {"create", "sample"}
    BY <2>1, <2>2
  <2> QED
    BY <2>1, <2>3, <2>4, <2>5, <2>6, QuietStep
<1>5. ASSUME NEW list \in StepLists, PostEffect(list)
      PROVE  StoreInv'
  BY <1>5, ReserveStep DEF PostEffect, Lists
<1>6. CASE CreateSample
  BY <1>6, ReserveStep DEF CreateSample, Lists
<1>7. CASE PostFails
  BY <1>1, <1>3, <1>7 DEF PostFails
<1>8. ASSUME NEW e \in Ids, NEW list \in StepLists, PutEffect(e, list)
      PROVE  StoreInv'
  <2>1. /\ task.pc = "idle"
        /\ effects' = [effects EXCEPT ![e] = list]
        /\ planted' = IF e >= Counter /\ ~wrapped THEN planted \cup {e} ELSE planted
        /\ UNCHANGED <<steps, next_id, task, wrapped>>
        /\ list \in Lists
    BY <1>8 DEF PutEffect, Plant, Lists
  <2>2. StoreOK'
    BY <2>1 DEF StoreOK
  <2>3. \A d \in Ids : Taken(d)' => Taken(d) \/ d = e
    BY <2>1 DEF Taken, Stored, StoreOK
  <2>4. ~wrapped /\ e \notin planted' => e < Counter
    <3>1. e \in Nat /\ Counter \in Nat
      BY CounterFacts, IdFacts
    <3>2. e >= Counter /\ ~wrapped => e \in planted'
      BY <2>1
    <3> QED
      BY <3>1, <3>2
  <2> QED
    BY <2>1, <2>2, <2>3, <2>4, QuietStep
<1>9. ASSUME NEW e \in Ids, DeleteEffect(e)
      PROVE  StoreInv'
  <2>1. /\ task.pc = "idle"
        /\ effects' = [effects EXCEPT ![e] = NoBlob]
        /\ UNCHANGED <<steps, next_id, task, planted, wrapped>>
    BY <1>9 DEF DeleteEffect
  <2>2. StoreOK'
    BY <2>1 DEF StoreOK
  <2>3. \A d \in Ids : Taken(d)' => Taken(d)
    BY <2>1 DEF Taken, Stored, StoreOK
  <2> QED
    BY <2>1, <2>2, <2>3, QuietStep
<1>10. ASSUME NEW e \in Ids, StartBatch(e)
       PROVE  StoreInv'
  <2>1. task' = [Idle EXCEPT !.pc = "batch", !.id = e]
    BY <1>10 DEF StartBatch
  <2>2. task' \in [pc : {"batch"}, id : Ids, list : Seq(Ids)]
    BY <1>1, <2>1
  <2> QED
    BY <1>3, <1>10, <2>2 DEF StartBatch
<1>11. ASSUME NEW s \in StepIds, PutStep(s)
       PROVE  StoreInv'
  <2>1. /\ task.pc = "batch" /\ task.id \in Ids /\ s \in Ids
        /\ steps' = steps \cup {StepKey(task.id, s)}
        /\ planted' = IF task.id >= Counter /\ ~wrapped THEN planted \cup {task.id} ELSE planted
        /\ UNCHANGED <<effects, next_id, task, wrapped>>
    BY <1>11, IdFacts DEF PutStep, Plant, StoreOK
  <2>2. StoreOK'
    BY <2>1, KeyFacts DEF StoreOK
  <2>3. \A d \in Ids : Taken(d)' => Taken(d) \/ d = task.id
    <3>1. ASSUME NEW d \in Ids, NEW t \in Ids \ {0}, <<d, t>> \in steps', d # task.id
          PROVE  <<d, t>> \in steps
      <4>1. StepKey(task.id, s) \in {<<task.id, s>>, <<0, 0>>}
        BY <2>1, KeyFacts
      <4> QED
        BY <2>1, <3>1, <4>1
    <3> QED
      BY <2>1, <3>1 DEF Taken, Stored
  <2>4. ~wrapped /\ task.id \notin planted' => task.id < Counter
    <3>1. task.id \in Nat /\ Counter \in Nat
      BY <2>1, CounterFacts, IdFacts
    <3>2. task.id >= Counter /\ ~wrapped => task.id \in planted'
      BY <2>1
    <3> QED
      BY <3>1, <3>2
  <2> QED
    BY <2>1, <2>2, <2>3, <2>4, QuietStep
<1>12. CASE EndBatch
  BY <1>1, <1>3, <1>12 DEF EndBatch
<1>13. ASSUME NEW e \in Ids, NEW s \in Ids, DeleteStep(e, s)
       PROVE  StoreInv'
  <2>1. /\ task.pc = "idle"
        /\ steps' = steps \ {StepKey(e, s)}
        /\ UNCHANGED <<effects, next_id, task, planted, wrapped>>
    BY <1>13 DEF DeleteStep
  <2>2. StoreOK'
    BY <2>1 DEF StoreOK
  <2>3. \A d \in Ids : Taken(d)' => Taken(d)
    BY <2>1 DEF Taken, Stored
  <2> QED
    BY <2>1, <2>2, <2>3, QuietStep
<1>14. CASE FindEffects
  BY <1>3, <1>14 DEF FindEffects, StoreOK
<1>15. CASE StoreSampleStep
  <2>1. /\ task.pc = "steps" /\ task.id \in Ids
        /\ task.list \in Seq(Ids) /\ task.list # <<>>
        /\ steps' \in {steps \cup {StepKey(task.id, Head(task.list))}, steps}
        /\ task' = [task EXCEPT !.list = Tail(@)]
        /\ UNCHANGED <<effects, next_id, planted, wrapped>>
    BY <1>15 DEF StoreSampleStep, StoreOK
  <2>2. Head(task.list) \in Ids /\ Tail(task.list) \in Seq(Ids)
    BY <2>1
  <2>3. /\ task' \in [pc : {"steps"}, id : Ids, list : Seq(Ids)]
        /\ task'.id = task.id
    BY <2>1, <2>2 DEF StoreOK
  <2>4. StoreOK'
    BY <2>1, <2>2, <2>3, KeyFacts DEF StoreOK
  <2>5. \A d \in Ids : Taken(d)' => Taken(d) \/ d = task.id
    <3>1. ASSUME NEW d \in Ids, NEW t \in Ids \ {0}, <<d, t>> \in steps', d # task.id
          PROVE  <<d, t>> \in steps
      <4>1. StepKey(task.id, Head(task.list))
                \in {<<task.id, Head(task.list)>>, <<0, 0>>}
        BY <2>1, <2>2, KeyFacts
      <4> QED
        BY <2>1, <3>1, <4>1
    <3> QED
      BY <2>1, <3>1 DEF Taken, Stored
  <2>6. ~wrapped /\ Counter # 0 => task.id < Counter
    BY <2>1 DEF HeldInv
  <2> QED
    BY <2>1, <2>3, <2>4, <2>5, <2>6, QuietStep
<1>16. CASE SampleDone
  BY <1>3, <1>16 DEF SampleDone, StoreOK
<1>17. CASE Load
  BY <1>1, <1>3, <1>17 DEF Load
<1>18. CASE Restart
  <2>1. Booting \in [pc : {"boot"}, id : Ids, list : Seq(Ids)]
    BY <1>1 DEF Booting
  <2> QED
    BY <1>3, <1>18, <2>1 DEF Restart
<1>19. CASE UNCHANGED vars
  BY <1>2, <1>19 DEF vars
<1>20. CASE Request
  <2>0. PICK container \in {"effects", "steps"} :
            \E handler \in Handlers[container] :
                \E r \in Reaching[container][handler] : Handle(container, handler, r)
    BY <1>20 DEF Request
  <2>1. PICK handler \in Handlers[container] :
            \E r \in Reaching[container][handler] : Handle(container, handler, r)
    BY <2>0
  <2>2. PICK r \in Reaching[container][handler] : Handle(container, handler, r)
    BY <2>1
  <2>3. r.id \in Ids /\ r.parent_id \in Ids
    BY <2>1, <2>2, ReachingFacts
  <2> QED
    BY <1>5, <1>8, <1>9, <1>10, <1>13, <2>2, <2>3 DEF Handle
<1> QED
  BY <1>4, <1>6, <1>7, <1>11, <1>12, <1>14, <1>15, <1>16, <1>17, <1>18, <1>19, <1>20
     DEF Next, Continue, Boot

LEMMA StoreInitially == Init => StoreInv
<1> SUFFICES ASSUME Init  PROVE StoreInv
  OBVIOUS
<1>1. /\ effects = [e \in Ids |-> NoBlob] /\ steps = {}
      /\ next_id = NoCounter /\ planted = {} /\ wrapped = FALSE
      /\ task = Booting
  BY DEF Init
<1>2. task \in [pc : {"boot"}, id : Ids, list : Seq(Ids)]
  BY <1>1, IdFacts DEF Booting, Idle
<1>3. StoreOK
  BY <1>1, <1>2 DEF StoreOK
<1>4. \A e \in Ids : ~Taken(e)
  BY <1>1 DEF Taken, Stored
<1> QED
  BY <1>2, <1>3, <1>4 DEF StoreInv, SpentInv, HeldInv, ListInv, CreatesAreFresh

(* The counter of create_blob gives a new effect an id nothing is stored   *)
(* under, in every behaviour of the store: CreatesAreFresh is invariant.   *)
THEOREM FreshIds == Spec => []CreatesAreFresh
<1>1. StoreInv => CreatesAreFresh
  BY DEF StoreInv
<1> QED
  BY <1>1, StoreInitially, StoreStep, PTL DEF Spec
-----------------------------------------------------------------------------
(* The loader.  What a chain of effects is while it is being put together. *)
LinkStates == [list : SUBSET Ids, tail : BOOLEAN]

LEMMA LinkType == \A l \in LinkStates, e \in Ids : Link(l, e) \in LinkStates
BY DEF LinkStates, Link, Whole

Linking(f, l, page) ==
    /\ f \in [0..Len(page) -> LinkStates]
    /\ f[0] = l
    /\ \A i \in 1..Len(page) : f[i] = Link(f[i - 1], page[i])

(* A page is linked one effect at a time.                                  *)
LEMMA LinkAllFacts ==
    ASSUME NEW l \in LinkStates, NEW page \in Seq(Ids)
    PROVE  \E f : Linking(f, l, page) /\ LinkAll(l, page) = f[Len(page)]
<1> DEFINE Def(f) == f = [i \in 0..Len(page) |-> IF i = 0 THEN l ELSE Link(f[i - 1], page[i])]
           step == [x \in LinkStates \X (1..Len(page)) |-> Link(x[1], page[x[2]])]
           after == CHOOSE f : Def(f)
<1>1. Len(page) \in Nat /\ \A i \in 1..Len(page) : page[i] \in Ids
  OBVIOUS
<1>2. step \in [LinkStates \X (1..Len(page)) -> LinkStates]
  <2>1. ASSUME NEW x \in LinkStates \X (1..Len(page)) PROVE Link(x[1], page[x[2]]) \in LinkStates
    BY <1>1, LinkType
  <2> QED  BY <2>1
<1>3. PICK f : Recurs(f, Len(page), LinkStates, l, step)
  <2> HIDE DEF step
  <2> QED  BY <1>1, <1>2, RecursionExists
<1>4. Def(f)
  <2>0. f[0] = l /\ \A i \in 1..Len(page) : f[i] = step[<<f[i - 1], i>>]
    BY <1>3 DEF Recurs
  <2>1. ASSUME NEW i \in 1..Len(page) PROVE step[<<f[i - 1], i>>] = Link(f[i - 1], page[i])
    <3>1. i - 1 \in 0..Len(page)
      BY <1>1
    <3>2. f[i - 1] \in LinkStates
      BY <1>3, <3>1 DEF Recurs
    <3> QED  BY <3>2
  <2> HIDE DEF step
  <2>4. \A i \in 0..Len(page) : i # 0 => i \in 1..Len(page)
    BY <1>1
  <2>2. \A i \in 0..Len(page) : f[i] = IF i = 0 THEN l ELSE Link(f[i - 1], page[i])
    BY <1>1, <2>0, <2>1, <2>4
  <2>3. f = [i \in 0..Len(page) |-> f[i]]
    BY <1>3 DEF Recurs
  <2> QED  BY <2>2, <2>3, Zenon
<1>5. Def(after)
  <2> HIDE DEF Def
  <2> QED BY <1>4
<1>6. LinkAll(l, page) = after[Len(page)]
  BY DEF LinkAll
<1> HIDE DEF after
<1>7. /\ after[0] = l
      /\ \A i \in 1..Len(page) : after[i] = Link(after[i - 1], page[i])
  BY <1>1, <1>5
<1>8. \A i \in 0..Len(page) : after[i] \in LinkStates
  <2> DEFINE T == {i \in 0..Len(page) : after[i] \in LinkStates}
  <2>1. 0 \in T
    BY <1>1, <1>7
  <2>2. ASSUME NEW i \in 0..(Len(page) - 1), i \in T PROVE i + 1 \in T
    <3>1. /\ i + 1 \in 1..Len(page) /\ (i + 1) - 1 = i /\ after[i] \in LinkStates
          /\ page[i + 1] \in Ids
      BY <1>1, <2>2
    <3>2. after[i + 1] = Link(after[i], page[i + 1])
      BY <1>7, <3>1
    <3> QED  BY <3>1, <3>2, LinkType
  <2> HIDE DEF T
  <2>3. \A i \in 0..Len(page) : i \in T
    BY <1>1, <2>1, <2>2, InductTo
  <2> QED  BY <2>3 DEF T
<1>9. after \in [0..Len(page) -> LinkStates]
  BY <1>5, <1>8
<1> QED
  BY <1>6, <1>7, <1>9 DEF Linking

LEMMA LinkAllType ==
    \A l \in LinkStates, page \in Seq(Ids) : LinkAll(l, page) \in LinkStates
<1> SUFFICES ASSUME NEW l \in LinkStates, NEW page \in Seq(Ids)
             PROVE  LinkAll(l, page) \in LinkStates
  OBVIOUS
<1>1. PICK f : Linking(f, l, page) /\ LinkAll(l, page) = f[Len(page)]
  BY LinkAllFacts
<1>2. Len(page) \in 0..Len(page)
  OBVIOUS
<1> QED
  BY <1>1, <1>2 DEF Linking

(* Where page n of a listing ends.                                         *)
End(order, n) == IF n * PageSize <= Len(order) THEN n * PageSize ELSE Len(order)

(* Pages follow one another, and there are enough of them.                 *)
LEMMA PageFacts ==
    ASSUME NEW order \in Seq(Ids)
    PROVE  /\ Pages(order) \in Nat \ {0}
           /\ End(order, 0) = 0 /\ End(order, Pages(order)) = Len(order)
           /\ \A n \in 1..Pages(order) :
                  /\ End(order, n - 1) \in 0..Len(order) /\ End(order, n) \in End(order, n - 1)..Len(order)
                  /\ Page(order, n) \in Seq(Ids)
                  /\ Len(Page(order, n)) = End(order, n) - End(order, n - 1)
                  /\ \A i \in 1..Len(Page(order, n)) :
                        Page(order, n)[i] = order[End(order, n - 1) + i]
<1>1. Len(order) \in Nat /\ PageSize \in Nat /\ PageSize > 0
  BY PageAssumption
<1> DEFINE k == Len(order) \div PageSize
<1>2. k \in Nat /\ k * PageSize <= Len(order) /\ (k + 1) * PageSize > Len(order)
  BY <1>1
<1>3. Pages(order) = k + 1
  BY DEF Pages
<1> HIDE DEF k
<1>4. Pages(order) \in Nat \ {0}
  BY <1>2, <1>3
<1>5. End(order, 0) = 0 /\ End(order, Pages(order)) = Len(order)
  BY <1>1, <1>2, <1>3 DEF End
<1>6. ASSUME NEW n \in 1..Pages(order)
      PROVE  /\ End(order, n - 1) = (n - 1) * PageSize /\ (n - 1) * PageSize \in 0..Len(order)
             /\ n * PageSize = (n - 1) * PageSize + PageSize
  <2>1. n - 1 \in 0..k
    BY <1>2, <1>3
  <2>2. (n - 1) * PageSize <= k * PageSize /\ (n - 1) * PageSize \in Nat
    BY <1>1, <1>2, <2>1
  <2>3. (n - 1) * PageSize \in 0..Len(order)
    BY <1>1, <1>2, <2>1, <2>2
  <2>4. n * PageSize = (n - 1) * PageSize + PageSize
    BY <1>1, <2>1
  <2> QED  BY <1>1, <2>3, <2>4 DEF End
<1>7. ASSUME NEW n \in 1..Pages(order)
      PROVE  /\ End(order, n) \in End(order, n - 1)..Len(order)
             /\ Page(order, n) \in Seq(Ids)
             /\ Len(Page(order, n)) = End(order, n) - End(order, n - 1)
             /\ \A i \in 1..Len(Page(order, n)) : Page(order, n)[i] = order[End(order, n - 1) + i]
  <2> DEFINE a == End(order, n - 1)
             b == End(order, n)
  <2>1. a \in 0..Len(order) /\ b \in a..Len(order) /\ Page(order, n) = SubSeq(order, a + 1, b)
    <3>1. a = (n - 1) * PageSize /\ a \in 0..Len(order) /\ n * PageSize = a + PageSize
      BY <1>6
    <3> HIDE DEF a
    <3>2. b = IF a + PageSize <= Len(order) THEN a + PageSize ELSE Len(order)
      BY <3>1 DEF End
    <3>3. Page(order, n) = SubSeq(order, a + 1, b)
      BY <3>1, <3>2 DEF Page
    <3> HIDE DEF b
    <3> QED  BY <1>1, <3>1, <3>2, <3>3
  <2> HIDE DEF a, b
  <2>2. SubSeq(order, a + 1, b) = [i \in 1..(b - a) |-> order[a + i]]
    BY <1>1, <2>1
  <2>3. \A i \in 1..(b - a) : a + i \in 1..Len(order)
    BY <1>1, <2>1
  <2>4. /\ [i \in 1..(b - a) |-> order[a + i]] \in Seq(Ids)
        /\ Len([i \in 1..(b - a) |-> order[a + i]]) = b - a
    BY <1>1, <2>1, <2>3
  <2> QED  BY <2>1, <2>2, <2>3, <2>4 DEF a, b
<1> QED
  BY <1>4, <1>5, <1>6, <1>7

Nothing == [list |-> {}, tail |-> FALSE]

Loading(f, order) ==
    /\ f \in [0..Pages(order) -> LinkStates]
    /\ f[0] = Nothing
    /\ \A n \in 1..Pages(order) : f[n] = LinkAll(f[n - 1], Page(order, n))

LEMMA LoadedFacts ==
    ASSUME NEW order \in Seq(Ids)
    PROVE  \E f : Loading(f, order) /\ Loaded(order) = f[Pages(order)].list
<1> DEFINE m == Pages(order)
           Def(f) == f = [n \in 0..m |->
                             IF n = 0 THEN [list |-> {}, tail |-> FALSE]
                             ELSE LinkAll(f[n - 1], Page(order, n))]
           step == [x \in LinkStates \X (1..m) |-> LinkAll(x[1], Page(order, x[2]))]
           after == CHOOSE f : Def(f)
<1>1. m \in Nat /\ \A n \in 1..m : Page(order, n) \in Seq(Ids)
  BY PageFacts
<1>a. Loaded(order) = after[m].list
  BY DEF Loaded
<1> HIDE DEF m
<1>b. Nothing \in LinkStates
  BY DEF Nothing, LinkStates
<1>2. step \in [LinkStates \X (1..m) -> LinkStates]
  <2>1. ASSUME NEW x \in LinkStates \X (1..m)
        PROVE  LinkAll(x[1], Page(order, x[2])) \in LinkStates
    BY <1>1, LinkAllType
  <2> QED  BY <2>1
<1>3. PICK f : Recurs(f, m, LinkStates, Nothing, step)
  <2> HIDE DEF step
  <2> QED  BY <1>1, <1>2, <1>b, RecursionExists
<1>4. Def(f)
  <2>1. f[0] = Nothing /\ \A n \in 1..m : f[n] = step[<<f[n - 1], n>>]
    BY <1>3 DEF Recurs
  <2>2. ASSUME NEW n \in 1..m PROVE step[<<f[n - 1], n>>] = LinkAll(f[n - 1], Page(order, n))
    <3>1. n - 1 \in 0..m
      BY <1>1
    <3>2. f[n - 1] \in LinkStates
      BY <1>3, <3>1 DEF Recurs
    <3> QED  BY <3>2
  <2> HIDE DEF step
  <2>3. \A n \in 0..m : n # 0 => n \in 1..m
    BY <1>1
  <2>4. \A n \in 0..m : f[n] = IF n = 0 THEN [list |-> {}, tail |-> FALSE]
                              ELSE LinkAll(f[n - 1], Page(order, n))
    BY <2>1, <2>2, <2>3 DEF Nothing
  <2>5. f = [n \in 0..m |-> f[n]]
    BY <1>3 DEF Recurs
  <2> QED  BY <2>4, <2>5, Zenon
<1>5. Def(after)
  <2> HIDE DEF Def
  <2> QED  BY <1>4
<1> HIDE DEF after
<1>6. /\ after[0] = Nothing
      /\ \A n \in 1..m : after[n] = LinkAll(after[n - 1], Page(order, n))
  <2>1. 0 \in 0..m /\ \A n \in 1..m : n \in 0..m /\ n # 0
    BY <1>1
  <2>2. \A n \in 0..m : after[n] = IF n = 0 THEN [list |-> {}, tail |-> FALSE]
                                  ELSE LinkAll(after[n - 1], Page(order, n))
    BY <1>5, Zenon
  <2> HIDE DEF Def
  <2> QED  BY <2>1, <2>2 DEF Nothing
<1>7. \A n \in 0..m : after[n] \in LinkStates
  <2> DEFINE T == {n \in 0..m : after[n] \in LinkStates}
  <2>1. 0 \in T
    BY <1>1, <1>6, <1>b
  <2>2. ASSUME NEW n \in 0..(m - 1), n \in T PROVE n + 1 \in T
    <3>1. /\ n + 1 \in 1..m /\ n + 1 \in 0..m /\ (n + 1) - 1 = n /\ after[n] \in LinkStates
      BY <1>1, <2>2
    <3>2. after[n + 1] = LinkAll(after[n], Page(order, n + 1)) /\ Page(order, n + 1) \in Seq(Ids)
      BY <1>1, <1>6, <3>1
    <3> QED  BY <3>1, <3>2, LinkAllType
  <2> HIDE DEF T
  <2>3. \A n \in 0..m : n \in T
    BY <1>1, <2>1, <2>2, InductTo
  <2> QED  BY <2>3 DEF T
<1>8. after \in [0..m -> LinkStates]
  BY <1>5, <1>7
<1> QED
  BY <1>6, <1>8, <1>a DEF Loading, m

LEMMA LoadedType == \A order \in Seq(Ids) : Loaded(order) \subseteq Ids
<1> SUFFICES ASSUME NEW order \in Seq(Ids) PROVE Loaded(order) \subseteq Ids
  OBVIOUS
<1>1. PICK f : Loading(f, order) /\ Loaded(order) = f[Pages(order)].list
  BY LoadedFacts
<1>2. Pages(order) \in 0..Pages(order)
  BY PageFacts
<1>3. f[Pages(order)] \in LinkStates
  BY <1>1, <1>2 DEF Loading
<1> QED
  BY <1>1, <1>3 DEF LinkStates

(* What is in place when k effects of a page are linked, all of them whole. *)
Appended(l, page, k) ==
    IF k = 0 THEN l
    ELSE [list |-> (IF l.tail THEN l.list ELSE {}) \cup {page[i] : i \in 1..k}, tail |-> TRUE]

LEMMA WholePage ==
    ASSUME NEW l \in LinkStates, NEW page \in Seq(Ids),
           \A i \in 1..Len(page) : Whole(page[i])
    PROVE  LinkAll(l, page) = Appended(l, page, Len(page))
<1>1. PICK f : Linking(f, l, page) /\ LinkAll(l, page) = f[Len(page)]
  BY LinkAllFacts
<1> DEFINE T == {k \in 0..Len(page) : f[k] = Appended(l, page, k)}
<1>2. Len(page) \in Nat
  OBVIOUS
<1>3. 0 \in T
  BY <1>1, <1>2 DEF Linking, Appended
<1>4. ASSUME NEW k \in 0..(Len(page) - 1), k \in T PROVE k + 1 \in T
  <2> DEFINE old == {page[i] : i \in 1..k}
             new == {page[i] : i \in 1..(k + 1)}
  <2>1. k + 1 \in 1..Len(page) /\ k + 1 \in 0..Len(page) /\ (k + 1) - 1 = k /\ k + 1 # 0
    BY <1>2, <1>4
  <2>2. f[k + 1] = Link(Appended(l, page, k), page[k + 1]) /\ Whole(page[k + 1])
    BY <1>1, <1>4, <2>1 DEF Linking
  <2>3. new = old \cup {page[k + 1]} /\ (k = 0 => old = {})
    <3>1. 1..(k + 1) = (1..k) \cup {k + 1}
      BY <1>4
    <3> QED  BY <3>1
  <2>4. Appended(l, page, k + 1)
        = [list |-> (IF l.tail THEN l.list ELSE {}) \cup new, tail |-> TRUE]
    BY <2>1 DEF Appended
  <2>5. k # 0 => Appended(l, page, k)
                 = [list |-> (IF l.tail THEN l.list ELSE {}) \cup old, tail |-> TRUE]
    BY DEF Appended
  <2>6. k = 0 => Appended(l, page, k) = l
    BY DEF Appended
  <2> HIDE DEF old, new
  <2>7. f[k + 1] = [list |-> (IF Appended(l, page, k).tail THEN Appended(l, page, k).list ELSE {})
                             \cup {page[k + 1]}, tail |-> TRUE]
    BY <2>2 DEF Link
  <2>8. f[k + 1] = Appended(l, page, k + 1)
    <3>1. CASE k = 0
      BY <2>3, <2>4, <2>6, <2>7, <3>1
    <3>2. CASE k # 0
      <4>1. /\ Appended(l, page, k).tail = TRUE
            /\ Appended(l, page, k).list = (IF l.tail THEN l.list ELSE {}) \cup old
        BY <2>5, <3>2
      <4>2. f[k + 1] = [list |-> ((IF l.tail THEN l.list ELSE {}) \cup old) \cup {page[k + 1]},
                        tail |-> TRUE]
        BY <2>7, <4>1
      <4>3. ((IF l.tail THEN l.list ELSE {}) \cup old) \cup {page[k + 1]}
            = (IF l.tail THEN l.list ELSE {}) \cup new
        BY <2>3
      <4> QED  BY <2>4, <4>2, <4>3
    <3> QED  BY <3>1, <3>2
  <2> QED  BY <2>1, <2>8
<1> HIDE DEF T
<1>5. \A k \in 0..Len(page) : k \in T
  BY <1>2, <1>3, <1>4, InductTo
<1>6. Len(page) \in 0..Len(page)
  BY <1>2
<1> QED
  BY <1>1, <1>5, <1>6 DEF T

(* A listing of whole effects is loaded whole.                             *)
LEMMA WholeListing ==
    ASSUME NEW order \in Seq(Ids), \A i \in 1..Len(order) : Whole(order[i])
    PROVE  Loaded(order) = {order[i] : i \in 1..Len(order)}
<1>1. PICK f : Loading(f, order) /\ Loaded(order) = f[Pages(order)].list
  BY LoadedFacts
<1>2. Pages(order) \in Nat \ {0} /\ Len(order) \in Nat
  BY PageFacts
<1> DEFINE T == {n \in 0..Pages(order) : f[n] = Appended(Nothing, order, End(order, n))}
<1>3. 0 \in T
  BY <1>1, <1>2, PageFacts DEF Loading, Appended
<1>4. ASSUME NEW n \in 0..(Pages(order) - 1), n \in T PROVE n + 1 \in T
  <2> DEFINE a == End(order, n)
             b == End(order, n + 1)
             page == Page(order, n + 1)
  <2>1. n + 1 \in 1..Pages(order) /\ n + 1 \in 0..Pages(order) /\ (n + 1) - 1 = n
    BY <1>2, <1>4
  <2>2. /\ a \in 0..Len(order) /\ b \in a..Len(order) /\ page \in Seq(Ids) /\ Len(page) = b - a
        /\ \A i \in 1..(b - a) : page[i] = order[a + i]
    BY <2>1, PageFacts
  <2>3. f[n] = Appended(Nothing, order, a) /\ f[n] \in LinkStates /\ f[n + 1] = LinkAll(f[n], page)
    BY <1>1, <1>4, <2>1 DEF Loading
  <2> HIDE DEF a, b, page
  <2>4. \A i \in 1..Len(page) : Whole(page[i])
    <3>1. ASSUME NEW i \in 1..(b - a) PROVE a + i \in 1..Len(order) /\ page[i] = order[a + i]
      BY <1>2, <2>2
    <3> QED  BY <2>2, <3>1
  <2>5. f[n + 1] = Appended(f[n], page, b - a)
    BY <2>2, <2>3, <2>4, WholePage
  <2>6. Appended(f[n], page, b - a) = Appended(Nothing, order, b)
    <3>1. CASE b = a
      BY <1>2, <2>2, <2>3, <3>1 DEF Appended
    <3>2. CASE b # a
      <4> DEFINE old == {order[i] : i \in 1..a}
                 more == {page[i] : i \in 1..(b - a)}
                 all == {order[i] : i \in 1..b}
      <4>1. b # 0 /\ b - a # 0
        BY <1>2, <2>2, <3>2
      <4>2. Appended(Nothing, order, b) = [list |-> {} \cup all, tail |-> TRUE]
        BY <4>1 DEF Appended, Nothing
      <4>3. Appended(f[n], page, b - a)
            = [list |-> (IF f[n].tail THEN f[n].list ELSE {}) \cup more, tail |-> TRUE]
        BY <4>1 DEF Appended
      <4>4. a # 0 => f[n].tail = TRUE /\ f[n].list = {} \cup old
        BY <2>3 DEF Appended, Nothing
      <4>5. a = 0 => f[n].tail = FALSE /\ old = {}
        BY <2>3 DEF Appended, Nothing
      <4>6. all = old \cup more
        <5>1. ASSUME NEW i \in 1..b PROVE order[i] \in old \cup more
          <6>1. CASE i <= a
            BY <1>2, <2>2, <6>1
          <6>2. CASE ~(i <= a)
            <7>1. i - a \in 1..(b - a) /\ a + (i - a) = i
              BY <1>2, <2>2, <6>2
            <7>2. page[i - a] = order[i]
              BY <2>2, <7>1
            <7> QED  BY <7>1, <7>2
          <6> QED  BY <6>1, <6>2
        <5>2. ASSUME NEW i \in 1..(b - a) PROVE page[i] \in all
          <6>1. a + i \in 1..b /\ page[i] = order[a + i]
            BY <1>2, <2>2
          <6> QED  BY <6>1
        <5>3. ASSUME NEW i \in 1..a PROVE order[i] \in all
          BY <1>2, <2>2
        <5> QED  BY <5>1, <5>2, <5>3
      <4> HIDE DEF old, more, all
      <4> QED  BY <4>2, <4>3, <4>4, <4>5, <4>6
    <3> QED  BY <3>1, <3>2
  <2> QED  BY <2>1, <2>5, <2>6 DEF b
<1> HIDE DEF T
<1>5. \A n \in 0..Pages(order) : n \in T
  BY <1>2, <1>3, <1>4, InductTo
<1>6. f[Pages(order)] = Appended(Nothing, order, Len(order))
  BY <1>2, <1>5, PageFacts DEF T
<1>7. CASE Len(order) = 0
  BY <1>1, <1>6, <1>7 DEF Appended, Nothing
<1>8. CASE Len(order) # 0
  BY <1>1, <1>6, <1>8 DEF Appended, Nothing
<1> QED
  BY <1>7, <1>8(* A listing of the store has every stored effect, once.                   *)
LEMMA ListingFacts ==
    ASSUME StoreOK, NEW order \in SetToSeqs(Stored)
    PROVE  order \in Seq(Ids) /\ {order[i] : i \in 1..Len(order)} = Stored
<1>1. Stored \subseteq Ids /\ IsFiniteSet(Stored)
  <2>1. IsFiniteSet(Ids)
    BY IdAssumption, FS_Interval DEF Ids
  <2>2. Stored \subseteq Ids
    BY DEF Stored
  <2> QED  BY <2>1, <2>2, FS_Subset
<1> DEFINE n == Cardinality(Stored)
<1>2. n \in Nat /\ order \in [1..n -> Stored]
      /\ \A i, j \in 1..n : i # j => order[i] # order[j]
  BY <1>1, FS_CardinalityType DEF SetToSeqs
<1> HIDE DEF n
<1>3. order \in Seq(Ids) /\ Len(order) = n
  BY <1>1, <1>2
<1>4. IsFiniteSet(1..n) /\ Cardinality(1..n) = n
  BY <1>2, FS_Interval
<1>5. order \in Injection(1..n, Stored)
  BY <1>2 DEF Injection, IsInjective
<1>6. order \in Surjection(1..n, Stored)
  BY <1>1, <1>4, <1>5, FS_Injection DEF n
<1>7. \A e \in Stored : \E i \in 1..n : order[i] = e
  BY <1>6 DEF Surjection
<1> QED
  BY <1>2, <1>3, <1>7

(* There is something to load when the boot comes to it.                   *)
LoadInv ==
    /\ running \subseteq Ids
    /\ task.pc \in {"steps", "load"} => Stored # {}

LEMMA LoadStep ==
    ASSUME StoreInv, LoadInv, [Next]_vars
    PROVE  LoadInv'
<1>1. StoreOK /\ StoreInv'
  BY StoreStep DEF StoreInv
<1>2. ASSUME UNCHANGED <<effects, running>>,
             task'.pc \in {"steps", "load"} => task.pc \in {"steps", "load"} \/ Stored # {}
      PROVE  LoadInv'
  BY <1>2 DEF LoadInv, Stored
<1>3. ASSUME task'.pc \notin {"steps", "load"}, UNCHANGED running
      PROVE  LoadInv'
  BY <1>3 DEF LoadInv
<1>4. CASE StoreNew
  <2>1. /\ task.id \in Ids /\ task.list \in Lists /\ UNCHANGED running
        /\ effects' = [effects EXCEPT ![task.id] = task.list]
    BY <1>1, <1>4 DEF StoreNew, StoreInv, StoreOK, ListInv
  <2>2. task.id \in Stored'
    BY <1>1, <2>1, IdFacts DEF Stored, StoreOK
  <2> QED  BY <2>1, <2>2 DEF LoadInv
<1>5. CASE Request
  <2>1. \E container, handler, r : Handle(container, handler, r)
    BY <1>5 DEF Request
  <2>a. \/ \E list : PostEffect(list)
        \/ \E e, list : PutEffect(e, list)
        \/ \E e : DeleteEffect(e)
        \/ \E e : StartBatch(e)
        \/ \E e, s : DeleteStep(e, s)
    BY <2>1, Zenon DEF Handle
  <2>2. task'.pc \in {"idle", "create", "batch"} /\ UNCHANGED running
    <3>1. \A list : PostEffect(list) => task'.pc = "create" /\ UNCHANGED running
      BY DEF PostEffect, Reserve
    <3>2. \A e, list : PutEffect(e, list) => task'.pc = "idle" /\ UNCHANGED running
      BY DEF PutEffect
    <3>3. \A e : DeleteEffect(e) => task'.pc = "idle" /\ UNCHANGED running
      BY DEF DeleteEffect
    <3>4. \A e : StartBatch(e) => task'.pc = "batch" /\ UNCHANGED running
      BY DEF StartBatch, Idle
    <3>5. \A e, s : DeleteStep(e, s) => task'.pc = "idle" /\ UNCHANGED running
      BY DEF DeleteStep
    <3> QED  BY <2>a, <3>1, <3>2, <3>3, <3>4, <3>5
  <2> QED  BY <1>3, <2>2
<1>6. CASE Continue
  BY <1>3, <1>6 DEF Continue, PostFails, EndBatch, PutStep, Idle
<1>7. CASE FindEffects
  BY <1>2, <1>7 DEF FindEffects
<1>8. CASE CreateSample
  BY <1>3, <1>8 DEF CreateSample, Reserve
<1>9. CASE StoreSampleStep \/ SampleDone
  BY <1>2, <1>9 DEF StoreSampleStep, SampleDone
<1>10. CASE Load
  <2>1. PICK order \in SetToSeqs(Stored) : running' = Loaded(order)
    BY <1>10 DEF Load
  <2>2. running' \subseteq Ids
    BY <1>1, <2>1, ListingFacts, LoadedType
  <2> QED  BY <1>10, <2>2 DEF Load, Idle, LoadInv
<1>11. CASE Restart
  BY <1>11 DEF Restart, Booting, Idle, LoadInv
<1>12. CASE UNCHANGED vars
  BY <1>2, <1>12 DEF vars
<1> QED
  BY <1>4, <1>5, <1>6, <1>7, <1>8, <1>9, <1>10, <1>11, <1>12 DEF Next, Boot

LEMMA LoadInvariant == Spec => [](StoreInv /\ LoadInv)
<1>1. Init => LoadInv
  BY DEF Init, LoadInv, Booting, Idle
<1> QED
  BY <1>1, StoreInitially, StoreStep, LoadStep, PTL DEF Spec

(* What is stored and what is played is well-typed: the loader takes ids   *)
(* out of a listing and no others, whatever it does at the end of a page.  *)
THEOREM StoreTypes == Spec => []TypeOK
<1>1. StoreInv /\ LoadInv => TypeOK
  BY DEF StoreInv, StoreOK, LoadInv, TypeOK
<1> QED
  BY <1>1, LoadInvariant, PTL

(* However many pages a listing has and in whatever order it comes, a      *)
(* store of whole effects is loaded whole, and never without any.          *)
THEOREM HealthyLoads == Spec => HealthyStoreLoads
<1>1. StoreInv /\ LoadInv /\ [Next]_vars
      => [Load /\ (\A e \in Stored : Whole(e)) => running' = Stored /\ running' # {}]_vars
  <2> SUFFICES ASSUME StoreInv, LoadInv, Load, \A e \in Stored : Whole(e)
               PROVE  running' = Stored /\ running' # {}
    OBVIOUS
  <2>1. PICK order \in SetToSeqs(Stored) : running' = Loaded(order)
    BY DEF Load
  <2>2. order \in Seq(Ids) /\ {order[i] : i \in 1..Len(order)} = Stored
    BY ListingFacts DEF StoreInv
  <2>3. Loaded(order) = Stored
    BY <2>2, WholeListing
  <2> QED  BY <2>1, <2>3 DEF Load, LoadInv
<1> QED
  BY <1>1, LoadInvariant, PTL DEF Spec, HealthyStoreLoads
-----------------------------------------------------------------------------
(* A route holds the numbers of its path, if they fit.                     *)
LEMMA RouteNames ==
    ASSUME NEW path \in Paths, Fits(path)
    PROVE  /\ Route(path).container = "effects" => Route(path).id = Named(path, 1)
           /\ Route(path).container = "steps" =>
                  Route(path).parent_id = Named(path, 1) /\ Route(path).id = Named(path, 3)
<1>1. path \in Seq(Segment) /\ Len(path) \in Nat /\ DOMAIN path = 1..Len(path)
  BY PathAssumption
<1>2. ASSUME NEW i \in 1..Len(path), Id(path[i]) # 0  PROVE Id(path[i]) = path[i].number
  <2>0. path[i] \in Segment /\ i \in DOMAIN path
    BY <1>1
  <2>1. path[i].number \in Nat /\ path[i].number < NumIds
    BY <2>0 DEF Segment, Fits
  <2>2. path[i].number % NumIds = path[i].number
    BY <2>1, IdAssumption
  <2> QED  BY <1>2, <2>2 DEF Id
<1>3. CASE ~Names(path)
  BY <1>3 DEF Route, NotFound
<1>4. CASE Names(path)
  <2>1. /\ Len(path) >= 1 => Id(path[1]) = path[1].number
        /\ Len(path) >= 3 => Id(path[3]) = path[3].number
        /\ Len(path) <= 3
    BY <1>1, <1>2, <1>4 DEF Names
  <2>2. CASE Len(path) = 0
    BY <1>4, <2>2 DEF Route, ItemId, Named
  <2>3. CASE Len(path) = 1
    BY <1>4, <2>1, <2>3 DEF Route, ItemId, Named
  <2>4. CASE Len(path) = 2
    BY <1>4, <2>1, <2>4 DEF Route, ItemId, Named
  <2>5. CASE Len(path) = 3
    BY <1>4, <2>1, <2>5 DEF Route, ItemId, Named
  <2> QED  BY <1>1, <2>1, <2>2, <2>3, <2>4, <2>5
<1> QED
  BY <1>3, <1>4

LEMMA WritesFacts ==
    ASSUME NEW container \in {"effects", "steps"}, NEW w \in Writes[container]
    PROVE  w.path \in Paths /\ Fits(w.path) /\ w.route = Route(w.path)
           /\ w.route.container = container
BY DEF Writes

LEMMA NamedStep == ASSUME StoreOK PROVE ChangesOnlyNamed
<1>1. ASSUME effects' # effects, NEW w \in Writes["effects"], Handle("effects", w.handler, w.route),
             NEW e \in Ids, effects'[e] # effects[e]
      PROVE  e = Named(w.path, 1)
  <2>1. w.route.id = Named(w.path, 1)
    BY WritesFacts, RouteNames
  <2>2. \/ \E list \in StepLists : PostEffect(list)
        \/ \E list \in StepLists : PutEffect(w.route.id, list)
        \/ DeleteEffect(w.route.id)
    BY <1>1 DEF Handle
  <2>3. \A list : ~PostEffect(list)
    BY <1>1 DEF PostEffect, Reserve
  <2>4. \E x : effects' = [effects EXCEPT ![w.route.id] = x]
    BY <2>2, <2>3 DEF PutEffect, DeleteEffect
  <2> QED  BY <1>1, <2>1, <2>4 DEF StoreOK
<1>2. ASSUME NEW w \in Writes["steps"], Handle("steps", w.handler, w.route)
      PROVE  /\ steps' # steps => steps \ steps' = {StepKey(Named(w.path, 1), Named(w.path, 3))}
             /\ task'.pc = "batch" => task'.id = Named(w.path, 1)
  <2>1. w.route.parent_id = Named(w.path, 1) /\ w.route.id = Named(w.path, 3)
    BY WritesFacts, RouteNames
  <2>2. CASE StartBatch(w.route.parent_id)
    BY <2>1, <2>2 DEF StartBatch, Idle
  <2>3. CASE DeleteStep(w.route.parent_id, w.route.id)
    BY <2>1, <2>3 DEF DeleteStep
  <2> QED  BY <1>2, <2>2, <2>3 DEF Handle
<1> QED
  BY <1>1, <1>2 DEF ChangesOnlyNamed

(* A batch that was begun stores steps of its effect until it is over.     *)
LEMMA BatchStep ==
    ASSUME [Next]_vars, task.pc = "batch"
    PROVE  BatchKeepsToEffect
<1>1. CASE PutStep(0)
  BY <1>1 DEF PutStep, StepKey, BatchKeepsToEffect
<1>2. ASSUME NEW s \in StepIds, s # 0, PutStep(s)
      PROVE  BatchKeepsToEffect
  <2>1. steps' = steps \cup {StepKey(task.id, s)} /\ UNCHANGED <<effects, task>>
    BY <1>2 DEF PutStep
  <2>2. StepKey(task.id, s)[1] = task.id
    <3>1. CASE task.id = 0
      BY <3>1 DEF StepKey
    <3>2. CASE task.id # 0
      BY <1>2, <3>2 DEF StepKey
    <3> QED  BY <3>1, <3>2
  <2> QED  BY <2>1, <2>2 DEF BatchKeepsToEffect
<1>3. CASE EndBatch \/ Restart \/ UNCHANGED vars
  BY <1>3 DEF EndBatch, Restart, vars, Idle, Booting, BatchKeepsToEffect
<1>4. ~Request
  <2>1. ASSUME NEW container, NEW handler, NEW r, Handle(container, handler, r) PROVE FALSE
    BY <2>1 DEF Handle, PostEffect, PutEffect, DeleteEffect, StartBatch, DeleteStep
  <2> QED  BY <2>1 DEF Request
<1>5. ~StoreNew /\ ~PostFails /\ ~Boot
  BY DEF StoreNew, PostFails, Boot, FindEffects, CreateSample, StoreSampleStep, SampleDone, Load
<1> QED
  BY <1>1, <1>2, <1>3, <1>4, <1>5 DEF Next, Continue

(* Whatever paths clients come with, a PUT or a DELETE changes the effect  *)
(* or the step that its path names and nothing else, and a PUT of a list   *)
(* of steps, to its end, those of the effect that its path names and the   *)
(* step 0 that all effects share.                                          *)
THEOREM WritesNamed == Spec => WritesWhatItNames
<1>1. StoreInv /\ [Next]_vars =>
         [/\ task.pc = "idle" => ChangesOnlyNamed
          /\ task.pc = "batch" => BatchKeepsToEffect]_vars
  BY NamedStep, BatchStep DEF StoreInv
<1> QED
  BY <1>1, LoadInvariant, PTL DEF Spec, WritesWhatItNames
=============================================================================
