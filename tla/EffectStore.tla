---------------------------- MODULE EffectStore ----------------------------
(***************************************************************************)
(* The effects kept in flash: the blobs of effects and of their steps, the *)
(* counter new effects take their ids from, the requests of the web API    *)
(* that change them, and the boot that loads them.                         *)
(*                                                                         *)
(* The web server handles one request at a time and the boot is over       *)
(* before it starts, so there is one thread of control; power may be cut   *)
(* between any two writes.  A write to NVS is durable when it is made.  Of *)
(* a step only its presence matters here, of an effect its list of steps.  *)
(***************************************************************************)
EXTENDS RestApi, FiniteSets, SequencesExt

CONSTANTS
    StepLists,      \* step lists of the effects that clients store
    SampleSteps,    \* step list of the sample effect
    PageSize,       \* entries of a page in load_effects_from_storage
    NoBlob,
    NoCounter       \* no next_id in flash

Lists == StepLists \cup {SampleSteps}
StepIds == {0} \cup UNION {{l[i] : i \in DOMAIN l} : l \in Lists}

ASSUME ListAssumption == Lists \subseteq Seq(Ids) /\ NoBlob \notin Lists
ASSUME PageAssumption == PageSize \in Nat \ {0}
ASSUME CounterAssumption == NoCounter \notin Ids

VARIABLES
    effects,        \* namespace dmxbox/effects: the step list stored under an id
    steps,          \* keys of the stored steps
    next_id,        \* the counter in namespace dmxbox/effects
    running,        \* effects_head: the effects the box plays
    task,           \* the request or boot step under way
    planted,        \* history: ids that a client used before the counter did
    wrapped         \* history: the counter has gone round, id 0 was handed out

vars == <<effects, steps, next_id, running, task, planted, wrapped>>

Idle == [pc |-> "idle", id |-> 0, list |-> <<>>]
Booting == [Idle EXCEPT !.pc = "boot"]
Stored == {e \in Ids : effects[e] # NoBlob}
-----------------------------------------------------------------------------
(* make_blob_key: step 0 has no parent, it is shared by all effects.       *)
StepKeyFlat(e, s) == <<0, s>>       \* mutant: a key without the effect

StepKey(e, s) == IF e # 0 /\ s # 0 THEN <<e, s>> ELSE <<0, s>>

Counter == IF next_id = NoCounter THEN 1 ELSE next_id

AdvancedUnsaved(id) == id                       \* mutant: nvs_set_u16 left out

AdvancedUnbounded(id) == id + 1                 \* mutant: a counter that is never full

Advanced(id) == IF id + 1 = NumIds THEN 0 ELSE id + 1

(* An id the counter has yet to hand out, used by a client all the same;   *)
(* forgotten when the counter is past it or has gone round.                *)
Plant(e) ==
    planted' = IF e >= Counter /\ ~wrapped THEN planted \cup {e} ELSE planted

Init ==
    /\ effects = [e \in Ids |-> NoBlob]
    /\ steps = {}
    /\ next_id = NoCounter
    /\ running = {}
    /\ task = Booting
    /\ planted = {}
    /\ wrapped = FALSE

(* dmxbox_storage_create_blob, up to the first write: the id is spent      *)
(* before the blob is stored.                                              *)
Reserve(pc, list) ==
    /\ task' = [pc |-> pc, id |-> Counter, list |-> list]
    /\ next_id' = Advanced(Counter)
    /\ wrapped' = (wrapped \/ Counter = 0)
    /\ planted' = IF wrapped' THEN {} ELSE {e \in planted : e >= Counter}
    /\ UNCHANGED <<effects, steps, running>>

(* Its second write.                                                       *)
StoreNew ==
    /\ task.pc \in {"create", "sample"}
    /\ effects' = [effects EXCEPT ![task.id] = task.list]
    /\ task' = IF task.pc = "create" THEN Idle ELSE [task EXCEPT !.pc = "steps"]
    /\ UNCHANGED <<steps, next_id, running, planted, wrapped>>
-----------------------------------------------------------------------------
(* Requests.                                                               *)
PostEffect(list) ==
    /\ task.pc = "idle"
    /\ Reserve("create", list)

(* The flash is full: the request fails, its id stays spent.               *)
PostFails ==
    /\ task.pc = "create"
    /\ task' = Idle
    /\ UNCHANGED <<effects, steps, next_id, running, planted, wrapped>>

(* The effect need not exist.                                              *)
PutEffect(e, list) ==
    /\ task.pc = "idle"
    /\ effects' = [effects EXCEPT ![e] = list]
    /\ Plant(e)
    /\ UNCHANGED <<steps, next_id, running, task, wrapped>>

(* Its steps stay.                                                         *)
DeleteEffect(e) ==
    /\ task.pc = "idle"
    /\ effects[e] # NoBlob              \* 404 otherwise
    /\ effects' = [effects EXCEPT ![e] = NoBlob]
    /\ UNCHANGED <<steps, next_id, running, task, planted, wrapped>>

(* PUT of a list of steps: they are stored one by one until the list ends  *)
(* or an item of it does not parse or fit; a PUT of one step is routed     *)
(* here as well and refused, its body is not a list.                       *)
StartBatch(e) ==
    /\ task.pc = "idle"
    /\ task' = [Idle EXCEPT !.pc = "batch", !.id = e]
    /\ UNCHANGED <<effects, steps, next_id, running, planted, wrapped>>

PutStep(s) ==
    /\ task.pc = "batch"
    /\ steps' = steps \cup {StepKey(task.id, s)}
    /\ Plant(task.id)
    /\ UNCHANGED <<effects, next_id, running, task, wrapped>>

EndBatch ==
    /\ task.pc = "batch"
    /\ task' = Idle
    /\ UNCHANGED <<effects, steps, next_id, running, planted, wrapped>>

DeleteStep(e, s) ==
    /\ task.pc = "idle"
    /\ StepKey(e, s) \in steps          \* 404 otherwise
    /\ steps' = steps \ {StepKey(e, s)}
    /\ UNCHANGED <<effects, next_id, running, task, planted, wrapped>>
-----------------------------------------------------------------------------
(* Boot.                                                                   *)

(* create_sample_effect_if_needed.                                         *)
FindEffects ==
    /\ task.pc = "boot"
    /\ Stored # {}
    /\ task' = [task EXCEPT !.pc = "load"]
    /\ UNCHANGED <<effects, steps, next_id, running, planted, wrapped>>

CreateSample ==
    /\ task.pc = "boot"
    /\ Stored = {}
    /\ Reserve("sample", SampleSteps)

(* A step of the sample effect; that it failed goes unnoticed.             *)
StoreSampleStep ==
    /\ task.pc = "steps"
    /\ task.list # <<>>
    /\ steps' \in {steps \cup {StepKey(task.id, Head(task.list))}, steps}
    /\ task' = [task EXCEPT !.list = Tail(@)]
    /\ UNCHANGED <<effects, next_id, running, planted, wrapped>>

SampleDone ==
    /\ task.pc = "steps"
    /\ task.list = <<>>
    /\ task' = [task EXCEPT !.pc = "load"]
    /\ UNCHANGED <<effects, steps, next_id, running, planted, wrapped>>

(* load_effect succeeds.                                                   *)
Whole(e) == \A i \in DOMAIN effects[e] : StepKey(e, effects[e][i]) \in steps

(* Linking one more effect: load_effect returns NULL for one that lacks a  *)
(* step, and what follows a NULL tail becomes the new head.                *)
Link(l, e) ==
    [list |-> (IF l.tail THEN l.list ELSE {}) \cup (IF Whole(e) THEN {e} ELSE {}),
     tail |-> Whole(e)]

(* Pages are fetched until one is not full.                                *)
PagesButLast(order) == Len(order) \div PageSize     \* mutant: the last is left out

Pages(order) == Len(order) \div PageSize + 1

Page(order, n) ==
    SubSeq(order, (n - 1) * PageSize + 1,
           IF n * PageSize <= Len(order) THEN n * PageSize ELSE Len(order))

(* One page.                                                               *)
LinkAll(l, page) ==
    LET after[i \in 0..Len(page)] ==
            IF i = 0 THEN l ELSE Link(after[i - 1], page[i])
    IN  after[Len(page)]

(* load_effects_from_storage, for a listing of the stored effects.         *)
Loaded(order) ==
    LET after[n \in 0..Pages(order)] ==
            IF n = 0 THEN [list |-> {}, tail |-> FALSE]
            ELSE LinkAll(after[n - 1], Page(order, n))
    IN  after[Pages(order)].list

(* The order of a listing is that of the entries in flash: any.            *)
Load ==
    /\ task.pc = "load"
    /\ \E order \in SetToSeqs(Stored) : running' = Loaded(order)
    /\ task' = Idle
    /\ UNCHANGED <<effects, steps, next_id, planted, wrapped>>

(* A reboot, a power cut, or a failed ESP_ERROR_CHECK.                     *)
Restart ==
    /\ running' = {}
    /\ task' = Booting
    /\ UNCHANGED <<effects, steps, next_id, planted, wrapped>>
-----------------------------------------------------------------------------
(* What a handler does with the route it is called on.  No request reaches *)
(* the handler that stores one step; reading changes nothing.              *)
Handle(container, handler, r) ==
    \/ container = "effects" /\ handler = "post" /\ \E list \in StepLists : PostEffect(list)
    \/ container = "effects" /\ handler = "put" /\ \E list \in StepLists : PutEffect(r.id, list)
    \/ container = "effects" /\ handler = "delete" /\ DeleteEffect(r.id)
    \/ container = "steps" /\ handler = "batch_put" /\ StartBatch(r.parent_id)
    \/ container = "steps" /\ handler = "delete" /\ DeleteStep(r.parent_id, r.id)

Request ==
    \E container \in {"effects", "steps"} : \E handler \in Handlers[container] :
        \E r \in Reaching[container][handler] : Handle(container, handler, r)

(* The rest of what was begun by a request.                                *)
Continue == PostFails \/ EndBatch \/ \E s \in StepIds : PutStep(s)

Boot == FindEffects \/ CreateSample \/ StoreSampleStep \/ SampleDone \/ Load

Next == StoreNew \/ Request \/ Continue \/ Boot \/ Restart

Spec == Init /\ [][Next]_vars
-----------------------------------------------------------------------------
TypeOK ==
    /\ effects \in [Ids -> Lists \cup {NoBlob}]
    /\ steps \subseteq Ids \X Ids
    /\ next_id \in Ids \cup {NoCounter}
    /\ running \subseteq Ids
    /\ task \in [pc : {"idle", "create", "batch", "boot", "sample", "steps", "load"},
                 id : Ids, list : Seq(Ids)]
    /\ planted \subseteq Ids /\ wrapped \in BOOLEAN

(* A new effect gets an id of its own: nothing is stored under the id, no  *)
(* effect that would be replaced and no step of a deleted effect that      *)
(* would come back to life, whatever was deleted, failed or interrupted    *)
(* before.  Excepted are ids that clients used before the counter reached  *)
(* them, and boxes whose 16-bit counter has gone round.                    *)
CreatesAreFresh ==
    task.pc \in {"create", "sample"} /\ ~wrapped /\ task.id \notin planted =>
        /\ task.id \notin Stored
        /\ \A s \in StepIds \ {0} : StepKey(task.id, s) \notin steps

(* A box whose stored effects have all of their steps comes up with every  *)
(* one of them, in whatever order and however many pages they are listed,  *)
(* and never without any.                                                  *)
HealthyStoreLoads ==
    [][Load /\ (\A e \in Stored : Whole(e)) =>
          running' = Stored /\ running' # {}]_vars

(* A PUT or a DELETE changes nothing but what its path names: the one      *)
(* effect or step with these ids; for a DELETE of a list, the item 0 of it;*)
(* and for a PUT of a list of steps, until the last of them is stored,     *)
(* steps of the one effect and the step 0 that all effects share.          *)
(* Excepted are paths with numbers of more than 16 bits.                   *)
Fits(path) == \A i \in DOMAIN path : path[i].number < NumIds
Named(path, i) == IF Len(path) >= i THEN path[i].number ELSE 0

Writes ==
    [container \in {"effects", "steps"} |->
        {[handler |-> Wanted(q[1], Route(q[2])), path |-> q[2], route |-> Route(q[2])] :
            q \in {p \in {"PUT", "DELETE"} \X Paths :
                     /\ Fits(p[2]) /\ Dispatched(p[1], p[2])
                     /\ Route(p[2]).container = container}}]

ChangesOnlyNamed ==
    /\ effects' # effects => \A w \in Writes["effects"] :
          Handle("effects", w.handler, w.route) =>
              \A e \in Ids : effects'[e] # effects[e] => e = Named(w.path, 1)
    /\ steps' # steps => \A w \in Writes["steps"] :
          Handle("steps", w.handler, w.route) =>
              steps \ steps' = {StepKey(Named(w.path, 1), Named(w.path, 3))}
    /\ task'.pc = "batch" => \A w \in Writes["steps"] :
          Handle("steps", w.handler, w.route) => task'.id = Named(w.path, 1)

BatchKeepsToEffect ==
    /\ UNCHANGED effects
    /\ \A k \in (steps \ steps') \cup (steps' \ steps) : k[1] = task.id \/ k = <<0, 0>>
    /\ task'.pc = "batch" => task'.id = task.id

WritesWhatItNames ==
    [][/\ task.pc = "idle" => ChangesOnlyNamed
       /\ task.pc = "batch" => BatchKeepsToEffect]_vars

(* What the loader says it does ("step %d not found, skipping effect %d"): *)
(* an effect that lacks a step is skipped, the others are loaded.          *)
BrokenEffectIsSkipped ==
    [][Load => running' = {e \in Stored : Whole(e)}]_vars
=============================================================================
