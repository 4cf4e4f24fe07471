------------------------- MODULE DistributedEffects -------------------------
(***************************************************************************)
(* Effects that run on several boxes in step: components/dmxbox_effects    *)
(* over the broadcasts of components/dmxbox_espnow.                        *)
(*                                                                         *)
(* A box whose level fader of a distributed effect is raised becomes its   *)
(* leader, and tells the others level, rate and position: when a fader     *)
(* moves, and now and then.  Nothing is acknowledged.  A packet goes from  *)
(* the radio to the receive queue (Wi-Fi task), from there to the sync     *)
(* queue (receive loop), and is applied at the end of a tick of the        *)
(* effects task.                                                           *)
(*                                                                         *)
(* Time is counted in periods of the effects task.  Absolute times are     *)
(* replaced by ages, so the state stays finite.                            *)
(***************************************************************************)
EXTENDS ChaseEffect, FiniteSets

CONSTANTS
    Box,
    EffectsOf,      \* EffectsOf[b]: list of effects of the box, see Effect
    Faders,         \* Faders[b]: settings of the level and rate faders of its effects
    SyncPeriod,     \* distributed_sync_period_us
    MaxGap,         \* bound: the effects task is never later than this
    RecvSize,       \* ESPNOW_QUEUE_SIZE
    SyncSize,       \* SYNC_QUEUE_SIZE
    MaxPeers,       \* peers the ESP-NOW library has room for
    NoLead

Effect == [distributed_id : Nat, steps : Seq(Step)]
Fader == [level : Level, rate : Nat]

ASSUME EffectsAssumption == EffectsOf \in [Box -> Seq(Effect)]
ASSUME FadersAssumption == Faders \in [Box -> SUBSET Fader]
ASSUME PeriodAssumption == SyncPeriod \in Nat /\ MaxGap \in Nat \ {0}
ASSUME QueueAssumption == RecvSize \in Nat \ {0} /\ SyncSize \in Nat \ {0} /\ MaxPeers \in Nat
ASSUME NoLeadAssumption == NoLead \notin Box \X Nat

Indexes(b) == 1..Len(EffectsOf[b])
Places == UNION {{b} \X Indexes(b) : b \in Box}
Steps(b, e) == EffectsOf[b][e].steps
Length == [b \in Box |-> [e \in Indexes(b) |-> EffectLength(Steps(b, e))]]
Distributed(b, e) == EffectsOf[b][e].distributed_id # 0

(* effect_t.distributed_id is a bool: every id but 0 becomes 1.            *)
DistributedIdKept(b, e) == EffectsOf[b][e].distributed_id   \* mutant: as wide as it is stored
DistributedId(b, e) == IF Distributed(b, e) THEN 1 ELSE 0

VARIABLES
    fader,          \* fader[b][e]: what the effect control universe holds
    state,          \* state[b][e]: internal state of an effect_t
    pc,             \* pc[b]: "sleep", or "drain" in handle_sync_queue
    gap,            \* gap[b]: time since the box last read its clock
    recv_queue,     \* recv_queue[b]: from the Wi-Fi task to the receive loop
    sync_queue,
    listening,      \* listening[b]: the receive loop has had its first delay
    peers,          \* peers[b]: peer list of the ESP-NOW library
    lead,           \* history: the leader an effect has taken its position from
    told            \* history: fader settings that were broadcast

radio == <<recv_queue, listening, peers>>
history == <<lead, told>>
vars == <<fader, state, pc, gap, radio, sync_queue, history>>

EffectState == [active : BOOLEAN, progress : Nat, first_pass : BOOLEAN,
                is_leader : BOOLEAN, last_level : Level, last_rate : Nat,
                sync_age : 0..(SyncPeriod + 1)]
Packet == [from : Box, of : Nat, effect_id : {0, 1}, level : Level, rate : Nat,
           progress : Nat, first_pass : BOOLEAN, running : BOOLEAN, intact : BOOLEAN]
Event == [packet : Packet, age : Nat]

(* calloc and prepare_loaded_effect.                                       *)
Loaded == [active |-> FALSE, progress |-> 0, first_pass |-> FALSE, is_leader |-> FALSE,
           last_level |-> 0, last_rate |-> 0, sync_age |-> 0]

Init ==
    /\ fader \in {f \in [Box -> UNION {[Indexes(b) -> Faders[b]] : b \in Box}] :
                     \A b \in Box : f[b] \in [Indexes(b) -> Faders[b]]}
    /\ state = [b \in Box |-> [e \in Indexes(b) |-> Loaded]]
    /\ pc = [b \in Box |-> "sleep"]
    /\ gap = [b \in Box |-> 0]
    /\ recv_queue = [b \in Box |-> <<>>]
    /\ sync_queue = [b \in Box |-> <<>>]
    /\ listening = [b \in Box |-> FALSE]
    /\ peers = [b \in Box |-> {}]
    /\ lead = [b \in Box |-> [e \in Indexes(b) |-> NoLead]]
    /\ told = {}
-----------------------------------------------------------------------------
(* A tick touches nothing but its own box, and takes microseconds of its   *)
(* period: what others do during a tick they may as well do before or      *)
(* after it, so nothing is interleaved with one.                           *)
NoneDrains == \A b \in Box : pc[b] = "sleep"

(* The environment: faders move, time passes.  A transmission, and the     *)
(* tasks above the effects task, take less than a period.                  *)
MoveFader(b, e, f) ==
    /\ NoneDrains
    /\ f # fader[b][e]
    /\ fader' = [fader EXCEPT ![b][e] = f]
    /\ UNCHANGED <<state, pc, gap, radio, sync_queue, history>>

Settled(b) ==
    /\ gap[b] < MaxGap
    /\ listening[b] => recv_queue[b] = <<>>

Aged(queue) == [i \in DOMAIN queue |-> [queue[i] EXCEPT !.age = @ + 1]]

(* An event is stamped when it enters the sync queue, so the time a packet *)
(* waits for a receive loop that has not begun is not made up for.         *)
Stale(queue) == [i \in DOMAIN queue |-> [queue[i] EXCEPT !.running = FALSE]]

Pass ==
    /\ NoneDrains
    /\ \A b \in Box : Settled(b)
    /\ gap' = [b \in Box |-> gap[b] + 1]
    /\ sync_queue' = [b \in Box |-> Aged(sync_queue[b])]
    /\ recv_queue' = [b \in Box |-> Stale(recv_queue[b])]
    /\ UNCHANGED <<fader, state, pc, listening, peers, history>>
-----------------------------------------------------------------------------
(* dmxbox_effects_tick.                                                    *)

(* Time since last_sync_us, counted no further than matters.               *)
SyncAge(b, e) ==
    LET age == state[b][e].sync_age + gap[b]
    IN  IF age > SyncPeriod THEN SyncPeriod + 1 ELSE age

(* handle_distributed_effect: a raised fader makes a leader for good.      *)
Leads(b, e) == Distributed(b, e) /\ (state[b][e].is_leader \/ fader[b][e].level # 0)
Follows(b, e) == Distributed(b, e) /\ ~Leads(b, e)

ShouldSendSyncOnChange(b, e) ==     \* mutant: no periodic sync
    \/ state[b][e].last_level # fader[b][e].level
    \/ state[b][e].last_rate # fader[b][e].rate

ShouldSendSync(b, e) ==
    \/ state[b][e].last_level # fader[b][e].level
    \/ state[b][e].last_rate # fader[b][e].rate
    \/ SyncAge(b, e) > SyncPeriod

(* The level and the rate an effect runs at in this tick.                  *)
Params(b, e) ==
    IF Follows(b, e) THEN [level |-> state[b][e].last_level, rate |-> state[b][e].last_rate]
    ELSE fader[b][e]

(* handle_distributed_leader and handle_distributed_follower.              *)
InRole(b, e) ==
    LET s == [state[b][e] EXCEPT !.sync_age = SyncAge(b, e)]
    IN  IF ~Leads(b, e) THEN s
        ELSE [s EXCEPT !.is_leader = TRUE,
                       !.last_level = fader[b][e].level,
                       !.last_rate = fader[b][e].rate,
                       !.sync_age = IF ShouldSendSync(b, e) THEN 0 ELSE @]

(* process_effect: an effect that comes up starts from the beginning.      *)
Processed(b, e) ==
    LET s == InRole(b, e)
        p == Params(b, e)
        length == Length[b][e]
        now == IF s.active THEN Advance(s.progress, s.first_pass, p.rate, gap[b], length)
               ELSE Advance(0, TRUE, p.rate, 0, length)
    IN  IF p.level = 0 THEN [s EXCEPT !.active = FALSE]
        ELSE [s EXCEPT !.active = TRUE, !.progress = now.progress,
                       !.first_pass = now.first_pass]

(* What dmxbox_espnow_send_effect_state broadcasts: the position is the    *)
(* one of the tick before.  `of' and `running' are history: the effect     *)
(* that sent it, and whether it has run on from that position since.       *)
SyncPacket(b, e) ==
    [from |-> b, of |-> e, effect_id |-> DistributedId(b, e),
     level |-> fader[b][e].level, rate |-> fader[b][e].rate,
     progress |-> state[b][e].progress, first_pass |-> state[b][e].first_pass,
     running |-> state[b][e].active /\ fader[b][e].level # 0, intact |-> TRUE]

SendsSync(b, e) == Leads(b, e) /\ ShouldSendSync(b, e)
Senders(b) == {e \in Indexes(b) : SendsSync(b, e)}
AllSent(b) == SelectSeq([e \in Indexes(b) |-> e], LAMBDA e : SendsSync(b, e))

(* What one box may hear of a tick: some of its broadcasts, in their order. *)
Hearable(b) ==
    {h \in UNION {[1..n -> Senders(b)] : n \in 0..Len(EffectsOf[b])} :
        \A i, j \in DOMAIN h : i < j => h[i] < h[j]}

(* dmxbox_espnow_recv_cb gives a packet up when its queue is full.         *)
Received(queue, b, h) ==
    LET n == Len(queue) + Len(h)
    IN  [i \in 1..(IF n < RecvSize THEN n ELSE RecvSize) |->
            IF i <= Len(queue) THEN queue[i] ELSE SyncPacket(b, h[i - Len(queue)])]

(* What the tick leaves in dmxbox_effects_data.                            *)
Mixed(b) ==
    [ch \in Channels |->
        Max({0} \cup {Chase(Steps(b, e), Params(b, e).level, Processed(b, e).progress,
                            Processed(b, e).first_pass)[ch] :
                          e \in {x \in Indexes(b) : Processed(b, x).active}})]

(* Histories.  An effect that starts, stops or changes its rate is no      *)
(* longer where its followers believe it is; nor is it after a restart.    *)
Unsettled(b, e) ==
    \/ Processed(b, e).active # state[b][e].active
    \/ Processed(b, e).last_rate # state[b][e].last_rate

Outdated(q, places) ==
    [i \in DOMAIN q |-> IF <<q[i].from, q[i].of>> \in places
                        THEN [q[i] EXCEPT !.running = FALSE] ELSE q[i]]

OutdatedEvents(q, places) ==
    [i \in DOMAIN q |-> IF <<q[i].packet.from, q[i].packet.of>> \in places
                        THEN [q[i] EXCEPT !.packet.running = FALSE] ELSE q[i]]

Lost(places, leading) ==
    [b \in Box |-> [e \in Indexes(b) |->
        IF lead[b][e] \in places \/ <<b, e>> \in places \cup leading THEN NoLead ELSE lead[b][e]]]

(* Read the faders, process and publish all effects.                       *)
Tick(b, heard) ==
    LET moved == {<<b, e>> : e \in {x \in Indexes(b) : Unsettled(b, x)}}
        leading == {<<b, e>> : e \in {x \in Indexes(b) : Leads(b, x)}}
    IN  /\ NoneDrains
        /\ gap[b] > 0
        /\ gap' = [gap EXCEPT ![b] = 0]
        /\ UNCHANGED <<fader, listening, peers>>
        /\ pc' = [pc EXCEPT ![b] = IF sync_queue[b] = <<>> THEN "sleep" ELSE "drain"]
        /\ state' = [state EXCEPT ![b] = [e \in Indexes(b) |-> Processed(b, e)]]
        /\ recv_queue' = [x \in Box |->
                LET queue == Outdated(recv_queue[x], moved)
                IN  IF x = b THEN queue ELSE Received(queue, b, heard[x])]
        /\ sync_queue' = [x \in Box |-> OutdatedEvents(sync_queue[x], moved)]
        /\ lead' = Lost(moved, leading)
        /\ told' = told \cup {fader[b][e] : e \in Senders(b)}

Process(b) == \E heard \in [Box \ {b} -> Hearable(b)] : Tick(b, heard)
ProcessHeard(b) == AllSent(b) # <<>> /\ Tick(b, [x \in Box \ {b} |-> AllSent(b)])

(* handle_sync_queue, one event of it.                                     *)
OfId(b, id) == {e \in Indexes(b) : DistributedId(b, e) = id}

SyncedNow(s, packet, age, length) ==    \* mutant: the time in the queue is forgotten
    [s EXCEPT !.last_level = packet.level, !.last_rate = packet.rate,
              !.progress = packet.progress, !.first_pass = packet.first_pass]

Synced(s, packet, age, length) ==
    LET now == Advance(packet.progress, packet.first_pass, packet.rate, age, length)
    IN  [s EXCEPT !.last_level = packet.level, !.last_rate = packet.rate,
                  !.progress = IF age > 0 THEN now.progress ELSE packet.progress,
                  !.first_pass = IF age > 0 THEN now.first_pass ELSE packet.first_pass]

Blank(b) ==
    /\ state' = [state EXCEPT ![b] = [e \in Indexes(b) |-> Loaded]]
    /\ pc' = [pc EXCEPT ![b] = "sleep"]
    /\ gap' = [gap EXCEPT ![b] = 0]
    /\ peers' = [peers EXCEPT ![b] = {}]
    /\ listening' = [listening EXCEPT ![b] = FALSE]
    /\ lead' = Lost({b} \X Indexes(b), {})
    /\ recv_queue' = [x \in Box |-> IF x = b THEN <<>>
                                    ELSE Outdated(recv_queue[x], {b} \X Indexes(b))]
    /\ sync_queue' = [x \in Box |-> IF x = b THEN <<>>
                                    ELSE OutdatedEvents(sync_queue[x], {b} \X Indexes(b))]
    /\ UNCHANGED <<fader, told>>

Restart(b) == NoneDrains /\ Blank(b)

(* find_effect_by_distributed_id: the first effect with the id; the pointer *)
(* is used without a look, so a box without one crashes.                   *)
HandleSync(b) ==
    /\ pc[b] = "drain"
    /\ sync_queue[b] # <<>>
    /\ LET packet == Head(sync_queue[b]).packet
           found == OfId(b, packet.effect_id)
           e == Min(found)
           applies == Distributed(b, e) /\ ~state[b][e].is_leader
       IN  IF found = {} THEN Blank(b)
           ELSE /\ sync_queue' = [sync_queue EXCEPT ![b] = Tail(@)]
                /\ state' = IF ~applies THEN state
                            ELSE [state EXCEPT ![b][e] = Synced(@, packet, Head(sync_queue[b]).age,
                                                                Length[b][e])]
                /\ lead' = IF ~applies THEN lead
                           ELSE [lead EXCEPT ![b][e] =
                                    IF packet.running /\ state[b][e].active
                                    THEN <<packet.from, packet.of>> ELSE NoLead]
                /\ pc' = [pc EXCEPT ![b] = IF Tail(sync_queue[b]) = <<>> THEN "sleep" ELSE @]
                /\ UNCHANGED <<fader, gap, radio, told>>
-----------------------------------------------------------------------------
(* dmxbox_espnow.                                                          *)

(* espnow_recv_loop waits five seconds before its first packet.            *)
StartListening(b) ==
    /\ NoneDrains
    /\ ~listening[b]
    /\ listening' = [listening EXCEPT ![b] = TRUE]
    /\ UNCHANGED <<fader, state, pc, gap, recv_queue, peers, sync_queue, history>>

(* process_incoming_packet.  What is heard may have been garbled.          *)
Garbled(packet) == [packet EXCEPT !.level = (@ + 1) % (Full + 1), !.intact = FALSE]

AcceptAny(packet) == TRUE       \* mutant: the checksum is not looked at
Accepted(packet) == packet.intact

(* esp_now_add_peer aborts under ESP_ERROR_CHECK when the list is full.    *)
Hand(b, packet) ==
    /\ NoneDrains
    /\ listening[b]
    /\ LET enters == Accepted(packet) /\ Len(sync_queue[b]) < SyncSize
       IN  IF packet.from \notin peers[b] /\ Cardinality(peers[b]) >= MaxPeers
           THEN Blank(b)
           ELSE /\ recv_queue' = [recv_queue EXCEPT ![b] = Tail(@)]
                /\ peers' = [peers EXCEPT ![b] = @ \cup {packet.from}]
                /\ sync_queue' = IF enters THEN [sync_queue EXCEPT ![b] =
                                                     Append(@, [packet |-> packet, age |-> 0])]
                                 ELSE sync_queue
                /\ UNCHANGED <<fader, state, pc, gap, listening, history>>

Forward(b) ==
    /\ recv_queue[b] # <<>>
    /\ \E packet \in {Head(recv_queue[b]), Garbled(Head(recv_queue[b]))} : Hand(b, packet)
-----------------------------------------------------------------------------
Next ==
    \/ Pass
    \/ \E b \in Box :
          \/ \E e \in Indexes(b), f \in Faders[b] : MoveFader(b, e, f)
          \/ Process(b) \/ HandleSync(b)
          \/ StartListening(b) \/ Forward(b)
          \/ Restart(b)

(* Tasks run; of broadcasts without end some come through to everyone.     *)
Fairness ==
    /\ WF_vars(Pass)
    /\ WF_vars(\E b \in Box : HandleSync(b))
    /\ \A b \in Box :
          /\ WF_vars(Process(b))
          /\ SF_vars(ProcessHeard(b))
          /\ SF_vars(recv_queue[b] # <<>> /\ Hand(b, Head(recv_queue[b])))

Spec == Init /\ [][Next]_vars
FairSpec == Spec /\ Fairness
-----------------------------------------------------------------------------
(* A position taken from another box is within the chase of that box.      *)
Alike(b, e) ==
    \A x \in Box : \A i \in Indexes(x) :
        Distributed(b, e) /\ Distributed(x, i) => Length[x][i] = Length[b][e]

TypeOK ==
    /\ \A b \in Box :
          /\ fader[b] \in [Indexes(b) -> Fader]
          /\ state[b] \in [Indexes(b) -> EffectState]
          /\ \A e \in Indexes(b) :
                Alike(b, e) /\ Length[b][e] # 0 => state[b][e].progress < Length[b][e]
          /\ lead[b] \in [Indexes(b) -> (Box \X Nat) \cup {NoLead}]
    /\ DOMAIN fader = Box /\ DOMAIN state = Box /\ DOMAIN lead = Box
    /\ pc \in [Box -> {"sleep", "drain"}]
    /\ gap \in [Box -> 0..MaxGap]
    /\ recv_queue \in [Box -> Seq(Packet)]
    /\ sync_queue \in [Box -> Seq(Event)]
    /\ listening \in [Box -> BOOLEAN]
    /\ peers \in [Box -> SUBSET Box]
    /\ told \subseteq Fader

(* A box that follows runs in phase: however long packets took and however *)
(* late either task ran, it is behind its leader by no more than the leader *)
(* moves in one tick, the age of the position a sync packet holds.         *)
Position(b, e, rate) == state[b][e].progress + gap[b] * rate

InPhase ==
    \A b \in Box : \A e \in Indexes(b) :
        lead[b][e] # NoLead =>
            LET l == lead[b][e][1]
                o == lead[b][e][2]
                rate == state[b][e].last_rate
                lag == (Position(l, o, rate) - Position(b, e, rate)) % Length[b][e]
            IN  rate = state[l][o].last_rate /\ lag \in 0..(MaxGap * rate)

(* Level and rate a follower runs at are a pair some box has broadcast,    *)
(* never a garbled packet's and never parts of two.                        *)
FollowsALeader ==
    \A b \in Box : \A e \in Indexes(b) :
        LET s == state[b][e]
            settings == [level |-> s.last_level, rate |-> s.last_rate]
        IN  ~s.is_leader => settings = [level |-> 0, rate |-> 0] \/ settings \in told

(* A tick shows the chase where it would be on a time line without end: no *)
(* fade tail is cut off and nothing flashes when a chase begins again.     *)
Continued(b, e) ==
    IF state[b][e].active
    THEN state[b][e].progress + gap[b] * Params(b, e).rate
         + IF state[b][e].first_pass THEN 0 ELSE Length[b][e]
    ELSE 0

SeamlessLoop ==
    \A b \in Box : \A ch \in Channels :
        Mixed(b)[ch] =
            Max({0} \cup {LaidOut(Steps(b, e), Params(b, e).level, Continued(b, e))[ch] :
                             e \in {x \in Indexes(b) : Params(b, x).level # 0}})

(* When one leader is left and faders rest, every box that listens has its *)
(* settings in the end and runs in phase with it, whatever was lost before *)
(* and however boxes were restarted.                                       *)
Leaders == {p \in Places : state[p[1]][p[2]].is_leader}

Agrees(b, l, e) ==
    \A i \in OfId(b, 1) :
        i = Min(OfId(b, 1)) =>
            /\ state[b][i].last_level = fader[l][e].level
            /\ state[b][i].last_rate = fader[l][e].rate
            /\ fader[l][e].level # 0 => lead[b][i] = <<l, e>>

SyncHeals ==
    (/\ <>[](Cardinality(Leaders) = 1 /\ \A b \in Box : listening[b])
     /\ <>[][fader' = fader]_vars)
    => <>[](\A p \in Leaders : \A b \in Box \ {p[1]} : Agrees(b, p[1], p[2]))
=============================================================================
