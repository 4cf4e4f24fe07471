--------------------------- MODULE ArtnetUniverse ---------------------------
(***************************************************************************)
(* components/dmxbox_artnet: the universes of the box, the controllers     *)
(* that feed them, and the snapshots that survive a restart.               *)
(*                                                                         *)
(* Receive tasks take ArtDmx packets, compare each with the last packet of *)
(* the same controller and merge what moved into the universe.  Saver      *)
(* tasks walk the list of universes: the autosave task and the reboot      *)
(* request store snapshots, the reset button and the clear request switch  *)
(* every universe off first and forget the controllers afterwards.         *)
(* One action is one critical section, or one access to memory shared      *)
(* outside of any critical section.  The two spinlocks protect different   *)
(* data, so sections of different tasks interleave freely (dual core).     *)
(***************************************************************************)
EXTENDS Naturals, FiniteSets

CONSTANTS
    Clients,        \* controllers, told apart by their IP address
    Tasks,          \* receive tasks, one per network interface
    HeardBy,        \* HeardBy[t]: the controllers whose packets reach task t
    Savers,         \* tasks that store snapshots
    NumUniverses,   \* length of the universes_head list
    NumChannels,    \* DMX_CHANNEL_COUNT
    Levels,         \* levels of a channel, 0 is off
    NoClient,
    NoSaver,
    NoFrame

Universes == 1..NumUniverses
Channels == 1..NumChannels
Frame == [Channels -> Levels]
Dark == [ch \in Channels |-> 0]
SaverRoles == {"autosave", "reset_button", "httpd"}

ASSUME ListAssumption == NumUniverses \in Nat \ {0}
ASSUME ChannelAssumption == NumChannels \in Nat \ {0}
ASSUME LevelAssumption == Levels \subseteq Nat /\ 0 \in Levels
ASSUME ClientAssumption == NoClient \notin Clients
ASSUME FrameAssumption == NoFrame \notin Frame
ASSUME SaverAssumption == Savers \subseteq SaverRoles /\ NoSaver \notin Savers
ASSUME HearingAssumption == HeardBy \in [Tasks -> SUBSET Clients]
(* The access point and the station interface are different networks: a    *)
(* controller sits on one of them and its packets reach one task.          *)
ASSUME OneTaskPerClient ==
    \A s, t \in Tasks : s # t => HeardBy[s] \cap HeardBy[t] = {}

VARIABLES
    data,           \* universe->data
    last_snapshot,  \* universe->last_snapshot
    flash,          \* the blobs of namespace dmxbox/snaps
    client_map,     \* client_map[c][u]: the client's record of the universe
    rx,             \* rx[t]: locals of the handler a receive task is in
    sv,             \* sv[s]: where a saver is in its walk of the universes
    nvs,            \* the blob write in progress inside the NVS library
    owner,          \* history: the client that moved the channel last
    torn,           \* history: universes modified during their last store
    changed         \* history: universes modified since saver s compared them

history == <<owner, torn, changed>>
vars == <<data, last_snapshot, flash, client_map, rx, sv, nvs, history>>

RxIdle == [pc |-> "idle", client |-> NoClient, universe |-> 0,
           frame |-> NoFrame, length |-> 0, last |-> NoFrame]
SvIdle == [pc |-> "idle", job |-> "none", universe |-> 0]
NvsIdle == [writer |-> NoSaver, count |-> 0, buffer |-> Dark]
NoOwner == [u \in Universes |-> [ch \in Channels |-> NoClient]]
NoRecords == [c \in Clients |-> [u \in Universes |-> NoFrame]]

(* What a restart finds in flash; data and last_snapshot are calloc'ed, so *)
(* a universe without a stored blob starts dark.                           *)
Restored(u) == IF flash[u] = NoFrame THEN Dark ELSE flash[u]

(* Savers that have claimed the universe saved but not yet written it.     *)
Pending(u) == {s \in Savers : sv[s].pc = "write" /\ sv[s].universe = u}

JobsNoAutosave(s) == IF s = "httpd" THEN {"clear", "reboot"} ELSE {}     \* mutant

Jobs(s) == CASE s = "autosave"     -> {"save"}
             [] s = "reset_button" -> {"clear"}
             [] s = "httpd"        -> {"clear", "reboot"}
-----------------------------------------------------------------------------
(* dmxbox_artnet_init, with the tasks at their entry.                      *)
BootedUnsnapshotted(stored) ==      \* mutant: load_stored_snapshots without the memcpy
    [data |-> [u \in Universes |-> IF stored[u] = NoFrame THEN Dark ELSE stored[u]],
     last_snapshot |-> [u \in Universes |-> Dark]]

Booted(stored) ==
    LET loaded == [u \in Universes |-> IF stored[u] = NoFrame THEN Dark ELSE stored[u]]
    IN  [data |-> loaded, last_snapshot |-> loaded]

Init ==
    /\ flash \in [Universes -> Frame \cup {NoFrame}]
    /\ data = Booted(flash).data
    /\ last_snapshot = Booted(flash).last_snapshot
    /\ client_map = NoRecords
    /\ rx = [t \in Tasks |-> RxIdle]
    /\ sv = [s \in Savers |-> SvIdle]
    /\ nvs = NvsIdle
    /\ owner = NoOwner
    /\ torn = {}
    /\ changed = [s \in Savers |-> {}]

(* Everything in RAM is lost; a blob that was not committed is lost too.   *)
Boot ==
    /\ data' = Booted(flash).data
    /\ last_snapshot' = Booted(flash).last_snapshot
    /\ client_map' = NoRecords
    /\ rx' = [t \in Tasks |-> RxIdle]
    /\ sv' = [s \in Savers |-> SvIdle]
    /\ nvs' = NvsIdle
    /\ owner' = NoOwner
    /\ torn' = {}
    /\ changed' = [s \in Savers |-> {}]
    /\ UNCHANGED flash

(* The histories of a step that leaves universe u at levels new.           *)
NoteChange(u, new) ==
    /\ torn' = IF new # data[u] /\ Pending(u) # {} THEN torn \cup {u} ELSE torn
    /\ changed' = [s \in Savers |->
                      IF new # data[u] /\ sv[s].pc # "idle"
                      THEN changed[s] \cup {u} ELSE changed[s]]
-----------------------------------------------------------------------------
(* Receive tasks.  A packet is any datagram with an ArtDmx header: its     *)
(* universe may be unknown (0), its declared length may exceed the limit   *)
(* or what the datagram carries.  Loss, duplication and reordering by UDP  *)
(* are the freedom to receive any packet at any time.                      *)
Packets == [universe : {0} \cup Universes, length : 0..(NumChannels + 1),
            complete : BOOLEAN, levels : Frame]

(* The checks of handle_op_dmx; any other packet is dropped unread.        *)
Accepted(p) ==
    /\ p.length <= NumChannels
    /\ p.complete
    /\ p.universe \in Universes

(* What set_last_data keeps of a packet: zeros where it sent no channel.   *)
Padded(p) == [ch \in Channels |-> IF ch <= p.length THEN p.levels[ch] ELSE 0]

(* recvfrom, the packet checks and the critical section of get_last_data.  *)
ReceiveDmx(t, c, p) ==
    /\ rx[t].pc = "idle"
    /\ c \in HeardBy[t]
    /\ Accepted(p)
    /\ LET last == client_map[c][p.universe]
       IN  rx' = [rx EXCEPT ![t] =
                     [pc |-> IF last = NoFrame THEN "track" ELSE "apply",
                      client |-> c, universe |-> p.universe,
                      frame |-> Padded(p), length |-> p.length, last |-> last]]
    /\ UNCHANGED <<data, last_snapshot, flash, client_map, sv, nvs, history>>

(* The channels that differ from the client's last packet.                 *)
MovedBySending(r) == {ch \in Channels : ch <= r.length}     \* mutant: no comparison

MovedBy(r) == {ch \in Channels : ch <= r.length /\ r.frame[ch] # r.last[ch]}

(* The universe after the loop of apply_changes.                           *)
MergedButLast(r) ==                 \* mutant: the loop ends one channel early
    [ch \in Channels |-> IF ch \in MovedBy(r) /\ ch < r.length THEN r.frame[ch]
                         ELSE data[r.universe][ch]]

Merged(r) ==
    [ch \in Channels |-> IF ch \in MovedBy(r) THEN r.frame[ch]
                         ELSE data[r.universe][ch]]

(* The critical section of apply_changes.                                  *)
ApplyChanges(t) ==
    LET r == rx[t]
        new == Merged(r)
    IN  /\ r.pc = "apply"
        /\ data' = [data EXCEPT ![r.universe] = new]
        /\ rx' = [rx EXCEPT ![t].pc = "track"]
        /\ owner' = [owner EXCEPT ![r.universe] =
                        [ch \in Channels |->
                            IF ch \in MovedBy(r) THEN r.client
                            ELSE IF ch > r.length /\ @[ch] = r.client
                                 THEN NoClient ELSE @[ch]]]
        /\ NoteChange(r.universe, new)
        /\ UNCHANGED <<last_snapshot, flash, client_map, sv, nvs>>

(* The critical section of set_last_data.                                  *)
SetLastData(t) ==
    /\ rx[t].pc = "track"
    /\ client_map' = [client_map EXCEPT ![rx[t].client][rx[t].universe] = rx[t].frame]
    /\ rx' = [rx EXCEPT ![t] = RxIdle]
    /\ UNCHANGED <<data, last_snapshot, flash, sv, nvs, history>>
-----------------------------------------------------------------------------
(* Saver tasks.                                                            *)

(* Where a job enters a universe: a clear switches it off first.           *)
Entry(job) == IF job = "clear" THEN "zero" ELSE "compare"

StartJob(s, job) ==
    /\ sv[s].pc = "idle"
    /\ job \in Jobs(s)
    /\ sv' = [sv EXCEPT ![s] = [pc |-> Entry(job), job |-> job, universe |-> 1]]
    /\ UNCHANGED <<data, last_snapshot, flash, client_map, rx, nvs, history>>

(* universe = universe->next, or what follows the loop over universes.     *)
NextUniverseOverrun(s) ==           \* mutant: one universe too many
    IF sv[s].universe <= NumUniverses
    THEN [sv[s] EXCEPT !.pc = Entry(sv[s].job), !.universe = @ + 1]
    ELSE SvIdle

NextUniverseMissesLast(s) ==        \* mutant: the last universe is left out
    IF sv[s].universe + 1 < NumUniverses
    THEN [sv[s] EXCEPT !.pc = Entry(sv[s].job), !.universe = @ + 1]
    ELSE IF sv[s].job = "save" THEN SvIdle
    ELSE [sv[s] EXCEPT !.pc = IF sv[s].job = "clear" THEN "forget" ELSE "restart"]

NextUniverseCircular(s) ==          \* mutant: the list has no end
    [sv[s] EXCEPT !.pc = Entry(sv[s].job),
                  !.universe = IF @ < NumUniverses THEN @ + 1 ELSE 1]

NextUniverse(s) ==
    IF sv[s].universe < NumUniverses
    THEN [sv[s] EXCEPT !.pc = Entry(sv[s].job), !.universe = @ + 1]
    ELSE IF sv[s].job = "save" THEN SvIdle
    ELSE [sv[s] EXCEPT !.pc = IF sv[s].job = "clear" THEN "forget" ELSE "restart"]

(* dmxbox_artnet_reset_state: the memset in its critical section.          *)
ZeroUniverse(s) ==
    LET u == sv[s].universe
    IN  /\ sv[s].pc = "zero"
        /\ data' = [data EXCEPT ![u] = Dark]
        /\ owner' = [owner EXCEPT ![u] = [ch \in Channels |-> NoClient]]
        /\ sv' = [sv EXCEPT ![s].pc = "compare"]
        /\ NoteChange(u, Dark)
        /\ UNCHANGED <<last_snapshot, flash, client_map, rx, nvs>>

(* store_universe_snapshot: the critical section finds nothing to save.    *)
SkipSnapshot(s) ==
    LET u == sv[s].universe
    IN  /\ sv[s].pc = "compare"
        /\ data[u] = last_snapshot[u]
        /\ sv' = [sv EXCEPT ![s] = NextUniverse(s)]
        /\ changed' = [changed EXCEPT ![s] = IF NextUniverse(s).pc = "idle" THEN {}
                                             ELSE @ \ {u}]
        /\ UNCHANGED <<data, last_snapshot, flash, client_map, rx, nvs, owner, torn>>

(* store_universe_snapshot: the critical section finds levels to save.     *)
TakeSnapshot(s) ==
    LET u == sv[s].universe
    IN  /\ sv[s].pc = "compare"
        /\ data[u] # last_snapshot[u]
        /\ last_snapshot' = [last_snapshot EXCEPT ![u] = data[u]]
        /\ sv' = [sv EXCEPT ![s].pc = "write"]
        /\ changed' = [changed EXCEPT ![s] = @ \ {u}]
        /\ torn' = IF Pending(u) = {} THEN torn \ {u} ELSE torn
        /\ UNCHANGED <<data, flash, client_map, rx, nvs, owner>>

(* dmxbox_set_artnet_snapshot(universe->address, universe->data): the NVS  *)
(* library takes its lock, reads the live levels one by one and commits.   *)
OpenBlob(s) ==
    /\ sv[s].pc = "write"
    /\ nvs.writer = NoSaver
    /\ nvs' = [NvsIdle EXCEPT !.writer = s]
    /\ UNCHANGED <<data, last_snapshot, flash, client_map, rx, sv, history>>

CopyLevel(s) ==
    /\ nvs.writer = s
    /\ nvs.count < NumChannels
    /\ nvs' = [nvs EXCEPT !.count = @ + 1,
                          !.buffer[nvs.count + 1] = data[sv[s].universe][nvs.count + 1]]
    /\ UNCHANGED <<data, last_snapshot, flash, client_map, rx, sv, history>>

CommitBlob(s) ==
    /\ nvs.writer = s
    /\ nvs.count = NumChannels
    /\ flash' = [flash EXCEPT ![sv[s].universe] = nvs.buffer]
    /\ nvs' = NvsIdle
    /\ sv' = [sv EXCEPT ![s] = NextUniverse(s)]
    /\ changed' = [changed EXCEPT ![s] = IF NextUniverse(s).pc = "idle" THEN {} ELSE @]
    /\ UNCHANGED <<data, last_snapshot, client_map, rx, owner, torn>>

(* Records a receive task has read and not yet rewritten.                  *)
InFlight ==
    {<<rx[t].client, rx[t].universe>> :
        t \in {t \in Tasks : rx[t].pc # "idle" /\ rx[t].last # NoFrame}}

(* dmxbox_artnet_client_tracking_reset.                                    *)
ForgetClients(s) ==
    /\ sv[s].pc = "forget"
    /\ client_map' = NoRecords
    /\ sv' = [sv EXCEPT ![s] = SvIdle]
    /\ owner' = [u \in Universes |-> [ch \in Channels |->
                    IF <<owner[u][ch], u>> \in InFlight THEN owner[u][ch] ELSE NoClient]]
    /\ changed' = [changed EXCEPT ![s] = {}]
    /\ UNCHANGED <<data, last_snapshot, flash, rx, nvs, torn>>

(* esp_restart at the end of the reboot request.                           *)
Restart(s) == sv[s].pc = "restart" /\ Boot

(* Power is cut, or a failed ESP_ERROR_CHECK aborts, at any moment.        *)
PowerLoss == Boot
-----------------------------------------------------------------------------
Receive(t) ==
    \/ \E c \in Clients, p \in Packets : ReceiveDmx(t, c, p)
    \/ ApplyChanges(t)
    \/ SetLastData(t)

StoreStep(s) ==
    \/ SkipSnapshot(s) \/ TakeSnapshot(s)
    \/ OpenBlob(s) \/ CopyLevel(s) \/ CommitBlob(s)

Save(s) ==
    \/ \E job \in {"save", "clear", "reboot"} : StartJob(s, job)
    \/ ZeroUniverse(s) \/ StoreStep(s) \/ ForgetClients(s) \/ Restart(s)

Next ==
    \/ \E t \in Tasks : Receive(t)
    \/ \E s \in Savers : Save(s)
    \/ PowerLoss

Spec == Init /\ [][Next]_vars

(* The scheduler runs every ready task, and the mutex of the NVS library   *)
(* wakes its waiters in turn, so no saver waits for it for ever.  Packets, *)
(* button presses, requests and power cuts need not come; the autosave     *)
(* task does wake up again after each of its delays.                       *)
Fairness ==
    /\ \A t \in Tasks : WF_vars(ApplyChanges(t) \/ SetLastData(t))
    /\ \A s \in Savers :
          /\ WF_vars(ZeroUniverse(s) \/ SkipSnapshot(s) \/ TakeSnapshot(s))
          /\ WF_vars(CopyLevel(s) \/ CommitBlob(s) \/ ForgetClients(s) \/ Restart(s))
          /\ SF_vars(OpenBlob(s))
          /\ WF_vars(StartJob(s, "save"))

FairSpec == Spec /\ Fairness
-----------------------------------------------------------------------------
Handlers == [pc : {"idle", "apply", "track"}, client : Clients \cup {NoClient},
             universe : {0} \cup Universes, frame : Frame \cup {NoFrame},
             length : 0..NumChannels, last : Frame \cup {NoFrame}]
Walks == [pc : {"idle", "zero", "compare", "write", "forget", "restart"},
          job : {"none", "save", "clear", "reboot"}, universe : {0} \cup Universes]

(* Every variable holds what its C counterpart can hold; in particular a   *)
(* saver is in the NVS library only while it stores a universe.            *)
TypeOK ==
    /\ data \in [Universes -> Frame]
    /\ last_snapshot \in [Universes -> Frame]
    /\ flash \in [Universes -> Frame \cup {NoFrame}]
    /\ client_map \in [Clients -> [Universes -> Frame \cup {NoFrame}]]
    /\ rx \in [Tasks -> Handlers]
    /\ sv \in [Savers -> Walks]
    /\ nvs \in [writer : Savers \cup {NoSaver}, count : 0..NumChannels, buffer : Frame]
    /\ owner \in [Universes -> [Channels -> Clients \cup {NoClient}]]
    /\ torn \in SUBSET Universes
    /\ changed \in [Savers -> SUBSET Universes]
    /\ nvs.writer # NoSaver => sv[nvs.writer].pc = "write"

(* The frame a controller is known by: its record, or, while a receive     *)
(* task is between reading and rewriting the record, the frame it read     *)
(* (before the merge) or the frame it merged (after it).                   *)
Desk ==
    [c \in Clients |-> [u \in Universes |->
        LET busy(pc) == \E t \in Tasks : rx[t].pc = pc /\ rx[t].client = c
                                        /\ rx[t].universe = u /\ rx[t].last # NoFrame
            handler == CHOOSE t \in Tasks : rx[t].pc # "idle" /\ rx[t].client = c
        IN  CASE busy("apply") -> rx[handler].last
              [] busy("track") -> rx[handler].frame
              [] OTHER -> client_map[c][u]]]

Ltp == INSTANCE LtpMerge WITH shown <- data, desk <- Desk

(* A channel that a controller was the last to move holds the level of     *)
(* that controller's desk, whatever packets, resets and restarts were      *)
(* interleaved: a controller that repeats its frame (every Art-Net sender  *)
(* does) never takes a channel back from another, and no move is undone by *)
(* the two-step read and rewrite of the client record.                     *)
MoverIsShown ==
    \A u \in Universes, ch \in Channels :
        owner[u][ch] # NoClient =>
            /\ Desk[owner[u][ch]][u] # NoFrame
            /\ data[u][ch] = Desk[owner[u][ch]][u][ch]

(* The three critical sections of a packet handler act as one atomic merge *)
(* of the abstract specification, and every saver step as a blackout, a    *)
(* forgetting of desks or nothing at all.                                  *)
MergesLatest == Ltp!LtpSpec

(* When no store of a universe is under way, flash holds what the task     *)
(* last decided to store, so that the comparison with last_snapshot, which *)
(* stands in for flash, skips a store only when there is nothing to store. *)
(* Excepted are universes modified while their last store was under way.   *)
SnapshotIsStored ==
    \A u \in Universes :
        Pending(u) = {} /\ u \notin torn => Restored(u) = last_snapshot[u]

(* A clear about to forget the controllers, or a reboot request about to   *)
(* restart, has every universe in flash as it is in RAM.  Excepted are     *)
(* universes modified since it looked, universes modified during their     *)
(* last store, and those another saver has claimed and not yet written.    *)
SavedBeforeRestart ==
    \A s \in Savers, u \in Universes :
        sv[s].pc \in {"forget", "restart"} /\ u \notin changed[s] \cup torn
                                        /\ Pending(u) = {}
            => Restored(u) = data[u]

(* A universe that differs from its snapshot is snapshotted in the end,    *)
(* even though packets keep coming and other savers hold the NVS lock.     *)
DirtyIsSnapshotted ==
    \A u \in Universes : data[u] # last_snapshot[u] ~> data[u] = last_snapshot[u]

(* Every clear, every autosave pass and every reboot comes to its end.     *)
JobsFinish ==
    \A s \in Savers : sv[s].pc # "idle" ~> sv[s].pc = "idle"

(* What the reboot request says it does ("saving artnet state"): a         *)
(* universe not modified since the request looked at it comes back as it   *)
(* was when the box restarts.                                              *)
RebootSavesState ==
    \A s \in Savers, u \in Universes :
        sv[s].pc = "restart" /\ u \notin changed[s] => Restored(u) = data[u]
=============================================================================
