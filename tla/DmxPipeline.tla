---------------------------- MODULE DmxPipeline ----------------------------
(***************************************************************************)
(* The way of the levels through the box: the DMX input, the native        *)
(* Art-Net universe and the effects are merged "highest takes precedence"  *)
(* by the recalc task, whose frames the DMX send task puts on the wire.    *)
(*                                                                         *)
(* Five tasks share memory.  A step is one critical section or one access  *)
(* outside of any; the merge is one step per channel, because it reads the *)
(* effects while it holds the lock of the Art-Net universes and not the    *)
(* one the effects are written under.                                      *)
(***************************************************************************)
EXTENDS Naturals

CONSTANTS
    NumChannels,    \* DMX_CHANNEL_COUNT
    Levels,         \* levels of a channel, 0 is off
    Used            \* the sources in use: an input that is not cabled gets no
                    \*   packets, a box without effects has none to run

Channels == 1..NumChannels
Frame == [Channels -> Levels]
Dark == [ch \in Channels |-> 0]
Sources == {"dmx_in", "artnet", "effects"}

ASSUME ChannelAssumption == NumChannels \in Nat \ {0}
ASSUME LevelAssumption == Levels \subseteq Nat /\ 0 \in Levels
ASSUME UsedAssumption == Used \subseteq Sources

VARIABLES
    in_data,        \* dmxbox_dmx_in_data
    in_connected,   \* dmxbox_dmx_in_connected
    in_task,        \* where the DMX receive task is
    artnet,         \* data of the native universe
    control,        \* whether the level of the effect in the effect control
                    \*   universe is above 0
    followed,       \* whether a distributed effect that never led here holds a
                    \*   level of its leader above 0
    effects_data,   \* dmxbox_effects_data
    fx,             \* locals of the effects task
    rc,             \* locals of the recalc task
    out_data,       \* dmxbox_dmx_out_data
    artnet_led, out_led,
    wire,           \* the frame last sent on the DMX bus
    lo, hi,         \* history: lowest and highest level of every source while
                    \*   the recalc task was reading
    complete,       \* history: the frame the effects task last wrote in full
    whole           \* history: such frames while the recalc task was reading

input == <<in_data, in_connected, in_task>>
faders == <<control, followed>>
history == <<lo, hi, complete, whole>>
vars == <<input, artnet, faders, effects_data, fx, rc, out_data, artnet_led, out_led,
          wire, history>>

Max2(a, b) == IF a >= b THEN a ELSE b
Min2(a, b) == IF a <= b THEN a ELSE b
-----------------------------------------------------------------------------
Init ==
    /\ in_data = Dark /\ in_connected = FALSE /\ in_task = "wait"
    /\ artnet \in Frame                 \* the snapshot loaded from flash
    /\ control \in BOOLEAN /\ ("effects" \notin Used => ~control)
    /\ followed = FALSE
    /\ effects_data = Dark
    /\ fx = [pc |-> "sleep", tick |-> Dark, count |-> 0]
    /\ rc = [pc |-> "sleep", data |-> Dark, count |-> 0,
             artnet_active |-> FALSE, out_active |-> FALSE]
    /\ out_data = Dark /\ artnet_led = FALSE /\ out_led = FALSE /\ wire = Dark
    /\ lo = [s \in Sources |-> Dark] /\ hi = [s \in Sources |-> Dark]
    /\ complete = Dark /\ whole = {}

(* The lock of the universes is held from the first channel to the last.   *)
ArtnetLocked == rc.pc = "merge" /\ rc.count > 0

(* Art-Net packets, clears and restarts of controllers (ArtnetUniverse).   *)
SetArtnet(f) ==
    /\ "artnet" \in Used
    /\ ~ArtnetLocked
    /\ artnet' = f
    /\ UNCHANGED <<input, faders, effects_data, fx, rc, out_data, artnet_led, out_led,
                   wire, complete>>

SetControl(up) ==
    /\ "effects" \in Used
    /\ ~ArtnetLocked
    /\ control' = up
    /\ UNCHANGED <<input, artnet, followed, effects_data, fx, rc, out_data, artnet_led, out_led,
                   wire, complete>>
-----------------------------------------------------------------------------
(* The DMX receive task: dmx_read copies the n channels of the packet and  *)
(* leaves the others as they were; the flag is set outside of the lock.    *)
ReadPacket(n, f) ==
    /\ "dmx_in" \in Used
    /\ in_task = "wait"
    /\ in_data' = [ch \in Channels |-> IF ch <= n THEN f[ch] ELSE in_data[ch]]
    /\ in_task' = IF in_connected THEN "wait" ELSE "flag"
    /\ UNCHANGED <<in_connected, artnet, faders, effects_data, fx, rc, out_data,
                   artnet_led, out_led, wire, complete>>

Connect ==
    /\ in_task = "flag"
    /\ in_connected' = TRUE
    /\ in_task' = "wait"
    /\ UNCHANGED <<in_data, artnet, faders, effects_data, fx, rc, out_data,
                   artnet_led, out_led, wire, complete>>

(* No packet came, or it broke off: handle_timeout.                        *)
Timeout ==
    /\ in_task = "wait"
    /\ in_connected
    /\ in_connected' = FALSE
    /\ UNCHANGED <<in_data, in_task, artnet, faders, effects_data, fx, rc, out_data,
                   artnet_led, out_led, wire, complete>>
-----------------------------------------------------------------------------
(* The effects task: read the control universe, compute the levels of this *)
(* tick, copy them channel by channel, then take what the leaders sent.    *)
(* An effect that never led goes by its leader's level, whatever its own   *)
(* says, until its own is up: then it leads.  In a box without effects the *)
(* task copies zeros over zeros, which is left out.                        *)
Tick(f) ==
    /\ "effects" \in Used
    /\ fx.pc = "sleep"
    /\ ~ArtnetLocked
    /\ ~(control \/ followed) => f = Dark
    /\ fx' = [pc |-> "copy", tick |-> f, count |-> 0]
    /\ followed' \in {followed, followed /\ ~control}
    /\ UNCHANGED <<input, artnet, control, effects_data, rc, out_data, artnet_led, out_led,
                   wire, complete>>

CopyTick ==
    LET ch == fx.count + 1
    IN  /\ fx.pc = "copy"
        /\ effects_data' = [effects_data EXCEPT ![ch] = fx.tick[ch]]
        /\ fx' = [fx EXCEPT !.count = ch, !.pc = IF ch = NumChannels THEN "sleep" ELSE @]
        /\ complete' = IF ch = NumChannels THEN fx.tick ELSE complete
        /\ followed' \in IF ch = NumChannels THEN BOOLEAN ELSE {followed}
        /\ UNCHANGED <<input, artnet, control, rc, out_data, artnet_led, out_led, wire>>
-----------------------------------------------------------------------------
(* The recalc task.                                                        *)
StartPassUncleared(pc) ==           \* mutant: the frame is not zeroed
    [pc |-> pc, data |-> rc.data, count |-> 0,
     artnet_active |-> FALSE, out_active |-> FALSE]

StartPass(pc) ==
    [pc |-> pc, data |-> Dark, count |-> 0,
     artnet_active |-> FALSE, out_active |-> FALSE]

(* dmxbox_dmx_in_connected is read without a lock.                         *)
CheckInput ==
    /\ rc.pc = "sleep"
    /\ rc' = StartPass(IF in_connected THEN "copy" ELSE "merge")
    /\ UNCHANGED <<input, artnet, faders, effects_data, fx, out_data, artnet_led, out_led,
                   wire, complete>>

CopyInput ==
    /\ rc.pc = "copy"
    /\ rc' = [rc EXCEPT !.data = in_data, !.pc = "merge"]
    /\ UNCHANGED <<input, artnet, faders, effects_data, fx, out_data, artnet_led, out_led,
                   wire, complete>>

(* One channel of the merge.                                               *)
HighestSum(r, ch) ==                \* mutant: the levels of the sources add up
    LET level == r.data[ch] + artnet[ch] + effects_data[ch]
    IN  [r EXCEPT !.data[ch] = level, !.count = ch,
                  !.artnet_active = @ \/ artnet[ch] # 0,
                  !.out_active = @ \/ level # 0]

HighestLatestFlag(r, ch) ==         \* mutant: = for |= in the activity flags
    LET level == Max2(Max2(r.data[ch], artnet[ch]), effects_data[ch])
    IN  [r EXCEPT !.data[ch] = level, !.count = ch,
                  !.artnet_active = artnet[ch] # 0, !.out_active = level # 0]

Highest(r, ch) ==
    LET level == Max2(Max2(r.data[ch], artnet[ch]), effects_data[ch])
    IN  [r EXCEPT !.data[ch] = level, !.count = ch,
                  !.artnet_active = @ \/ artnet[ch] # 0,
                  !.out_active = @ \/ level # 0]

MergeChannel ==
    LET ch == rc.count + 1
    IN  /\ rc.pc = "merge"
        /\ rc' = [Highest(rc, ch) EXCEPT !.pc = IF ch = NumChannels THEN "publish" ELSE @]
        /\ UNCHANGED <<input, artnet, faders, effects_data, fx, out_data, artnet_led,
                       out_led, wire, complete>>

Publish ==
    /\ rc.pc = "publish"
    /\ out_data' = rc.data
    /\ rc' = [rc EXCEPT !.pc = "leds"]
    /\ UNCHANGED <<input, artnet, faders, effects_data, fx, artnet_led, out_led, wire,
                   complete>>

(* dmxbox_set_artnet_active and dmxbox_set_dmx_out_active.                 *)
SetLeds ==
    /\ rc.pc = "leds"
    /\ artnet_led' = rc.artnet_active
    /\ out_led' = rc.out_active
    /\ rc' = [rc EXCEPT !.pc = "sleep"]
    /\ UNCHANGED <<input, artnet, faders, effects_data, fx, out_data, wire, complete>>
-----------------------------------------------------------------------------
(* The DMX send task.  When the driver refuses, the task backs off and the *)
(* bus keeps what it has.                                                  *)
Send ==
    /\ wire' = out_data
    /\ UNCHANGED <<input, artnet, faders, effects_data, fx, rc, out_data, artnet_led,
                   out_led, complete>>
-----------------------------------------------------------------------------
(* What a source offers.  A DMX input that broke off while the recalc task *)
(* was between looking at the flag and copying the levels still counts.    *)
Offered(s) ==
    CASE s = "dmx_in"  -> IF in_connected \/ rc.pc = "copy" THEN in_data ELSE Dark
      [] s = "artnet"  -> artnet
      [] s = "effects" -> effects_data

Completed == {complete} \cup (IF fx.pc = "copy" THEN {fx.tick} ELSE {})

Reading == rc.pc \in {"copy", "merge"}

(* The histories of any step.                                              *)
Watch ==
    LET fresh == ~Reading /\ Reading'
    IN  /\ lo' = [s \in Sources |-> [ch \in Channels |->
                    IF fresh THEN Offered(s)'[ch]
                    ELSE IF Reading THEN Min2(lo[s][ch], Offered(s)'[ch])
                    ELSE lo[s][ch]]]
        /\ hi' = [s \in Sources |-> [ch \in Channels |->
                    IF fresh THEN Offered(s)'[ch]
                    ELSE IF Reading THEN Max2(hi[s][ch], Offered(s)'[ch])
                    ELSE hi[s][ch]]]
        /\ whole' = IF fresh THEN Completed'
                    ELSE IF Reading THEN whole \cup Completed'
                    ELSE IF rc'.pc = "publish" THEN whole ELSE {}

Environment == \/ \E f \in Frame : SetArtnet(f)
               \/ \E up \in BOOLEAN : SetControl(up)
DmxReceive == \/ \E n \in 0..NumChannels, f \in Frame : ReadPacket(n, f)
              \/ Connect \/ Timeout
Effects == CopyTick \/ \E f \in Frame : Tick(f)
Recalc == CheckInput \/ CopyInput \/ MergeChannel \/ Publish \/ SetLeds

Next ==
    /\ Environment \/ DmxReceive \/ Effects \/ Recalc \/ Send
    /\ Watch

Spec == Init /\ [][Next]_vars

(* The three periodic tasks always run again, and a packet that was read   *)
(* is reported.  Nothing makes packets arrive or stop.                     *)
Fairness ==
    /\ WF_vars(Effects /\ Watch)
    /\ WF_vars(Recalc /\ Watch)
    /\ WF_vars(Send /\ Watch)
    /\ WF_vars(Connect /\ Watch)

FairSpec == Spec /\ Fairness
-----------------------------------------------------------------------------
TypeOK ==
    /\ in_data \in Frame /\ in_connected \in BOOLEAN /\ in_task \in {"wait", "flag"}
    /\ artnet \in Frame /\ control \in BOOLEAN /\ followed \in BOOLEAN
    /\ effects_data \in Frame
    /\ fx \in [pc : {"sleep", "copy"}, tick : Frame, count : 0..NumChannels]
    /\ rc \in [pc : {"sleep", "copy", "merge", "publish", "leds"}, data : Frame,
               count : 0..NumChannels, artnet_active : BOOLEAN, out_active : BOOLEAN]
    /\ out_data \in Frame /\ wire \in Frame
    /\ artnet_led \in BOOLEAN /\ out_led \in BOOLEAN
    /\ lo \in [Sources -> Frame] /\ hi \in [Sources -> Frame]
    /\ complete \in Frame /\ whole \in SUBSET Frame

(* Highest takes precedence: no channel of a published frame is below what *)
(* some source held all the time the frame was computed, nor above what    *)
(* any source held at some moment of it.  Nothing of an earlier frame, and *)
(* nothing of an input that was gone before, is left.                      *)
HighestTakesPrecedence ==
    rc.pc \in {"leds", "sleep"} =>
        \A ch \in Channels :
            /\ \A s \in Sources : out_data[ch] >= lo[s][ch]
            /\ \E s \in Sources : out_data[ch] <= hi[s][ch]

(* After each pass the "DMX out" LED is lit exactly when the frame on its  *)
(* way to the wire is, and the "Art-Net in" LED when the universe is.      *)
LedsAgree ==
    rc.pc = "sleep" =>
        /\ out_led = (out_data # Dark)
        /\ lo["artnet"] # Dark => artnet_led
        /\ artnet_led => hi["artnet"] # Dark

(* Once every source is dark for good, the stage goes dark for good: the   *)
(* input, the universe, the effects' faders here and those of the leaders  *)
(* that effects of this box follow.                                        *)
Quiet == artnet = Dark /\ ~control /\ ~followed /\ (in_connected => in_data = Dark)

BlackoutReachesTheWire == <>[]Quiet => <>[](wire = Dark)

(* What the effects lock is for ("Synchronizes module output"): levels     *)
(* that come from the effects alone are those of one tick.                 *)
EffectsAreWhole ==
    rc.pc = "publish" /\ hi["dmx_in"] = Dark /\ hi["artnet"] = Dark =>
        rc.data \in whole
=============================================================================
