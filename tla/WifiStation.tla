---------------------------- MODULE WifiStation ----------------------------
(***************************************************************************)
(* The box as a station of somebody's Wi-Fi: components/dmxbox_wifi and    *)
(* the requests that reconfigure it (wifi-config, settings/sta and         *)
(* settings/artnet of components/dmxbox_api).                              *)
(*                                                                         *)
(* Three threads call the driver: the event task, the timer task and the   *)
(* web server.  The driver is external: it starts and stops the station,   *)
(* tries to connect when it is told to, loses connections, and posts an    *)
(* event of each to a queue.                                               *)
(***************************************************************************)
EXTENDS Settings

CONSTANTS
    MaxRetry,       \* CONFIG_WIFI_STA_MAXIMUM_RETRY
    MaxEvents,      \* bound: length of the event queue; the driver waits for room
    Addresses,      \* IP addresses the station may be given
    NoAddress

ASSUME RetryAssumption == MaxRetry \in Nat /\ MaxEvents \in Nat \ {0}
ASSUME AddressAssumption == Addresses # {} /\ NoAddress \notin Addresses

VARIABLES
    station,        \* the driver: "stopped", "idle", "connecting" or "connected"
    address,        \* the address of the station's interface
    events,         \* the queue of the event task
    bits,           \* dmxbox_wifi_event_group, the bits that somebody waits for or looks at
    retry_num,
    armed,          \* sta_retry_backoff_timer is running
    in_disconnect,  \* is_in_disconnect
    event_task,     \* pc of the event task in a handler; seen: retry_num as it read it
    connect,        \* connect[t]: pc of thread t in dmxbox_wifi_connect
    http,           \* the request under way: what is left to do, and whether it wants the station on
    untried         \* history: settings/sta turned the station on, or gave one that is on a
                    \* network it had not, and no attempt was begun since

settings == <<flash, enabled, boot, reset_reason>>
tasks == <<event_task, connect, http>>
wifi == <<station, address, events, bits, retry_num, armed, in_disconnect, tasks, untried>>

Threads == {"event", "timer", "http"}
Bits == {"sta_connected", "sta_disconnected", "ap_sta_connected"}
Steps == (Keys \ {"network"}) \cup Networks \cup {"open", "settle", "hang up", "disconnect", "hung up", "dial"}
Events == {"STA_START", "STA_DISCONNECTED", "GOT_IP", "AP_STACONNECTED"}

Kinds == {"wifi-config", "settings/sta", "settings/artnet"}

EventIdle == [pc |-> "idle", seen |-> 0]
HttpIdle == [todo |-> <<>>, on |-> FALSE]

StationOff ==
    /\ station = "stopped" /\ address = NoAddress /\ events = <<>> /\ bits = {}
    /\ retry_num = 0 /\ armed = FALSE /\ in_disconnect = FALSE /\ untried = FALSE
    /\ event_task = EventIdle /\ http = HttpIdle
    /\ connect = [t \in Threads |-> "none"]

Restart(reason) ==
    /\ Reset(reason)
    /\ station' = "stopped" /\ address' = NoAddress /\ events' = <<>> /\ bits' = {}
    /\ retry_num' = 0 /\ armed' = FALSE /\ in_disconnect' = FALSE /\ untried' = FALSE
    /\ event_task' = EventIdle /\ http' = HttpIdle
    /\ connect' = [t \in Threads |-> "none"]
    /\ UNCHANGED flash

(* A failed ESP_ERROR_CHECK panics.                                        *)
Abort == Restart("panic")
-----------------------------------------------------------------------------
(* The driver.                                                             *)
Room == Len(events) < MaxEvents
Post(event) == events' = Append(events, event)

(* Going from state s to state t, and the event that tells of it.          *)
Drives(s, t) ==
    /\ station' = t
    /\ address' = IF t = "connected" THEN address ELSE NoAddress
    /\ IF s = "stopped" /\ t = "idle" THEN Post("STA_START")
       ELSE IF s \in {"connecting", "connected"} /\ t \in {"idle", "stopped"}
            THEN Post("STA_DISCONNECTED")
            ELSE UNCHANGED events

(* esp_wifi_set_mode: WIFI_MODE_APSTA or WIFI_MODE_AP.                     *)
SetMode(apsta) ==
    /\ Room
    /\ Drives(station, IF ~apsta THEN "stopped"
                       ELSE IF station = "stopped" THEN "idle" ELSE station)

(* esp_wifi_connect succeeds on an idle station with a network to join;    *)
(* one that is busy already may say so.                                    *)
CanDial == station = "idle" /\ Named

Dial(ok) ==
    /\ ok => CanDial \/ station \in {"connecting", "connected"}
    /\ ~ok => ~CanDial
    /\ station' = IF CanDial THEN "connecting" ELSE station
    /\ untried' = (untried /\ ~(enabled /\ CanDial))
    /\ UNCHANGED <<address, events>>

AttemptFails ==
    /\ Room /\ station = "connecting"
    /\ Drives(station, "idle")
    /\ UNCHANGED <<settings, bits, retry_num, armed, in_disconnect, tasks, untried>>

Associate ==
    /\ Room /\ station = "connecting"
    /\ station' = "connected"
    /\ address' \in Addresses
    /\ Post("GOT_IP")
    /\ UNCHANGED <<settings, bits, retry_num, armed, in_disconnect, tasks, untried>>

Drop ==
    /\ Room /\ station = "connected"
    /\ Drives(station, "idle")
    /\ UNCHANGED <<settings, bits, retry_num, armed, in_disconnect, tasks, untried>>

(* Somebody joins the box's own access point; only the first one tells the *)
(* box anything new.                                                       *)
ClientJoins ==
    /\ Room /\ boot.at \in {"defaults", "serve"}
    /\ "ap_sta_connected" \notin bits /\ \A n \in DOMAIN events : events[n] # "AP_STACONNECTED"
    /\ Post("AP_STACONNECTED")
    /\ UNCHANGED <<settings, station, address, bits, retry_num, armed, in_disconnect, tasks, untried>>
-----------------------------------------------------------------------------
(* Boot.                                                                   *)

(* dmxbox_wifi_start.                                                      *)
StartWifi ==
    /\ At("wifi")
    /\ AfterWifi
    /\ SetMode(enabled)
    /\ UNCHANGED <<flash, enabled, reset_reason, bits, retry_num, armed, in_disconnect, tasks, untried>>

(* wifi_set_defaults has the station on while it writes the two settings   *)
(* of the driver, whatever the mode was before.                            *)
FirstRun ==
    /\ WriteDefault
    /\ LET k == Defaults[boot.n + 1]
       IN  IF k \in {"ap", "sta_mode"} THEN SetMode(k = "ap")
           ELSE UNCHANGED <<station, address, events>>
    /\ UNCHANGED <<bits, retry_num, armed, in_disconnect, tasks, untried>>

Boot ==
    \/ (PassButton \/ FactoryReset \/ LoadSettings) /\ UNCHANGED wifi
    \/ At("erased") /\ Restart("sw")
    \/ StartWifi \/ FirstRun

PowerCut == Restart("power")

(* The system request: esp_restart.                                        *)
Reboot ==
    /\ Serving /\ http = HttpIdle /\ connect["http"] = "none"
    /\ Restart("sw")
-----------------------------------------------------------------------------
(* dmxbox_wifi_connect, by any of the threads.                             *)
ZeroRetries(t) ==
    /\ connect[t] = "zero"
    /\ retry_num' = 0
    /\ connect' = [connect EXCEPT ![t] = "stop"]
    /\ UNCHANGED <<settings, station, address, events, bits, armed, in_disconnect,
                   event_task, http, untried>>

StopTimer(t) ==
    /\ connect[t] = "stop"
    /\ armed' = FALSE
    /\ connect' = [connect EXCEPT ![t] = "dial"]
    /\ UNCHANGED <<settings, station, address, events, bits, retry_num, in_disconnect,
                   event_task, http, untried>>

(* Only the web server looks at the result.                                *)
Connect(t) ==
    /\ connect[t] = "dial"
    /\ \E ok \in BOOLEAN :
          IF t = "http" /\ ~ok THEN ~CanDial /\ Abort
          ELSE /\ Dial(ok)
               /\ connect' = [connect EXCEPT ![t] = "none"]
               /\ UNCHANGED <<settings, bits, retry_num, armed, in_disconnect, event_task, http>>

DialOut == \E t \in Threads : ZeroRetries(t) \/ StopTimer(t) \/ Connect(t)
-----------------------------------------------------------------------------
(* The event task, which handles one event after the other.                *)
Free == event_task.pc = "idle" /\ connect["event"] = "none"

Take(event) ==
    /\ Free
    /\ events # <<>> /\ Head(events) = event
    /\ events' = Tail(events)

OnStart ==
    /\ Take("STA_START")
    /\ connect' = [connect EXCEPT !["event"] = "zero"]
    /\ UNCHANGED <<settings, station, address, bits, retry_num, armed, in_disconnect,
                   event_task, http, untried>>

(* dmxbox_wifi_on_sta_disconnected: the bits first, then what to do.       *)
DisconnectedUnlessOurs(b) ==    \* mutant: is_in_disconnect is looked at first
    IF in_disconnect THEN b ELSE (b \ {"sta_connected"}) \cup {"sta_disconnected"}

Disconnected(b) == (b \ {"sta_connected"}) \cup {"sta_disconnected"}

MayRetryOnceMore == retry_num <= MaxRetry   \* mutant: one retry too many

MayRetry == retry_num < MaxRetry

AfterRetriesGivesUp == EventIdle    \* mutant: no back-off, as in the driver's example

AfterRetries == [pc |-> "back off", seen |-> 0]

OnDisconnected ==
    /\ Take("STA_DISCONNECTED")
    /\ bits' = Disconnected(bits)
    /\ event_task' = IF in_disconnect \/ ~enabled THEN EventIdle
                     ELSE IF MayRetry THEN [pc |-> "retry", seen |-> retry_num]
                     ELSE AfterRetries
    /\ UNCHANGED <<settings, station, address, retry_num, armed, in_disconnect, connect, http, untried>>

Retry ==
    /\ event_task.pc = "retry"
    /\ retry_num' = event_task.seen + 1
    /\ armed' = FALSE
    /\ \E ok \in BOOLEAN : Dial(ok)
    /\ event_task' = EventIdle
    /\ UNCHANGED <<settings, bits, in_disconnect, connect, http>>

(* Starting a timer that runs is an error.                                 *)
BackOff ==
    /\ event_task.pc = "back off"
    /\ IF armed THEN Abort
       ELSE /\ armed' = TRUE
            /\ event_task' = EventIdle
            /\ UNCHANGED <<settings, station, address, events, bits, retry_num, in_disconnect,
                           connect, http, untried>>

GotIpKept(b) == b \cup {"sta_connected"}    \* mutant: the other bit is not cleared

GotIp(b) == (b \ {"sta_disconnected"}) \cup {"sta_connected"}

OnGotIp ==
    /\ Take("GOT_IP")
    /\ retry_num' = 0
    /\ armed' = FALSE
    /\ bits' = GotIp(bits)
    /\ UNCHANGED <<settings, station, address, in_disconnect, tasks, untried>>

OnClientJoined ==
    /\ Take("AP_STACONNECTED")
    /\ bits' = bits \cup {"ap_sta_connected"}
    /\ UNCHANGED <<settings, station, address, retry_num, armed, in_disconnect, tasks, untried>>

HandleEvent == OnStart \/ OnDisconnected \/ Retry \/ BackOff \/ OnGotIp \/ OnClientJoined

(* sta_retry_backoff_callback.                                             *)
TimerFires ==
    /\ armed /\ connect["timer"] = "none"
    /\ armed' = FALSE
    /\ connect' = IF enabled THEN [connect EXCEPT !["timer"] = "zero"] ELSE connect
    /\ UNCHANGED <<settings, station, address, events, bits, retry_num, in_disconnect,
                   event_task, http, untried>>
-----------------------------------------------------------------------------
(* The requests, one at a time.  What name of a network they carry, if any,*)
(* is not looked at: it may be empty.  The web server does with them, in   *)
(* this order (to store a network is a step named for what is stored):     *)
WifiConfig(on, network) ==      \* wifi_update_config
    IF on THEN <<"hostname", "open", "ap", network, "sta_mode", "settle",
                 "hang up", "disconnect", "hung up", "dial">>
    ELSE <<"hostname", "open", "ap", network, "sta_mode", "settle">>

EnableStaFlagFirst(network) == <<"sta_mode", "open", network>>      \* mutant: the flag first

EnableSta(network) == <<"open", network, "sta_mode">>       \* dmxbox_wifi_enable_sta
DisableSta == <<"sta_mode", "settle">>

Request(kind, on, network) ==
    CASE kind = "wifi-config" -> WifiConfig(on, network)
      [] kind = "settings/sta" -> IF on THEN EnableSta(network) ELSE DisableSta
      [] kind = "settings/artnet" -> <<"native_uni", "effect_uni">>

Ask(kind, on, network) ==
    /\ Serving
    /\ http = HttpIdle /\ connect["http"] = "none"
    /\ http' = [todo |-> Request(kind, on, network), on |-> on]
    /\ untried' = (untried \/ (kind = "settings/sta" /\ on /\ ~(enabled /\ Named)))
    /\ UNCHANGED <<settings, station, address, events, bits, retry_num, armed, in_disconnect,
                   event_task, connect>>

Doing(steps) == http.todo # <<>> /\ Head(http.todo) \in steps
Done == http' = IF Len(http.todo) = 1 THEN HttpIdle ELSE [http EXCEPT !.todo = Tail(@)]

ChangeMode ==
    /\ Doing({"open", "settle"})
    /\ SetMode(Head(http.todo) = "open" \/ http.on)
    /\ Done
    /\ UNCHANGED <<settings, bits, retry_num, armed, in_disconnect, event_task, connect, untried>>

(* The driver takes no new network while it is connecting.  Of the network *)
(* dmxbox_wifi_enable_sta gives it, only name, password and threshold are  *)
(* initialized: it may find something wrong with the rest.                 *)
Setting(step) == IF step \in Networks THEN "network" ELSE step

Sent(step) ==
    CASE step \in Networks -> step
      [] step = "sta_mode" -> IF http.on THEN "on" ELSE "off"
      [] OTHER -> "set"

NetworkRefused ==
    /\ Doing(Networks)
    /\ station = "connecting" \/ Len(http.todo) = 2
    /\ Abort

StoreSetting ==
    /\ Doing(Keys \cup Networks)
    /\ Doing(Networks) => station # "connecting"
    /\ LET step == Head(http.todo)
       IN  /\ Store(Setting(step), Sent(step))
           /\ enabled' = IF step = "sta_mode" THEN http.on ELSE enabled
    /\ Done
    /\ UNCHANGED <<boot, reset_reason, station, address, events, bits, retry_num, armed,
                   in_disconnect, event_task, connect, untried>>

(* dmxbox_wifi_disconnect: the event of it may be handled before or after  *)
(* the flag is cleared again.                                              *)
HangUp ==
    /\ Doing({"hang up", "hung up"})
    /\ in_disconnect' = (Head(http.todo) = "hang up")
    /\ Done
    /\ UNCHANGED <<settings, station, address, events, bits, retry_num, armed, event_task,
                   connect, untried>>

Disconnect ==
    /\ Doing({"disconnect"})
    /\ Room
    /\ Drives(station, "idle")
    /\ Done
    /\ UNCHANGED <<settings, bits, retry_num, armed, in_disconnect, event_task, connect, untried>>

DialAgain ==
    /\ Doing({"dial"})
    /\ connect' = [connect EXCEPT !["http"] = "zero"]
    /\ Done
    /\ UNCHANGED <<settings, station, address, events, bits, retry_num, armed, in_disconnect,
                   event_task, untried>>

Serve == ChangeMode \/ NetworkRefused \/ StoreSetting \/ HangUp \/ Disconnect \/ DialAgain
-----------------------------------------------------------------------------
StationType ==
    /\ station \in {"stopped", "idle", "connecting", "connected"}
    /\ address \in Addresses \cup {NoAddress}
    /\ events \in Seq(Events) /\ Len(events) <= MaxEvents
    /\ bits \subseteq Bits
    /\ retry_num \in 0..MaxRetry
    /\ armed \in BOOLEAN /\ in_disconnect \in BOOLEAN /\ untried \in BOOLEAN
    /\ event_task \in [pc : {"idle", "retry", "back off"}, seen : 0..MaxRetry]
    /\ connect \in [Threads -> {"none", "zero", "stop", "dial"}]
    /\ http \in [todo : Seq(Steps), on : BOOLEAN]

(* Between two events, the bits the rest of the box waits for say whether  *)
(* the station is connected.                                               *)
Settled == Free /\ \A n \in DOMAIN events : events[n] \notin {"STA_DISCONNECTED", "GOT_IP"}

BitsAgree ==
    Settled => /\ "sta_connected" \in bits <=> station = "connected"
               /\ "sta_disconnected" \in bits => station # "connected"

(* A station that is wanted and idle has its back-off timer running, once  *)
(* every thread has finished and every event is handled: there is always a *)
(* next attempt, whoever stopped the timer or reset the counter meanwhile. *)
(* Wanted is a station that is on and has a network to join, except one    *)
(* that got either from settings/sta and was not told to dial since:       *)
(* dmxbox_wifi_enable_sta leaves that to the start of the station.         *)
Quiet ==
    /\ event_task = EventIdle /\ http = HttpIdle /\ events = <<>>
    /\ \A t \in Threads : connect[t] = "none"

Wanted == Serving /\ enabled /\ Named /\ ~untried

KeepsTrying == (Wanted /\ Quiet /\ station = "idle") => armed
=============================================================================
