------------------------------ MODULE Settings ------------------------------
(***************************************************************************)
(* The settings in flash, the factory reset and the order in which the box *)
(* comes up: src/main and components/dmxbox_storage.  The Wi-Fi driver     *)
(* keeps its own two settings in the same flash.                           *)
(*                                                                         *)
(* A write is durable when it is made.  Of most settings it only matters   *)
(* that they are there.                                                    *)
(***************************************************************************)
EXTENDS Integers, Sequences

VARIABLES
    flash,          \* flash[k]: what is stored under a key
    enabled,        \* sta_mode_enabled_
    boot,           \* where app_main is; n counts the defaults written
    reset_reason    \* esp_reset_reason, until it is looked at

Keys == {"ap", "network", "sta_mode", "hostname", "native_uni", "effect_uni", "first_init"}
Values == {"absent", "set", "unnamed", "empty", "named", "off", "on"}

(* What a client may send as a network: with a name, or without.           *)
Networks == {"named", "empty"}

(* The defaults: a network without a name, station mode off.  An empty     *)
(* name means the same to the driver, whoever wrote it; it is told apart   *)
(* from a client's to see where it came from.                              *)
Default(k) ==
    CASE k = "network" -> "unnamed" [] k = "sta_mode" -> "off" [] OTHER -> "set"

(* wifi_set_defaults, dmxbox_storage_set_defaults, and the flag last.      *)
DefaultsFlagFirst ==        \* mutant: the first run counts as complete when it begins
    <<"first_init", "ap", "network", "sta_mode", "hostname", "native_uni", "effect_uni">>

Defaults ==
    <<"ap", "network", "sta_mode", "hostname", "native_uni", "effect_uni", "first_init">>

(* A power cut, esp_restart, a failed ESP_ERROR_CHECK.                     *)
Reasons == {"power", "sw", "panic"}

Blank == [k \in Keys |-> "absent"]
Store(k, value) == flash' = [flash EXCEPT ![k] = value]
Named == flash["network"] = "named"

At(place) == boot = [at |-> place, n |-> 0]
Goto(place) == boot' = [at |-> place, n |-> 0]
Serving == At("serve")

(* dmxbox_handle_factory_reset.  The button may be held at any time and    *)
(* for any time.  Only after esp_restart it is not looked at: after a      *)
(* panic it is, as after a power cut.                                      *)
ResettableAlways == TRUE    \* mutant: it does

Resettable == reset_reason # "sw"

PassButton ==
    /\ At("button")
    /\ Goto("load")
    /\ reset_reason' = "seen"
    /\ UNCHANGED <<flash, enabled>>

(* Held for ten seconds: the flash is erased, and the box restarts.        *)
FactoryReset ==
    /\ At("button")
    /\ Resettable
    /\ flash' = Blank
    /\ Goto("erased")
    /\ reset_reason' = "seen"
    /\ UNCHANGED enabled

(* dmxbox_storage_init.                                                    *)
LoadSettings ==
    /\ At("load")
    /\ enabled' = (flash["sta_mode"] = "on")
    /\ Goto("wifi")
    /\ UNCHANGED <<flash, reset_reason>>

(* The rest of app_main: defaults on a first run, then the services.       *)
AfterWifi == IF flash["first_init"] = "absent" THEN Goto("defaults") ELSE Goto("serve")

WriteDefault ==
    LET k == Defaults[boot.n + 1]
    IN  /\ boot.at = "defaults"
        /\ Store(k, Default(k))
        /\ enabled' = IF k = "sta_mode" THEN FALSE ELSE enabled
        /\ boot' = IF boot.n + 1 = Len(Defaults) THEN [at |-> "serve", n |-> 0]
                   ELSE [boot EXCEPT !.n = @ + 1]
        /\ UNCHANGED reset_reason

Reset(reason) ==
    /\ boot' = [at |-> "button", n |-> 0]
    /\ reset_reason' = reason
    /\ enabled' = FALSE
-----------------------------------------------------------------------------
SettingsType ==
    /\ flash \in [Keys -> Values]
    /\ enabled \in BOOLEAN
    /\ boot \in [at : {"button", "erased", "load", "wifi", "defaults", "serve"}, n : 0..(Len(Defaults) - 1)]
    /\ reset_reason \in Reasons \cup {"seen"}

(* A box that has come up has every setting, wherever power was cut before *)
(* and however often it was reset.                                         *)
SettingsComplete == Serving => \A k \in Keys : flash[k] # "absent"

(* Station mode is never on in flash with the network of the defaults, or  *)
(* none: what a box that comes up with it on is to join was sent by a      *)
(* client, wherever power was cut.  The code does not refuse a name that   *)
(* is empty, so it may be that.                                            *)
EnabledHasNetwork == flash["sta_mode"] = "on" => flash["network"] \in Networks
=============================================================================
