-------------------------- MODULE MCDmxBoxNetwork --------------------------
(***************************************************************************)
(* Instance of DmxBoxNetwork: every request, two addresses, two retries, and *)
(* one descriptor fewer than the three tasks together could hold.          *)
(***************************************************************************)
EXTENDS DmxBoxNetwork

MCRequests ==
    ({"wifi-config"} \X BOOLEAN \X Networks)
        \cup {<<"settings/sta", TRUE, "named">>, <<"settings/sta", TRUE, "empty">>,
              <<"settings/sta", FALSE, "named">>, <<"settings/artnet", FALSE, "named">>}
=============================================================================
