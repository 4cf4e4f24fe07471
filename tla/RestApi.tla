------------------------------ MODULE RestApi ------------------------------
(***************************************************************************)
(* How a request to /api/effects finds its handler: components/dmxbox_rest *)
(* and the routers of components/dmxbox_api.                               *)
(*                                                                         *)
(* A path is what follows /api/effects, cut at its slashes.  Text matters  *)
(* only as the number or the word a segment is.                            *)
(***************************************************************************)
EXTENDS Integers, Sequences

CONSTANTS
    NumIds,         \* 2^16, the values of a uint16_t
    Paths           \* paths that clients ask for

Number(n) == [word |-> "", number |-> n]
Word(w) == [word |-> w, number |-> 0]
Segment == [word : {"", "steps", "other"}, number : Nat]

ASSUME IdAssumption == NumIds \in Nat /\ NumIds > 1
ASSUME PathAssumption == Paths \subseteq Seq(Segment)

Ids == 0..(NumIds - 1)
-----------------------------------------------------------------------------
(* dmxbox_uri_match_positive_u16; 0 stands for no match.  The limit is     *)
(* looked at before a digit is added, never after the last one, and the    *)
(* value is cut to 16 bits at the end.                                     *)
Id(segment) ==
    IF segment.word # "" \/ segment.number \div 10 >= NumIds THEN 0
    ELSE segment.number % NumIds

(* dmxbox_rest_parse_uri.  has_id is cleared for the steps of an effect    *)
(* and stays so when the path goes on to name one.                         *)
NotFound == [container |-> "none", parent_id |-> 0, id |-> 0, has_id |-> FALSE]

Names(path) ==
    /\ Len(path) >= 1 => Id(path[1]) # 0
    /\ Len(path) >= 2 => path[2].word = "steps"
    /\ Len(path) >= 3 => Id(path[3]) # 0
    /\ Len(path) <= 3

ItemIdKept(path) ==         \* mutant: the id is not reset for the child
    IF Len(path) = 0 THEN 0 ELSE IF Len(path) = 3 THEN Id(path[3]) ELSE Id(path[1])

ItemId(path) == IF Len(path) \in {1, 3} THEN Id(path[Len(path)]) ELSE 0

Route(path) ==
    IF ~Names(path) THEN NotFound
    ELSE [container |-> IF Len(path) <= 1 THEN "effects" ELSE "steps",
          parent_id |-> IF Len(path) <= 1 THEN 0 ELSE Id(path[1]),
          id |-> ItemId(path), has_id |-> Len(path) = 1]
-----------------------------------------------------------------------------
(* effects_router and effects_steps_router.                                *)
Handlers == [none |-> {},
             effects |-> {"get", "list", "post", "put", "delete"},
             steps |-> {"get", "list", "put", "batch_put", "delete"}]

(* dmxbox_rest_get, _post, _put and _delete: the handler that is looked    *)
(* for.  A POST to something with an id finds none.                        *)
Wanted(method, route) ==
    CASE method = "GET"    -> IF route.has_id THEN "get" ELSE "list"
      [] method = "PUT"    -> IF route.has_id THEN "put" ELSE "batch_put"
      [] method = "POST"   -> IF route.id = 0 THEN "post" ELSE "none"
      [] method = "DELETE" -> "delete"

Methods == {"GET", "PUT", "POST", "DELETE"}

(* dmxbox_rest_handler: the answer is 404 without a route and 405 without  *)
(* a handler, else what the handler makes of the ids of the route.         *)
Dispatched(method, path) ==
    Route(path).container # "none"
    /\ Wanted(method, Route(path)) \in Handlers[Route(path).container]

(* The routes on which a handler is called.                                *)
Reaching ==
    [container \in {"effects", "steps"} |->
        [handler \in {"get", "list", "post", "put", "batch_put", "delete"} |->
            {Route(path) : path \in
                {p \in Paths : \E method \in Methods :
                    /\ Dispatched(method, p)
                    /\ Route(p).container = container
                    /\ Wanted(method, Route(p)) = handler}}]]
=============================================================================
