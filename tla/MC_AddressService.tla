------------------------ MODULE MC_AddressService ------------------------
(***************************************************************************)
(* Model-checking instances of AddressService.                            *)
(*                                                                         *)
(* Addresses: a queue and a subscription, so that both ways of carrying  *)
(* counters (fields, shards) and both branches of update_depth_series    *)
(* occur.  The create dialog may also be given a name with a reserved    *)
(* character.  Counters reach 1 (growth, acknowledgement, kill, and a    *)
(* restart back to 0 all occur); windows and series of 1 slot keep the   *)
(* metrics small here (WindowedDelta and TimeSeries check their own ring *)
(* and eviction with more slots).  Two messages may be in flight on each *)
(* link, enough for an update to race a delete in both directions.       *)
(***************************************************************************)
EXTENDS AddressService

CONSTANTS a1, a2, bad, u1, u2, cat1, cat2   \* model values named in the definitions below

MCAddrType == [a \in Addresses |-> IF a = a1 THEN "queue" ELSE "subscription"]
MCNameChars == [n \in NewNames |-> IF n = bad THEN {"a", "/"} ELSE {"a"}]
MCChars == {"a", "/"}
MCUserId == [u \in UserNames |-> IF u = u1 THEN 1 ELSE 2]
\* cat1 offers queues in two plans and topics; cat2, published later, drops
\* the topic type and the small queue plan.
MCCatalogEntries ==
    [c \in Catalogs |->
       IF c = cat1
         THEN <<[name |-> "queue", plans |-> <<[name |-> "small", displayName |-> "Small Queue"],
                                              [name |-> "large", displayName |-> "Large Queue"]>>],
                [name |-> "topic", plans |-> <<[name |-> "small", displayName |-> "Small Topic"]>>]>>
         ELSE <<[name |-> "queue", plans |-> <<[name |-> "large", displayName |-> "Large Queue"]>>]>>]
MCSpaceTypes == {"standard"}

\* Bounds
MCMaxCount == 1
MCWindow == 1
MCSeriesMax == 1
MCMaxInFlight == 2

=============================================================================
