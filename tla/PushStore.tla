----------------------------- MODULE PushStore ------------------------------
(***************************************************************************)
(* webPushSubscriptionStore: the browsers' push subscriptions, in a map by *)
(* endpoint and in a file that holds the whole map.  Of a record only the  *)
(* adapter it is limited to matters here.  As in the meta store, the map   *)
(* is changed first and persistLocked may fail before its rename.          *)
(***************************************************************************)
CONSTANTS
  Endpoints,
  Filters,    \* adapters a subscription may be limited to
  NoSub       \* the endpoint is not subscribed: none of Filters

VARIABLES
  items,      \* webPushSubscriptionStore.items
  disk,       \* the file
  attached    \* the store has a path: New falls back to one in memory only

storeVars == <<items, disk, attached>>
Records == [Endpoints -> Filters \cup {NoSub}]
Empty == [ep \in Endpoints |-> NoSub]

TypeOK == items \in Records /\ disk \in Records /\ attached \in BOOLEAN

Init ==
  /\ disk = Empty /\ items = Empty
  /\ attached \in BOOLEAN

\* newWebPushSubscriptionStore; when the file cannot be read, New goes on with
\* newInMemoryWebPushSubscriptionStore.
Load ==
  \/ items' = disk /\ attached' = TRUE /\ UNCHANGED disk
  \/ items' = Empty /\ attached' = FALSE /\ UNCHANGED disk

\* persistLocked: the whole map, or nothing.
Persist(ok) ==
  /\ ok \/ attached
  /\ disk' = IF attached /\ ok THEN items' ELSE disk
  /\ UNCHANGED attached

Upsert(ep, filter, ok) ==
  /\ items' = [items EXCEPT ![ep] = filter]
  /\ Persist(ok)

\* RemoveByEndpoint of an endpoint it has not: nothing is written.
RemoveNothing(ep) == items[ep] = NoSub /\ UNCHANGED storeVars

RemoveByEndpoint(ep, ok) ==
  /\ items[ep] # NoSub
  /\ items' = [items EXCEPT ![ep] = NoSub]
  /\ Persist(ok)

Next ==
  \/ \E ep \in Endpoints, ok \in BOOLEAN :
       \/ \E filter \in Filters : Upsert(ep, filter, ok)
       \/ RemoveByEndpoint(ep, ok)
  \/ Load

Spec == Init /\ [][Next]_storeVars
=============================================================================
