--------------------------- MODULE AddressService ---------------------------
(***************************************************************************)
(* AddressService of address_service.js (lines 85-350): the console's     *)
(* copy of the addresses, connections, users and address-type catalog of *)
(* an address space, kept current by on_message from the messages the    *)
(* agent sends over an AMQP-over-websocket connection, two interval       *)
(* timers that feed the per-address metrics, and the commands the UI     *)
(* sends back.  Every change is reported through callback(reason), whose *)
(* pending reasons are flushed to the observer; Coalesce.tla shows that  *)
(* the coalescing timer implements the abstract Notifier used here.      *)
(*                                                                         *)
(* The agent is the environment: it holds the authoritative state, sends *)
(* a message on every change (in order, over one link) and executes the *)
(* commands.  Reconnect loses whatever was in flight in both directions; *)
(* the code has no resynchronisation (spec section 5).                   *)
(***************************************************************************)
EXTENDS Naturals, Sequences, FiniteSets, SequencesExt

CONSTANTS
    Addresses,     \* address names the agent may hold
    AddrType,      \* [Addresses -> {"queue", "topic", "subscription"}]
    NewNames,      \* names the user may type in the create-address dialog
    NameChars,     \* [NewNames -> SUBSET Chars]: the characters of a name
    Chars,         \* characters, including the reserved ones below
    Connections,   \* connection ids
    UserNames,     \* user names
    UserId,        \* [UserNames -> ids]: the agent's id of each user
    Catalogs,      \* address-type catalogs the agent may publish
    CatalogEntries,\* [Catalogs -> Seq([name, plans : Seq([name, displayName])])]
    NoCatalog,     \* the initial address_types = []
    SpaceTypes,    \* address-space types the agent may report
    Undefined,     \* JavaScript undefined / a field absent from a message
    NoEntry,       \* no entity under a key of an index
    MaxCount,      \* bound: largest value of a message counter
    Window,        \* WindowedDelta window (60 in the code)
    SeriesMax,     \* TimeSeries max_size (10 in the code)
    MaxInFlight,   \* bound: messages in flight on each link
    MaxReconnects, \* bound: connection losses
    PropsMayBeAbsent \* may an address_types message lack application_properties?

Reserved == {"#", "*", "/", " ", ".", ":"}

\* The agent lists each address type once in a catalog, and each plan once
\* under its type.
ASSUME \A c \in Catalogs :
         /\ IsInjective([i \in 1..Len(CatalogEntries[c]) |-> CatalogEntries[c][i].name])
         /\ \A e \in ToSet(CatalogEntries[c]) :
              IsInjective([i \in 1..Len(e.plans) |-> e.plans[i].name])

VARIABLES
    \* AddressService
    address_index,      \* [Addresses -> Entity \cup {NoEntry}]
    connection_index,   \* [Connections -> connection record \cup {NoEntry}]
    users,              \* sequence of user records
    address_types,      \* the catalog
    address_space_type,
    admin_disabled,
    \* the notification path (Notifier)
    reasons,            \* pending reasons (keys of _reasons)
    stale,              \* the observer has not yet seen some change
    \* the links
    inbox,              \* agent -> console messages in flight
    outbox,             \* console -> agent commands in flight
    reconnects,
    \* the agent
    srvAddr,            \* [Addresses -> [live, in, ack, killed]]
    srvConn,            \* [Connections -> [live, rev]]
    srvUser,            \* [UserNames -> [live, rev]]
    srvCatalog,
    srvSpaceType,
    srvAdminDisabled

client == <<address_index, connection_index, users, address_types,
            address_space_type, admin_disabled>>
notifier == <<reasons, stale>>
links == <<inbox, outbox, reconnects>>
server == <<srvAddr, srvConn, srvUser, srvCatalog, srvSpaceType, srvAdminDisabled>>
vars == <<client, notifier, links, server>>

WD == INSTANCE WindowedDelta WITH Values <- 0..MaxCount, MaxUpdates <- 0,
                                  wd <- NoEntry, contributions <- <<>>
TS == INSTANCE TimeSeries WITH MaxSize <- SeriesMax, Values <- 0..MaxCount,
                               Times <- {0}, MaxPushes <- 0,
                               ts <- NoEntry, now <- 0, history <- <<>>

Counter == 0..MaxCount \cup {Undefined}

(***************************************************************************)
(* The messages of the agent and the bodies it sends.                     *)
(***************************************************************************)
Msg(subject, body) == [subject |-> subject, body |-> body, props |-> Undefined]

\* The full state of address a as the agent sends it.  Subscriptions carry
\* their counters in shards only; queues and topics carry messages_in,
\* messages_out and depth.
AddressBody(a, s) ==
    IF AddrType[a] = "subscription"
      THEN [address |-> a, type |-> AddrType[a], messages_in |-> Undefined,
            messages_out |-> Undefined, depth |-> Undefined,
            shards |-> <<[enqueued |-> s.in, acknowledged |-> s.ack, killed |-> s.killed]>>]
      ELSE [address |-> a, type |-> AddrType[a], messages_in |-> s.in,
            messages_out |-> s.ack + s.killed, depth |-> s.in - s.ack - s.killed,
            shards |-> Undefined]

UserBody(u, rev) == [name |-> u, id |-> UserId[u], rev |-> rev, selected |-> FALSE]

ConnBody(c, rev) == [id |-> c, rev |-> rev]

(***************************************************************************)
(* AddressDefinition (lines 85-137).                                      *)
(***************************************************************************)
(***************************************************************************)
(* Mutations of AddressDefinition, used to test the properties.          *)
(***************************************************************************)
\* update(a) takes messages_out of a subscription from acknowledged only.
UpdateFieldsNoKilled(e, a) ==
    LET m == [f \in {"type", "messages_in", "messages_out", "depth"} |->
                IF a[f] = Undefined THEN e[f] ELSE a[f]]
        sub == a.type = "subscription" /\ a.shards # Undefined
    IN  [e EXCEPT !.type = m.type, !.depth = m.depth,
                  !.messages_in = IF sub THEN a.shards[1].enqueued ELSE m.messages_in,
                  !.messages_out = IF sub THEN a.shards[1].acknowledged ELSE m.messages_out]

\* update(a): copy every field the message has; a subscription with shards
\* takes its counters from the first shard.
UpdateFields(e, a) ==
    LET m == [f \in {"type", "messages_in", "messages_out", "depth"} |->
                IF a[f] = Undefined THEN e[f] ELSE a[f]]
        sub == a.type = "subscription" /\ a.shards # Undefined
    IN  [e EXCEPT !.type = m.type, !.depth = m.depth,
                  !.messages_in = IF sub THEN a.shards[1].enqueued ELSE m.messages_in,
                  !.messages_out = IF sub THEN a.shards[1].acknowledged + a.shards[1].killed
                                          ELSE m.messages_out]

\* update_depth_series(): push depth for a queue or topic that has one.
HasDepthSample(e) == e.type \in {"queue", "topic"} /\ e.depth # Undefined

UpdateDepthSeries(e) ==
    IF HasDepthSample(e) THEN [e EXCEPT !.series = TS!Push(e.series, e.depth, 0)] ELSE e

\* update_periodic_deltas(): feed both counters to their trackers.
UpdatePeriodicDeltas(e) ==
    [e EXCEPT !.rates = [m \in {"messages_in", "messages_out"} |-> WD!Update(e.rates[m], e[m])]]

\* new AddressDefinition(a): update(a), a new depth series with a first
\* sample, and the two trackers seeded with the current counters.
NewAddressDefinition(a) ==
    LET blank == [type |-> Undefined, messages_in |-> Undefined, messages_out |-> Undefined,
                  depth |-> Undefined, selected |-> FALSE, series |-> TS!NewSeries,
                  rates |-> [m \in {"messages_in", "messages_out"} |-> WD!New]]
    IN  UpdatePeriodicDeltas(UpdateDepthSeries(UpdateFields(blank, a)))

(***************************************************************************)
(* What the observer reads, and the reporting of a change.                *)
(***************************************************************************)
Visible == client

\* this.callback(reason): the reason joins _reasons (the coalesced flush is
\* Notifier's Flush below).
Notify(r) == reasons' = reasons \cup {r}

\* A step taken by the service on its own (a message or a timer): the
\* observer has not seen its effect until the next flush.
Unseen == stale' = (stale \/ Visible' # Visible)

Receive(subject) ==
    /\ inbox # <<>>
    /\ Head(inbox).subject = subject
    /\ inbox' = Tail(inbox)

Init ==
    /\ address_index = [a \in Addresses |-> NoEntry]
    /\ connection_index = [c \in Connections |-> NoEntry]
    /\ users = <<>>
    /\ address_types = NoCatalog
    /\ address_space_type = ""
    /\ admin_disabled = TRUE
    /\ reasons = {}
    /\ stale = FALSE
    /\ srvAddr \in [Addresses -> [live : BOOLEAN, in : {0}, ack : {0}, killed : {0}]]
    /\ srvConn = [c \in Connections |-> [live |-> FALSE, rev |-> 0]]
    /\ srvUser \in [UserNames -> [live : BOOLEAN, rev : {0}]]
    /\ srvCatalog \in Catalogs
    /\ srvSpaceType \in SpaceTypes
    /\ srvAdminDisabled \in BOOLEAN
    \* on attach the agent sends the catalog and every live entity
    /\ inbox = <<[subject |-> "address_types", body |-> srvCatalog,
                  props |-> [address_space_type |-> srvSpaceType,
                             disable_admin |-> srvAdminDisabled]]>>
               \o SetToSeq({Msg("address", AddressBody(a, srvAddr[a])) : a \in {x \in Addresses : srvAddr[x].live}})
               \o SetToSeq({Msg("user", UserBody(u, 0)) : u \in {x \in UserNames : srvUser[x].live}})
    /\ outbox = <<>>
    /\ reconnects = 0

(***************************************************************************)
(* Mutations of on_message and the UI operations, used to test the       *)
(* properties.                                                             *)
(***************************************************************************)
\* address_deleted removes the entry but forgets the callback.
OnAddressDeletedSilent ==
    /\ Receive("address_deleted")
    /\ LET k == Head(inbox).body IN
       IF address_index[k] # NoEntry
         THEN address_index' = [address_index EXCEPT ![k] = NoEntry]
         ELSE UNCHANGED address_index
    /\ UNCHANGED <<connection_index, users, address_types, address_space_type,
                   admin_disabled, reasons, outbox, reconnects, server>>
    /\ Unseen

\* connection_deleted removes the entry but forgets the callback.
OnConnectionDeletedSilent ==
    /\ Receive("connection_deleted")
    /\ LET k == Head(inbox).body IN
       IF connection_index[k] # NoEntry
         THEN connection_index' = [connection_index EXCEPT ![k] = NoEntry]
         ELSE UNCHANGED connection_index
    /\ UNCHANGED <<address_index, users, address_types, address_space_type,
                   admin_disabled, reasons, outbox, reconnects, server>>
    /\ Unseen

\* A known connection is left as it was instead of being updated.
OnConnectionAddOnly ==
    /\ Receive("connection")
    /\ LET c == Head(inbox).body IN
       IF connection_index[c.id] = NoEntry
         THEN /\ connection_index' = [connection_index EXCEPT ![c.id] = c]
              /\ Notify("connection_added")
         ELSE /\ UNCHANGED connection_index
              /\ Notify("connection_updated")
    /\ UNCHANGED <<address_index, users, address_types, address_space_type,
                   admin_disabled, outbox, reconnects, server>>
    /\ Unseen

\* update_user keeps a known user's old record.
UpdateUserKeepOld(us, c) ==
    IF \E i \in 1..Len(us) : us[i].name = c.name THEN us ELSE Append(us, c)

\* update_user appends without looking for the name.
UpdateUserAppend(us, c) == Append(us, c)

\* user_deleted reports the reason under a misspelt name.
OnUserDeletedWrongReason ==
    /\ Receive("user_deleted")
    /\ LET id == Head(inbox).body
           kept == SelectSeq(users, LAMBDA u : u.id # id)
       IN  /\ users' = kept
           /\ IF Len(kept) # Len(users) THEN Notify("user_deleted")
                                        ELSE UNCHANGED reasons
    /\ UNCHANGED <<address_index, connection_index, address_types, address_space_type,
                   admin_disabled, outbox, reconnects, server>>
    /\ Unseen

\* delete_selected removes the selected addresses without telling the agent.
DeleteSelectedLocalOnly ==
    LET sel == {a \in Addresses : address_index[a] # NoEntry /\ address_index[a].selected} IN
    /\ sel # {}
    /\ address_index' = [a \in Addresses |-> IF a \in sel THEN NoEntry ELSE address_index[a]]
    /\ Notify("address_deleted")
    /\ stale' = FALSE
    /\ UNCHANGED <<connection_index, users, address_types, address_space_type,
                   admin_disabled, links, server>>

(***************************************************************************)
(* on_message (lines 279-332), one action per subject.                    *)
(***************************************************************************)
OnAddress ==
    /\ Receive("address")
    /\ LET a == Head(inbox).body
           def == address_index[a.address]
       IN  IF def = NoEntry
             THEN /\ address_index' = [address_index EXCEPT ![a.address] = NewAddressDefinition(a)]
                  /\ Notify("address_added")
             ELSE /\ address_index' = [address_index EXCEPT ![a.address] = UpdateFields(def, a)]
                  /\ Notify("address_updated")
    /\ UNCHANGED <<connection_index, users, address_types, address_space_type,
                   admin_disabled, outbox, reconnects, server>>
    /\ Unseen

OnAddressDeleted ==
    /\ Receive("address_deleted")
    /\ LET k == Head(inbox).body IN
       IF address_index[k] # NoEntry
         THEN /\ address_index' = [address_index EXCEPT ![k] = NoEntry]
              /\ Notify("address_deleted")
         ELSE UNCHANGED <<address_index, reasons>>
    /\ UNCHANGED <<connection_index, users, address_types, address_space_type,
                   admin_disabled, outbox, reconnects, server>>
    /\ Unseen

\* The catalog is assigned first; reading a missing application_properties
\* then throws, so the space type, the admin flag and the callback are
\* skipped.
OnAddressTypes ==
    /\ Receive("address_types")
    /\ LET m == Head(inbox) IN
       /\ address_types' = m.body
       /\ IF m.props = Undefined
            THEN UNCHANGED <<address_space_type, admin_disabled, reasons>>
            ELSE /\ address_space_type' = m.props.address_space_type
                 /\ admin_disabled' = m.props.disable_admin
                 /\ Notify("address_types")
    /\ UNCHANGED <<address_index, connection_index, users, outbox, reconnects, server>>
    /\ Unseen

\* A new connection is stored as received; a known one is updated in place
\* with Object.assign (every field of the message overwrites).
OnConnection ==
    /\ Receive("connection")
    /\ LET c == Head(inbox).body
           def == connection_index[c.id]
       IN  IF def = NoEntry
             THEN /\ connection_index' = [connection_index EXCEPT ![c.id] = c]
                  /\ Notify("connection_added")
             ELSE /\ connection_index' = [connection_index EXCEPT ![c.id] =
                                            [f \in DOMAIN def |-> IF f \in DOMAIN c THEN c[f] ELSE def[f]]]
                  /\ Notify("connection_updated")
    /\ UNCHANGED <<address_index, users, address_types, address_space_type,
                   admin_disabled, outbox, reconnects, server>>
    /\ Unseen

OnConnectionDeleted ==
    /\ Receive("connection_deleted")
    /\ LET k == Head(inbox).body IN
       IF connection_index[k] # NoEntry
         THEN /\ connection_index' = [connection_index EXCEPT ![k] = NoEntry]
              /\ Notify("connection_deleted")
         ELSE UNCHANGED <<connection_index, reasons>>
    /\ UNCHANGED <<address_index, users, address_types, address_space_type,
                   admin_disabled, outbox, reconnects, server>>
    /\ Unseen

\* update_user(c) (lines 271-277): scan for the first user with c's name;
\* when there is none the scan stops at users.length and the assignment
\* appends.  The record is replaced, not merged.
UpdateUser(us, c) ==
    LET match == {i \in 1..Len(us) : us[i].name = c.name}
        i == IF match = {} THEN Len(us) + 1 ELSE Min(match)
    IN  IF i = Len(us) + 1 THEN Append(us, c) ELSE [us EXCEPT ![i] = c]

OnUser ==
    /\ Receive("user")
    /\ users' = UpdateUser(users, Head(inbox).body)
    /\ Notify("user")
    /\ UNCHANGED <<address_index, connection_index, address_types, address_space_type,
                   admin_disabled, outbox, reconnects, server>>
    /\ Unseen

\* Every user whose id matches is spliced out.
OnUserDeleted ==
    /\ Receive("user_deleted")
    /\ LET id == Head(inbox).body
           kept == SelectSeq(users, LAMBDA u : u.id # id)
       IN  /\ users' = kept
           /\ IF Len(kept) # Len(users) THEN Notify("user:deleted")
                                        ELSE UNCHANGED reasons
    /\ UNCHANGED <<address_index, connection_index, address_types, address_space_type,
                   admin_disabled, outbox, reconnects, server>>
    /\ Unseen

(***************************************************************************)
(* The interval timers (lines 166-167, 217-232).                          *)
(***************************************************************************)
Present == {a \in Addresses : address_index[a] # NoEntry}

\* Every 5 s: feed every address's counters to its trackers, then always
\* report reset_periodic_deltas.
PeriodicDeltasTimer ==
    /\ address_index' = [a \in Addresses |->
                           IF a \in Present THEN UpdatePeriodicDeltas(address_index[a])
                                            ELSE NoEntry]
    /\ Notify("reset_periodic_deltas")
    /\ UNCHANGED <<connection_index, users, address_types, address_space_type,
                   admin_disabled, links, server>>
    /\ Unseen

\* Every 30 s: push a depth sample for every queue or topic with a depth;
\* report update_depth_series if any was pushed.
DepthSeriesTimer ==
    /\ address_index' = [a \in Addresses |->
                           IF a \in Present THEN UpdateDepthSeries(address_index[a])
                                            ELSE NoEntry]
    /\ IF \E a \in Present : HasDepthSample(address_index[a])
         THEN Notify("update_depth_series")
         ELSE UNCHANGED reasons
    /\ UNCHANGED <<connection_index, users, address_types, address_space_type,
                   admin_disabled, links, server>>
    /\ Unseen

(***************************************************************************)
(* Operations the UI calls (lines 234-269).  Angular re-renders the view *)
(* after the UI event that called them, so the observer is up to date.   *)
(***************************************************************************)
Send(cmds) ==
    /\ Len(outbox) + Len(cmds) <= MaxInFlight
    /\ outbox' = outbox \o cmds

UIStep == stale' = FALSE

\* The user ticks or clears the checkbox of an address.
SelectAddress(a) ==
    /\ a \in Present
    /\ address_index' = [address_index EXCEPT ![a].selected = ~@]
    /\ UIStep
    /\ UNCHANGED <<connection_index, users, address_types, address_space_type,
                   admin_disabled, reasons, links, server>>

\* delete_selected(): send delete_address for every selected address and
\* remove it from the index; report address_deleted once.
DeleteSelected ==
    LET sel == {a \in Present : address_index[a].selected} IN
    /\ sel # {}
    /\ Send(SetToSeq({Msg("delete_address", a) : a \in sel}))
    /\ address_index' = [a \in Addresses |-> IF a \in sel THEN NoEntry ELSE address_index[a]]
    /\ Notify("address_deleted")
    /\ UIStep
    /\ UNCHANGED <<connection_index, users, address_types, address_space_type,
                   admin_disabled, inbox, reconnects, server>>

\* is_unique_valid_name(name): no address under the name, and the name is
\* one or more characters none of which is reserved.
IsUniqueValidName(n) ==
    /\ n \in Addresses => address_index[n] = NoEntry
    /\ NameChars[n] # {}
    /\ NameChars[n] \cap Reserved = {}

\* create_address(obj), from the dialog whose name field is validated with
\* is_unique_valid_name.
CreateAddress(n) ==
    /\ IsUniqueValidName(n)
    /\ Send(<<Msg("create_address", n)>>)
    /\ UIStep
    /\ UNCHANGED <<client, reasons, inbox, reconnects, server>>

(***************************************************************************)
(* The catalog lookups (lines 175-202).  They read address_types and      *)
(* change nothing; the console shows their results in the create-address *)
(* dialog and the address list.                                           *)
(***************************************************************************)
\* address_types as a list: the initial [] or the entries of a catalog.
TypeList == IF address_types = NoCatalog THEN <<>> ELSE CatalogEntries[address_types]

\* list.filter(by_name(name)).
ByName(list, name) == SelectSeq(list, LAMBDA o : o.name = name)

\* Mutation: the plan filter is left out and the type's first plan taken.
GetPlanDisplayNameFirstPlan(type, plan) ==
    LET t == ByName(TypeList, type) IN
    IF t # <<>> /\ t[1].plans # <<>> THEN t[1].plans[1].displayName ELSE plan

\* get_plan_display_name(type, plan): the displayName of the plan of the
\* first type of that name, else the plan name itself.
GetPlanDisplayName(type, plan) ==
    LET t == ByName(TypeList, type)
        p == IF t # <<>> THEN ByName(t[1].plans, plan) ELSE <<>>
    IN  IF p # <<>> THEN p[1].displayName ELSE plan

\* get_valid_plans(type): the plans of the first type of that name, or [].
GetValidPlans(type) ==
    LET l == ByName(TypeList, type) IN
    IF l # <<>> THEN l[1].plans ELSE <<>>

SelectUser(i) ==
    /\ i \in 1..Len(users)
    /\ users' = [users EXCEPT ![i].selected = ~@]
    /\ UIStep
    /\ UNCHANGED <<address_index, connection_index, address_types, address_space_type,
                   admin_disabled, reasons, links, server>>

\* delete_selected_users(): send delete_user with the name of every
\* selected user, in order, and splice it out.  No callback.
DeleteSelectedUsers ==
    LET sel == SelectSeq(users, LAMBDA u : u.selected) IN
    /\ sel # <<>>
    /\ Send([i \in 1..Len(sel) |-> Msg("delete_user", sel[i].name)])
    /\ users' = SelectSeq(users, LAMBDA u : ~u.selected)
    /\ UIStep
    /\ UNCHANGED <<address_index, connection_index, address_types, address_space_type,
                   admin_disabled, reasons, inbox, reconnects, server>>

CreateUser(u) ==
    /\ Send(<<Msg("create_user", u)>>)
    /\ UIStep
    /\ UNCHANGED <<client, reasons, inbox, reconnects, server>>

\* The coalesced flush (Notifier's Flush): the observer is called for every
\* pending reason and re-reads the service.
Flush ==
    /\ reasons # {}
    /\ reasons' = {}
    /\ stale' = FALSE
    /\ UNCHANGED <<client, links, server>>

(***************************************************************************)
(* The agent (environment).  It sends a message on every change of its   *)
(* state and executes the commands in the order they arrive.             *)
(***************************************************************************)
SrvSend(msgs) ==
    /\ Len(inbox) + Len(msgs) <= MaxInFlight
    /\ inbox' = inbox \o msgs

\* Messages flow through an address: its counters grow.
SrvTraffic(a) ==
    /\ srvAddr[a].live
    /\ \E s \in [live : {TRUE}, in : 0..MaxCount, ack : 0..MaxCount, killed : 0..MaxCount] :
         /\ s.in >= srvAddr[a].in /\ s.ack >= srvAddr[a].ack /\ s.killed >= srvAddr[a].killed
         /\ s.ack + s.killed <= s.in
         /\ s # srvAddr[a]
         /\ srvAddr' = [srvAddr EXCEPT ![a] = s]
         /\ SrvSend(<<Msg("address", AddressBody(a, s))>>)
    /\ UNCHANGED <<client, notifier, outbox, reconnects, srvConn, srvUser, srvCatalog,
                   srvSpaceType, srvAdminDisabled>>

\* The broker holding the address restarts: its counters start again at 0.
SrvRestart(a) ==
    LET s == [live |-> TRUE, in |-> 0, ack |-> 0, killed |-> 0] IN
    /\ srvAddr[a].live
    /\ srvAddr[a] # s
    /\ srvAddr' = [srvAddr EXCEPT ![a] = s]
    /\ SrvSend(<<Msg("address", AddressBody(a, s))>>)
    /\ UNCHANGED <<client, notifier, outbox, reconnects, srvConn, srvUser, srvCatalog,
                   srvSpaceType, srvAdminDisabled>>

Command(subject) ==
    /\ outbox # <<>>
    /\ Head(outbox).subject = subject
    /\ outbox' = Tail(outbox)

SrvCreateAddress ==
    /\ Command("create_address")
    /\ LET n == Head(outbox).body
           s == [live |-> TRUE, in |-> 0, ack |-> 0, killed |-> 0]
       IN  IF n \in Addresses /\ ~srvAddr[n].live
             THEN /\ srvAddr' = [srvAddr EXCEPT ![n] = s]
                  /\ SrvSend(<<Msg("address", AddressBody(n, s))>>)
             ELSE UNCHANGED <<srvAddr, inbox>>
    /\ UNCHANGED <<client, notifier, reconnects, srvConn, srvUser, srvCatalog,
                   srvSpaceType, srvAdminDisabled>>

SrvDeleteAddress ==
    /\ Command("delete_address")
    /\ LET a == Head(outbox).body IN
       IF srvAddr[a].live
         THEN /\ srvAddr' = [srvAddr EXCEPT ![a] = [live |-> FALSE, in |-> 0, ack |-> 0, killed |-> 0]]
              /\ SrvSend(<<Msg("address_deleted", a)>>)
         ELSE UNCHANGED <<srvAddr, inbox>>
    /\ UNCHANGED <<client, notifier, reconnects, srvConn, srvUser, srvCatalog,
                   srvSpaceType, srvAdminDisabled>>

SrvCreateUser ==
    /\ Command("create_user")
    /\ LET u == Head(outbox).body IN
       IF ~srvUser[u].live
         THEN /\ srvUser' = [srvUser EXCEPT ![u] = [live |-> TRUE, rev |-> 0]]
              /\ SrvSend(<<Msg("user", UserBody(u, 0))>>)
         ELSE UNCHANGED <<srvUser, inbox>>
    /\ UNCHANGED <<client, notifier, reconnects, srvAddr, srvConn, srvCatalog,
                   srvSpaceType, srvAdminDisabled>>

SrvDeleteUser ==
    /\ Command("delete_user")
    /\ LET u == Head(outbox).body IN
       IF srvUser[u].live
         THEN /\ srvUser' = [srvUser EXCEPT ![u].live = FALSE]
              /\ SrvSend(<<Msg("user_deleted", UserId[u])>>)
         ELSE UNCHANGED <<srvUser, inbox>>
    /\ UNCHANGED <<client, notifier, reconnects, srvAddr, srvConn, srvCatalog,
                   srvSpaceType, srvAdminDisabled>>

\* A user's record changes (e.g. a new password).
SrvUpdateUser(u) ==
    /\ srvUser[u].live
    /\ srvUser' = [srvUser EXCEPT ![u].rev = 1 - @]
    /\ SrvSend(<<Msg("user", UserBody(u, srvUser'[u].rev))>>)
    /\ UNCHANGED <<client, notifier, outbox, reconnects, srvAddr, srvConn, srvCatalog,
                   srvSpaceType, srvAdminDisabled>>

\* A client connects, its connection changes, or it disconnects.
SrvOpenConnection(c) ==
    /\ ~srvConn[c].live
    /\ srvConn' = [srvConn EXCEPT ![c] = [live |-> TRUE, rev |-> 0]]
    /\ SrvSend(<<Msg("connection", ConnBody(c, 0))>>)
    /\ UNCHANGED <<client, notifier, outbox, reconnects, srvAddr, srvUser, srvCatalog,
                   srvSpaceType, srvAdminDisabled>>

SrvUpdateConnection(c) ==
    /\ srvConn[c].live
    /\ srvConn' = [srvConn EXCEPT ![c].rev = 1 - @]
    /\ SrvSend(<<Msg("connection", ConnBody(c, srvConn'[c].rev))>>)
    /\ UNCHANGED <<client, notifier, outbox, reconnects, srvAddr, srvUser, srvCatalog,
                   srvSpaceType, srvAdminDisabled>>

SrvCloseConnection(c) ==
    /\ srvConn[c].live
    /\ srvConn' = [srvConn EXCEPT ![c].live = FALSE]
    /\ SrvSend(<<Msg("connection_deleted", c)>>)
    /\ UNCHANGED <<client, notifier, outbox, reconnects, srvAddr, srvUser, srvCatalog,
                   srvSpaceType, srvAdminDisabled>>

\* The agent publishes a new catalog; when PropsMayBeAbsent the message
\* may come without application_properties.
SrvPublishCatalog ==
    /\ \E cat \in Catalogs \ {srvCatalog}, withProps \in IF PropsMayBeAbsent THEN BOOLEAN ELSE {TRUE} :
         /\ srvCatalog' = cat
         /\ SrvSend(<<[subject |-> "address_types", body |-> cat,
                       props |-> IF withProps
                                   THEN [address_space_type |-> srvSpaceType,
                                         disable_admin |-> srvAdminDisabled]
                                   ELSE Undefined]>>)
    /\ UNCHANGED <<client, notifier, outbox, reconnects, srvAddr, srvConn, srvUser,
                   srvSpaceType, srvAdminDisabled>>

\* The websocket drops and rhea reconnects: what was in flight is lost.
Reconnect ==
    /\ reconnects < MaxReconnects
    /\ reconnects' = reconnects + 1
    /\ inbox' = <<>>
    /\ outbox' = <<>>
    /\ UNCHANGED <<client, notifier, server>>

(***************************************************************************)
(* The specification.                                                      *)
(***************************************************************************)
OnMessage ==
    \/ OnAddress \/ OnAddressDeleted \/ OnAddressTypes
    \/ OnConnection \/ OnConnectionDeleted \/ OnUser \/ OnUserDeleted

UI ==
    \/ \E a \in Addresses : SelectAddress(a)
    \/ DeleteSelected
    \/ \E n \in NewNames : CreateAddress(n)
    \/ \E i \in 1..Len(users) : SelectUser(i)
    \/ DeleteSelectedUsers
    \/ \E u \in UserNames : CreateUser(u)

Agent ==
    \/ \E a \in Addresses : SrvTraffic(a) \/ SrvRestart(a)
    \/ SrvCreateAddress \/ SrvDeleteAddress \/ SrvCreateUser \/ SrvDeleteUser
    \/ \E u \in UserNames : SrvUpdateUser(u)
    \/ \E c \in Connections : SrvOpenConnection(c) \/ SrvUpdateConnection(c) \/ SrvCloseConnection(c)
    \/ SrvPublishCatalog

Next ==
    \/ OnMessage
    \/ PeriodicDeltasTimer \/ DepthSeriesTimer
    \/ Flush
    \/ UI
    \/ Agent
    \/ Reconnect

\* The event loop delivers every message and runs every due timer; the
\* agent executes the commands it receives.  Executing a command waits
\* only for room on the bounded inbox, which the agent's own changes may
\* keep filling; the real link has no such bound, so the command gets
\* strong fairness.  The user and the agent's own changes get none.
Fairness ==
    /\ WF_vars(OnMessage)
    /\ WF_vars(Flush)
    /\ SF_vars(SrvCreateAddress \/ SrvDeleteAddress \/ SrvCreateUser \/ SrvDeleteUser)

Spec == Init /\ [][Next]_vars /\ Fairness

(***************************************************************************)
(* Properties.                                                             *)
(***************************************************************************)
Entity == [type : {"queue", "topic", "subscription"}, messages_in : Counter,
           messages_out : Counter, depth : Counter, selected : BOOLEAN,
           series : [samples : Seq([time : {0}, value : Int]), last : Int \cup {Undefined}],
           rates : [{"messages_in", "messages_out"} ->
                      [last : Counter, deltas : [0..(Window - 1) -> Int], current : 0..(Window - 1)]]]

TypeOK ==
    /\ address_index \in [Addresses -> Entity \cup {NoEntry}]
    /\ connection_index \in [Connections -> [id : Connections, rev : 0..1] \cup {NoEntry}]
    /\ users \in Seq([name : UserNames, id : Range(UserId), rev : 0..1, selected : BOOLEAN])
    /\ address_types \in Catalogs \cup {NoCatalog}
    /\ reasons \subseteq {"address_added", "address_updated", "address_deleted", "address_types",
                          "connection_added", "connection_updated", "connection_deleted",
                          "user", "user:deleted", "update_depth_series", "reset_periodic_deltas"}
    /\ stale \in BOOLEAN
    /\ reconnects \in 0..MaxReconnects

\* No silent change: whenever on_message or a timer has changed what the
\* observer reads since it last re-read it, a reason is pending, so the
\* coalesced flush will call the observer.  A handler that changes the
\* index without calling callback() breaks this.
ObserverCoverage == stale => reasons # {}

\* When nothing is in flight on either link, the console's copy agrees with
\* the agent: the same addresses with the agent's type and counters (for a
\* subscription the counters derived from its shard), the same open
\* connections, one record for every user the agent has, and the same
\* catalog.  Deletions made locally by delete_selected and updates racing
\* them must all have settled.  This holds only until the first connection
\* loss: the code never resynchronises (spec section 5).
Quiescent == inbox = <<>> /\ outbox = <<>> /\ reconnects = 0

AddressAgrees(a) ==
    IF srvAddr[a].live
      THEN /\ address_index[a] # NoEntry
           /\ address_index[a].type = AddrType[a]
           /\ address_index[a].messages_in = srvAddr[a].in
           /\ address_index[a].messages_out = srvAddr[a].ack + srvAddr[a].killed
      ELSE address_index[a] = NoEntry

ConnectionAgrees(c) ==
    IF srvConn[c].live THEN connection_index[c] = ConnBody(c, srvConn[c].rev)
                       ELSE connection_index[c] = NoEntry

QuiescentAgreement ==
    Quiescent =>
      /\ \A a \in Addresses : AddressAgrees(a)
      /\ \A c \in Connections : ConnectionAgrees(c)
      /\ \A u \in UserNames :
           Cardinality({i \in 1..Len(users) : users[i].name = u}) = IF srvUser[u].live THEN 1 ELSE 0
      /\ \A i \in 1..Len(users) : users[i].rev = srvUser[users[i].name].rev
      /\ address_types = srvCatalog

\* Eventual agreement: however the agent's counters, the operator's
\* deletes and re-creations and the agent's replies interleave, every
\* address and every connection returns to agreeing with the agent again
\* and again, given that the event loop delivers messages and the agent
\* executes commands.  A handler or a command that loses a deletion or an
\* update leaves the console wrong for good, since nothing is resent
\* (spec section 5).
AlwaysEventuallyAgrees ==
    /\ \A a \in Addresses : []<>AddressAgrees(a)
    /\ \A c \in Connections : []<>ConnectionAgrees(c)

\* update_user finds a user by name before it appends, so however messages
\* are lost, duplicated by a re-creation or raced by delete_selected_users,
\* no name appears twice in the user list.
UserNamesUnique ==
    \A i, j \in 1..Len(users) : users[i].name = users[j].name => i = j

\* The operator's selection of users changes only by the operator's clicks:
\* after any other step, a user who was selected and is still listed is
\* still selected, so delete_selected_users deletes whom the operator
\* chose.  update_user (line 276) replaces the record with the agent's
\* copy, which has no selected flag.
\* Section 4.5 of the spec, as a reference: the plan list of the type of
\* that name in the catalog held, empty if there is none, and the display
\* label of the plan of that name in it, else the plan name unchanged.
RefValidPlans(type) ==
    LET es == {e \in ToSet(TypeList) : e.name = type} IN
    IF es = {} THEN <<>> ELSE (CHOOSE e \in es : TRUE).plans

RefPlanDisplayName(type, plan) ==
    LET ps == {q \in ToSet(RefValidPlans(type)) : q.name = plan} IN
    IF ps = {} THEN plan ELSE (CHOOSE q \in ps : TRUE).displayName

\* Every entry of every catalog the agent may publish.
AllEntries == UNION {ToSet(CatalogEntries[c]) : c \in Catalogs}

\* Whatever catalog the console holds (none yet, or the one the latest
\* address_types message carried), the create dialog's plan list and the
\* plan names shown for addresses follow section 4.5, for the types and
\* plans of every catalog: a type or plan missing from the catalog held
\* falls back to [] and to the raw plan name.
CatalogLookupsAgree ==
    \A type \in {e.name : e \in AllEntries} \cup {"subscription"} :
        /\ GetValidPlans(type) = RefValidPlans(type)
        /\ \A plan \in UNION {{q.name : q \in ToSet(e.plans)} : e \in AllEntries} :
               GetPlanDisplayName(type, plan) = RefPlanDisplayName(type, plan)

SelectedUsers == {users[i].name : i \in {j \in 1..Len(users) : users[j].selected}}

SelectionKept ==
    [][~(\E i \in 1..Len(users) : SelectUser(i)) =>
         SelectedUsers \cap {u.name : u \in ToSet(users')} \subseteq SelectedUsers']_vars

=============================================================================
