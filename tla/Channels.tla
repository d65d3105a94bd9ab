------------------------------ MODULE Channels -------------------------------
(***************************************************************************)
(* Notification channels: the endpoints of src/src/casework.js that add,    *)
(* change, remove and test a channel, and emit, test and record of          *)
(* src/src/notify.js.  All channels are one list in one row of the          *)
(* configuration: every writer reads the list and saves it whole.           *)
(***************************************************************************)
EXTENDS Requests, Functions

CONSTANTS
  ChannelIds,    \* ids of channels (a bound)
  EVENTS,        \* what a channel can subscribe to
  Patchable,     \* the events PATCH knows
  MAX_CHANNELS

List == "notifyChannels"

ASSUME ChannelsAssumption ==
  /\ None \notin ChannelIds \cup {List}
  /\ Patchable \subseteq EVENTS
  /\ MAX_CHANNELS \in Nat

VARIABLES
  channels,    \* config.notifyChannels: id -> [enabled, events, last]
  drawn,       \* history: ids drawn so far; an id is random and never drawn again
  removed      \* history: channels an admin has removed

channelVars == <<channels, drawn, removed, requestVars>>

SaveList(list, gone) == Job("save", List, [list |-> list, gone |-> gone])
Subscribed(ev) == {c \in DOMAIN channels : channels[c].enabled /\ ev \in channels[c].events}

\* Every request starts by reading the list.
StartAdd(w) ==
  /\ Idle(w)
  /\ Cardinality(DOMAIN channels) < MAX_CHANNELS
  /\ \E c \in ChannelIds \ drawn, evs \in (SUBSET EVENTS) \ {{}} :
       /\ drawn' = drawn \cup {c}
       /\ Continue(w, SaveList(Patched(channels, [x \in {c} |-> [enabled |-> TRUE, events |-> evs, last |-> None]]), {}))
  /\ UNCHANGED <<channels, removed>>

StartPatch(w) ==
  /\ Idle(w)
  /\ \E c \in DOMAIN channels :
       \/ \E b \in BOOLEAN : Continue(w, SaveList([channels EXCEPT ![c].enabled = b], {}))
       \/ \E evs \in SUBSET EVENTS : evs \cap Patchable # {}
             /\ Continue(w, SaveList([channels EXCEPT ![c].events = evs \cap Patchable], {}))
  /\ UNCHANGED <<channels, drawn, removed>>

StartRemove(w) ==
  /\ Idle(w)
  /\ \E c \in DOMAIN channels :
       Continue(w, SaveList(Restrict(channels, DOMAIN channels \ {c}), {c}))
  /\ UNCHANGED <<channels, drawn, removed>>

\* saveChannels replaces the list.
SaveChannels(w) ==
  /\ At(w, "save")
  /\ channels' = job[w].list
  /\ removed' = removed \cup job[w].gone
  /\ Done(w)
  /\ UNCHANGED drawn

\* emit picks the channels of the event, test a given one ...
StartDeliver(w) ==
  /\ Idle(w)
  /\ \/ \E ev \in EVENTS : Subscribed(ev) # {} /\ Continue(w, Job("deliver", None, [to |-> Subscribed(ev)]))
     \/ \E c \in DOMAIN channels : Continue(w, Job("deliver", None, [to |-> {c}]))
  /\ UNCHANGED <<channels, drawn, removed>>

\* ... each channel answers or times out ...
Deliver(w) ==
  /\ At(w, "deliver")
  /\ \E r \in [job[w].to -> BOOLEAN] : Continue(w, Job("record", None, [results |-> r]))
  /\ UNCHANGED <<channels, drawn, removed>>

\* Seeded fault: a row that is not in the list is put back.
Record_Upserts(w) ==
  LET r == job[w].results IN
  /\ At(w, "record")
  /\ Continue(w, SaveList([c \in DOMAIN channels \cup DOMAIN r |->
       [enabled |-> TRUE, events |-> EVENTS, last |-> IF c \in DOMAIN r THEN r[c] ELSE None]], {}))
  /\ UNCHANGED <<channels, drawn, removed>>

\* ... and record reads the list again, sets `last` on the rows still in it, and saves it.
Record(w) ==
  LET r == job[w].results IN
  /\ At(w, "record")
  /\ Continue(w, SaveList([c \in DOMAIN channels |->
       IF c \in DOMAIN r THEN [channels[c] EXCEPT !.last = r[c]] ELSE channels[c]], {}))
  /\ UNCHANGED <<channels, drawn, removed>>

ChannelsInit == channels = <<>> /\ drawn = {} /\ removed = {}

ChannelsNext ==
  \E w \in Workers :
    \/ StartAdd(w) \/ StartPatch(w) \/ StartRemove(w) \/ StartDeliver(w) \/ Deliver(w)
    \/ Record(w) \/ SaveChannels(w)

ChannelsSpec == RequestsInit /\ ChannelsInit /\ [][ChannelsNext]_channelVars

-----------------------------------------------------------------------------
Channel == [enabled : BOOLEAN, events : (SUBSET EVENTS) \ {{}}, last : BOOLEAN \cup {None}]

ListOK(list) ==
  /\ \A c \in DOMAIN list : list[c] \in Channel
  \* The length that was checked is that of the list that is saved.
  /\ IsFiniteSet(DOMAIN list) /\ Cardinality(DOMAIN list) =< MAX_CHANNELS

ChannelsTypeOK ==
  /\ drawn \subseteq ChannelIds /\ removed \cup DOMAIN channels \subseteq drawn
  /\ ListOK(channels)

\* However long a delivery takes, recording its outcome does not bring back a channel removed meanwhile
\* (record, lines 201-210), unless two requests read the list before either saved it.
RemovedStaysRemoved == List \notin crowded => removed \cap DOMAIN channels = {}
=============================================================================
