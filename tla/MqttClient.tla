------------------------------ MODULE MqttClient ------------------------------
(***************************************************************************)
(* The daemon's native MQTT client (src/src/sip_media/mqtt.c) and the      *)
(* broker it talks to.  One thread connects, subscribes, announces the     *)
(* device, republishes the cached state and then serves commands; every    *)
(* other thread of the daemon publishes through the same socket.           *)
(*                                                                         *)
(*  - A topic is the suffix the code appends to base_topic; Base is the    *)
(*    availability topic itself.  Items are the state topics a run keeps,  *)
(*    Commands the command topics a run sends on.                          *)
(*  - A packet is written whole under io_mutex, so a publish is one step   *)
(*    at the broker; what a thread read before it took the mutex is not.   *)
(*  - The broker (external) keeps retained values, the will, the           *)
(*    subscriptions, and sends retained commands after SUBACK.             *)
(*  - A publisher that found the client connected writes its packet before *)
(*    the thread has slept its 5 or 30 seconds (PublisherIsQuick).         *)
(***************************************************************************)
EXTENDS Integers, Sequences

CONSTANTS Items,        \* state topics with a cache that the run follows
          Commands,     \* command topics the run sends on
          MaxChanges,   \* bound: changes of state by the daemon's threads
          MaxFaults,    \* bound: broken connections, refused sessions, crashes
          MaxPress,     \* bound: messages sent on command topics
          FirmwareEnabled,
          CheckResults  \* subset of {"failed", "newer", "current"}: what an update check may answer

None == "none"
Base == "base"
Install == "firmware/update/install/availability"
RebootOffer == "system/reboot/availability"

-----------------------------------------------------------------------------
(* Home Assistant discovery: what each config message advertises.          *)

Entity(id, state, command, availability) ==
  [id |-> id, state |-> state, command |-> command,
   availability |-> availability]

Sensor(id, state) == Entity(id, state, None, Base)
Button(id, topic) == Entity(id, None, topic \o "/set", Base)
Gated(id, topic) == Entity(id, None, topic \o "/set", topic \o "/availability")
Setting(id, topic) == Entity(id, topic, topic \o "/set", Base)

EventEntities ==
  { Sensor("uart_event", "uart/event"), Sensor("call_event", "call/event") }

OutgoingCallEntities ==
  { Entity("outgoing_call_target", "call/target_uri", "call/target_uri/set",
           "call/outgoing_config/availability"),
    Setting("outgoing_call_timeout", "call/timeout_seconds") }

ButtonEntities ==
  { Button("open_door", "door/open"), Button("f1_function", "f1/trigger"),
    Gated("reboot_device", "system/reboot") }

DeveloperEntities ==
  { Gated("developer_simulate_ding", "developer/simulate_ding"),
    Gated("developer_simulate_handset_answered",
          "developer/simulate_handset_answered"),
    Setting("developer_mode", "developer/mode") }

SnapshotEntities ==
  { Gated("take_snapshot", "snapshot/take"), Sensor("snapshot", "snapshot/image") }

FirmwareEntities ==
  { Gated("firmware_update_install", "firmware/update/install"),
    Button("firmware_update_refresh", "firmware/update/check"),
    Sensor("firmware_update_available", "firmware/update/available"),
    Sensor("firmware_update_version", "firmware/update/version") }

SwitchEntities ==
  { Setting("video_enabled", "video/enabled"),
    Setting("daily_reboot", "maintenance/daily_reboot"),
    Setting("rtsp_enabled", "rtsp/enabled"),
    Setting("sip_outgoing_call_enabled", "call/outgoing_enabled"),
    Setting("hangup_on_door_unlock", "call/hangup_on_door_unlock") }

PanelEntities ==
  { Sensor("health", "health/state"),
    Setting("call_forward_enabled", "call_forward/enabled"),
    Sensor("door_unlocked", "door/unlocked") }

NumberEntities ==
  { Setting("video_bitrate", "video/bitrate_kbps"),
    Setting("ring_snapshot_delay", "snapshot/ring_delay_ms"),
    Setting("vds_address", "vds/address"),
    Setting("daily_reboot_hour", "maintenance/daily_reboot_hour") }

SensorEntities ==
  { Sensor("media_state", "media/state"), Sensor("call_id", "call/id"),
    Sensor("firmware_version", "firmware/version"),
    Sensor("firmware_commit", "firmware/commit"),
    Sensor("firmware_build_timestamp", "firmware/build_timestamp"),
    Sensor("wifi_rssi", "wifi/rssi"), Sensor("health_detail", "health/detail") }

\* Entities of earlier releases, whose retained configs must go.
LegacyEntities ==
  { Sensor("ringing", None), Sensor("call_active", "call/active"),
    Sensor("sip_call_active", "sip/active"),
    Sensor("video_active", "video/active"), Sensor("last_ring", "ringing/last"),
    Sensor("last_unlock", "door/last_unlock"),
    Sensor("snapshot_status", "snapshot/status"),
    Sensor("last_uart_event", "uart/last") }

AlwaysOffered ==
  EventEntities \cup OutgoingCallEntities \cup ButtonEntities
    \cup DeveloperEntities \cup SnapshotEntities \cup SwitchEntities
    \cup PanelEntities \cup NumberEntities \cup SensorEntities

\* The broker's retained configs, by the lists above.
ConfigLists == [always |-> AlwaysOffered, firmware |-> FirmwareEntities,
                legacy |-> LegacyEntities]
Current == {"always"} \cup (IF FirmwareEnabled THEN {"firmware"} ELSE {})

\* mqtt_publish_discovery on top of what the broker retained before.
Discovered(lists) == (lists \ {"legacy", "firmware"}) \cup Current

\* The topics mqtt_subscribe_topics names.
Subscriptions ==
  { "door/open/set", "f1/trigger/set", "system/reboot/set",
    "developer/mode/set", "developer/simulate_ding/set",
    "developer/simulate_handset_answered/set", "snapshot/take/set",
    "snapshot/ring_delay_ms/set", "video/enabled/set", "rtsp/enabled/set",
    "video/bitrate_kbps/set", "call/outgoing_enabled/set",
    "call/target_uri/set", "call/timeout_seconds/set",
    "call_forward/enabled/set", "vds/address/set",
    "maintenance/daily_reboot/set", "maintenance/daily_reboot_hour/set",
    "firmware/update/install/set", "firmware/update/check/set", Base }

\* Commands that are ignored when the broker delivers them as retained.
Momentary ==
  { "door/open/set", "f1/trigger/set", "developer/simulate_ding/set",
    "developer/simulate_handset_answered/set", "developer/mode/set",
    "snapshot/take/set", "system/reboot/set", "firmware/update/install/set",
    "firmware/update/check/set" }

NeedDeveloperMode ==
  { "developer/simulate_ding/set", "developer/simulate_handset_answered/set" }

\* The cached values the thread publishes on each connection, in order.
RepublishOrder ==
  << "media/state", "call/id", "video/enabled", "rtsp/enabled",
     "video/bitrate_kbps", "call/outgoing_enabled",
     "call/hangup_on_door_unlock", "call/target_uri", "call/timeout_seconds",
     "snapshot/ring_delay_ms", "call_forward/enabled" >>

Republished == { RepublishOrder[n] : n \in DOMAIN RepublishOrder } \cap Items

\* The entries after entry n that the run follows, and the first of them.
Following(n) == { m \in DOMAIN RepublishOrder : m > n /\ RepublishOrder[m] \in Items }
Nearest(n) == { m \in Following(n) : \A k \in Following(n) : m <= k }

\* Those two are sent from the cache; the others go through their setter,
\* which writes the value it was given back to the cache.
WritesBack(item) == item \notin {"media/state", "call/id"}

SetsItem(c) == \E i \in Items : c = i \o "/set"
ItemOf(c) == CHOOSE i \in Items : c = i \o "/set"

\* State topics are none of the offers, and what sets one is no action.
ASSUME ItemsAssumption ==
  /\ Base \notin Items /\ Install \notin Items /\ RebootOffer \notin Items
  /\ \A i \in Items : i \o "/set" \notin Momentary \cup {Base}

-----------------------------------------------------------------------------
VARIABLES
  pc,          \* where mqtt_thread_func is
  step,        \* next entry of RepublishOrder
  held,        \* the value it read for that entry, or None
  running, connected,
  developerMode, rebootRequested, installing, updateAvailable,
  cache,       \* mqtt_state's copy of each item
  pub,         \* another thread inside mqtt_publish_*: its step, item, value
  link,        \* the TCP connection: "none", "up", "broken"
  session,     \* what the broker has of it: "none", "live"
  subscribed,  \* the broker forwards Subscriptions to the session
  stored,      \* what the broker retains on the command topic used, or None
  configs, retained,  \* the discovery and the state it retains
  inbox,       \* packets on their way to the client: <<command, retain>>
  topic,       \* the command topic used in this behaviour
  asked, done, \* messages sent on it, actions executed
  raced,       \* items changed while the thread held an older value
  changes, faults, restarts

clientVars == << pc, step, held, running, connected, developerMode,
                 rebootRequested, installing, updateAvailable, cache, pub >>
brokerVars == << link, session, subscribed, stored, configs, retained, inbox >>
ghostVars == << topic, asked, done, raced, changes, faults, restarts >>
mqttVars == << clientVars, brokerVars, ghostVars >>

Values == {"a", "b"}
NoPacket == [pc |-> "idle", item |-> None, value |-> None]

FreshClient ==
  /\ pc = "connect" /\ step = 1 /\ held = None
  /\ running = TRUE /\ connected = FALSE
  /\ developerMode = FALSE /\ rebootRequested = FALSE
  /\ installing = FALSE /\ updateAvailable = FALSE
  /\ cache = [i \in Items |-> "a"] /\ pub = NoPacket

MqttInit ==
  /\ FreshClient
  /\ link = "none" /\ session = "none" /\ subscribed = FALSE
  /\ topic \in Commands
  /\ stored \in {None} \cup (IF topic = Base THEN {} ELSE Values)
  /\ inbox = << >>
  /\ configs = {"legacy", "firmware"}
  /\ retained = [t \in Items \cup {Base, Install, RebootOffer} |-> None]
  /\ asked = 0 /\ done = 0 /\ raced = {}
  \* The daemon's own changes matter to a setting only.
  /\ changes = IF SetsItem(topic) THEN 0 ELSE MaxChanges
  /\ faults = 0 /\ restarts = 0

\* publish_suffix from the client's thread: lost unless connected and up.
Sends == connected /\ link = "up"
Publish(news) ==
  retained' = [t \in DOMAIN retained |->
                 IF Sends /\ t \in DOMAIN news THEN news[t] ELSE retained[t]]

Says(t, v) == [x \in {t} |-> v]
OnOff(b) == IF b THEN "online" ELSE "offline"
InstallOffer(available, busy) == Says(Install, OnOff(available /\ ~busy))

\* Mutant: CONNECT carries no will.
CutWithoutWill(l) == link' = l /\ session' = "none"

\* How the TCP connection ends for the broker: it may take a while to notice.
Cut(l) == /\ link' = l
          /\ session' = IF session = "live" THEN "stale" ELSE session

-----------------------------------------------------------------------------
(* mqtt_thread_func                                                        *)

Leave ==
  /\ pc = "connect" /\ ~running
  /\ pc' = "gone"
  /\ UNCHANGED << step, held, running, connected, developerMode,
                  rebootRequested, installing, updateAvailable, cache, pub,
                  brokerVars, ghostVars >>

PublisherIsQuick == pub = NoPacket

\* The loop goes round: mqtt_tcp_connect looks the broker up and connects,
\* which takes its time, and mqtt_state.sock is -1 until it returns.
Dial ==
  /\ pc = "connect" /\ running /\ PublisherIsQuick
  /\ pc' = "dial"
  /\ UNCHANGED << step, held, running, connected, developerMode,
                  rebootRequested, installing, updateAvailable, cache, pub,
                  brokerVars, ghostVars >>

\* mqtt_connect_session has the connection and sends CONNECT.
TcpConnect ==
  /\ pc = "dial"
  /\ pc' = "connack" /\ link' = "up"
  /\ UNCHANGED << step, held, running, connected, developerMode,
                  rebootRequested, installing, updateAvailable, cache, pub,
                  session, subscribed, stored, configs, retained, inbox,
                  ghostVars >>

\* Mutant: the thread returns on the first failure.
SessionFailsForGood ==
  /\ pc \in {"dial", "connack", "suback"}
  /\ \/ link = "broken" /\ UNCHANGED faults
     \/ faults < MaxFaults /\ faults' = faults + 1
  /\ Cut("none")
  /\ pc' = "gone" /\ connected' = FALSE
  /\ UNCHANGED << step, held, running, developerMode, rebootRequested,
                  installing, updateAvailable, cache, pub, subscribed, stored,
                  configs, retained, inbox, topic, asked, done, raced,
                  changes, restarts >>

\* No connection, CONNACK or SUBSCRIBE refused, or the connection is lost; then
\* the 30 seconds of sleep.
SessionFails ==
  /\ pc \in {"dial", "connack", "suback"}
  /\ \/ link = "broken" /\ UNCHANGED faults
     \/ faults < MaxFaults /\ faults' = faults + 1
  /\ Cut("none")
  /\ pc' = "connect" /\ connected' = FALSE
  /\ UNCHANGED << step, held, running, developerMode, rebootRequested,
                  installing, updateAvailable, cache, pub, subscribed, stored,
                  configs, retained, inbox, topic, asked, done, raced,
                  changes, restarts >>

\* Mutant: connected is set on CONNACK and nothing is subscribed to.
SessionAcceptedOnly ==
  /\ pc = "connack" /\ link = "up"
  /\ session' = "live" /\ subscribed' = FALSE /\ inbox' = << >>
  /\ connected' = TRUE /\ pc' = "announce" /\ step' = 1
  /\ UNCHANGED << held, running, developerMode, rebootRequested, installing,
                  updateAvailable, cache, pub, link, stored, configs, retained,
                  ghostVars >>

\* The broker accepts the session; if it still holds the one before, it ends
\* that one first, which publishes its will.  The client sends SUBSCRIBE.
SessionAccepted ==
  /\ pc = "connack" /\ link = "up"
  /\ retained' = IF session = "stale"
                 THEN [retained EXCEPT ![Base] = "offline"] ELSE retained
  /\ session' = "live" /\ subscribed' = FALSE /\ inbox' = << >>
  /\ pc' = "suback"
  /\ UNCHANGED << step, held, running, connected, developerMode,
                  rebootRequested, installing, updateAvailable, cache, pub,
                  link, stored, configs, ghostVars >>

\* SUBACK, followed by what the broker retained on the command topics.
Subscribed ==
  /\ pc = "suback" /\ link = "up"
  /\ subscribed' = TRUE
  /\ inbox' = IF stored = None THEN << >> ELSE << << topic, stored, TRUE >> >>
  /\ connected' = TRUE
  /\ pc' = "announce" /\ step' = 1 /\ held' = None
  /\ UNCHANGED << running, developerMode, rebootRequested, installing,
                  updateAvailable, cache, pub, link, session, stored, configs,
                  retained, ghostVars >>

\* The result of "firmware_update --status": nothing, or an answer.
Results == IF FirmwareEnabled THEN CheckResults ELSE {"failed"}

\* Mutant: the cached values are not sent again.
AnnounceOnly ==
  /\ pc = "announce"
  /\ configs' = IF Sends THEN Discovered(configs) ELSE configs
  /\ Publish(Says(Base, "online"))
  /\ developerMode' = FALSE /\ pc' = "serve"
  /\ UNCHANGED << step, held, running, connected, rebootRequested, installing,
                  updateAvailable, cache, pub, link, session, subscribed,
                  stored, inbox, ghostVars >>

\* On to the next cached value, or to the serving loop.
GoOnAfter(n) ==
  IF Following(n) = {} THEN pc' = "serve" /\ UNCHANGED step
  ELSE pc' = "republish" /\ step' \in Nearest(n)

\* What is announced besides: the installation only after a check that answers.
Offers(r) == {Base, RebootOffer} \cup (IF r = "failed" THEN {} ELSE {Install})

\* Discovery, availability, the first update check and the states that have
\* no cache of their own.
Announce ==
  /\ pc = "announce"
  /\ configs' = IF Sends THEN Discovered(configs) ELSE configs
  /\ \E r \in Results :
       /\ updateAvailable' = IF r = "failed" THEN updateAvailable ELSE r = "newer"
       /\ Publish([t \in Offers(r) |->
                     IF t = Base THEN "online"
                     ELSE IF t = RebootOffer THEN OnOff(~rebootRequested)
                     ELSE OnOff(r = "newer" /\ ~installing)])
  /\ developerMode' = FALSE
  /\ GoOnAfter(0)
  /\ UNCHANGED << held, running, connected, rebootRequested, installing,
                  cache, pub, link, session, subscribed, stored, inbox,
                  ghostVars >>

RepublishRead ==
  /\ pc = "republish" /\ held = None
  /\ held' = cache[RepublishOrder[step]]
  /\ UNCHANGED << pc, step, running, connected, developerMode, rebootRequested,
                  installing, updateAvailable, cache, pub, brokerVars, ghostVars >>

RepublishSend ==
  LET item == RepublishOrder[step] IN
  /\ pc = "republish" /\ held # None
  /\ cache' = IF WritesBack(item) THEN [cache EXCEPT ![item] = held] ELSE cache
  /\ Publish(Says(item, held))
  /\ raced' = IF held = cache[item] THEN raced \ {item} ELSE raced \cup {item}
  /\ held' = None /\ GoOnAfter(step)
  /\ UNCHANGED << running, connected, developerMode, rebootRequested,
                  installing, updateAvailable, pub, link, session, subscribed,
                  stored, configs, inbox, topic, asked, done, changes, faults,
                  restarts >>

\* The daily tick of the serving loop.
DailyCheck ==
  /\ pc = "serve" /\ running /\ connected
  /\ \E r \in Results \ {"failed"} :
       /\ updateAvailable' = (r = "newer")
       /\ Publish(InstallOffer(r = "newer", installing))
  /\ UNCHANGED << pc, step, held, running, connected, developerMode,
                  rebootRequested, installing, cache, pub, link, session,
                  subscribed, stored, configs, inbox, ghostVars >>

\* A read or a ping finds the connection gone, or the daemon is stopping.
Close ==
  /\ pc = "serve" /\ (link # "up" \/ ~running)
  /\ Cut("none") /\ inbox' = << >>
  /\ connected' = FALSE /\ pc' = "connect"
  /\ UNCHANGED << step, held, running, developerMode, rebootRequested,
                  installing, updateAvailable, cache, pub, subscribed, stored,
                  configs, retained, ghostVars >>


-----------------------------------------------------------------------------
(* handle_mqtt_message: one branch per command topic                       *)

\* process_once takes the next packet; the serving thread still runs after
\* the connection broke if it already has the bytes.
Arrives(c, v, retain) ==
  /\ pc = "serve" /\ running /\ inbox # << >>
  /\ Head(inbox) = << c, v, retain >>
  /\ inbox' = Tail(inbox)
  /\ UNCHANGED << pc, step, held, running, connected, updateAvailable, pub,
                  link, session, subscribed, stored, topic, asked,
                  changes, faults, restarts >>
  /\ c # Base => UNCHANGED configs

Obeyed(c) == done' = IF c = topic THEN done + 1 ELSE done

Ignore(c, v, retain) ==
  /\ Arrives(c, v, retain)
  /\ c \in Momentary
  /\ \/ retain
     \/ c \in NeedDeveloperMode /\ ~developerMode
     \/ c = "system/reboot/set" /\ rebootRequested
     \/ c \in {"firmware/update/install/set", "firmware/update/check/set"}
          /\ (installing \/ ~FirmwareEnabled)
  /\ UNCHANGED << developerMode, rebootRequested, installing, cache, retained,
                  done, raced >>

\* Mutant: a retained message is obeyed like any other.
RunActionRetained(c, v, retain) ==
  /\ Arrives(c, v, retain)
  /\ c \in {"door/open/set", "f1/trigger/set", "snapshot/take/set"}
           \cup NeedDeveloperMode
  /\ (c \in NeedDeveloperMode => developerMode)
  /\ Obeyed(c)
  /\ UNCHANGED << developerMode, rebootRequested, installing, cache, retained,
                  raced >>

\* Door, F1, snapshot and the two simulations: one call of the callback.
RunAction(c, v, retain) ==
  /\ Arrives(c, v, retain)
  /\ c \in {"door/open/set", "f1/trigger/set", "snapshot/take/set"}
           \cup NeedDeveloperMode
  /\ ~retain /\ (c \in NeedDeveloperMode => developerMode)
  /\ Obeyed(c)
  /\ UNCHANGED << developerMode, rebootRequested, installing, cache, retained,
                  raced >>

SetDeveloperMode(c, v, retain) ==
  /\ Arrives(c, v, retain)
  /\ c = "developer/mode/set" /\ ~retain
  /\ developerMode' = (v = "a")
  /\ Obeyed(c)
  /\ UNCHANGED << rebootRequested, installing, cache, retained, raced >>

RequestReboot(c, v, retain) ==
  /\ Arrives(c, v, retain)
  /\ c = "system/reboot/set" /\ ~retain /\ ~rebootRequested
  /\ rebootRequested' = TRUE
  /\ Publish(Says(RebootOffer, "offline"))
  /\ Obeyed(c)
  /\ UNCHANGED << developerMode, installing, cache, raced >>

\* start_firmware_update_install: the latch is undone if nothing was launched.
RequestInstall(c, v, retain) ==
  /\ Arrives(c, v, retain)
  /\ c = "firmware/update/install/set" /\ ~retain
  /\ FirmwareEnabled /\ ~installing
  /\ \E launched \in BOOLEAN :
       /\ installing' = launched
       /\ Publish(InstallOffer(updateAvailable, launched))
       /\ IF launched THEN Obeyed(c) ELSE UNCHANGED done
  /\ UNCHANGED << developerMode, rebootRequested, cache, raced >>

RequestCheck(c, v, retain) ==
  /\ Arrives(c, v, retain)
  /\ c = "firmware/update/check/set" /\ ~retain
  /\ FirmwareEnabled /\ ~installing
  /\ Publish(InstallOffer(updateAvailable, FALSE))
  /\ Obeyed(c)
  /\ UNCHANGED << developerMode, rebootRequested, installing, cache, raced >>

\* A setting: the callback clamps it and publishes what took effect.
ApplySetting(c, v, retain) ==
  /\ Arrives(c, v, retain)
  /\ SetsItem(c)
  /\ cache' = [cache EXCEPT ![ItemOf(c)] = v]
  /\ Publish(Says(ItemOf(c), v))
  /\ raced' = raced \ {ItemOf(c)}
  /\ Obeyed(c)
  /\ UNCHANGED << developerMode, rebootRequested, installing >>

\* CONFIG on the availability topic: announce the device once more.
AnswerConfig(c, v, retain) ==
  /\ Arrives(c, v, retain)
  /\ c = Base
  /\ configs' = IF Sends THEN Discovered(configs) ELSE configs
  /\ Publish(Says(Base, "online"))
  /\ Obeyed(c)
  /\ UNCHANGED << developerMode, rebootRequested, installing, cache, raced >>

Handle(c, v, retain) ==
  \/ Ignore(c, v, retain)
  \/ RunAction(c, v, retain)
  \/ SetDeveloperMode(c, v, retain)
  \/ RequestReboot(c, v, retain)
  \/ RequestInstall(c, v, retain)
  \/ RequestCheck(c, v, retain)
  \/ ApplySetting(c, v, retain)
  \/ AnswerConfig(c, v, retain)

-----------------------------------------------------------------------------
(* The daemon's other threads: mqtt_publish_* writes the cache, looks at    *)
(* connected, and then writes the packet it composed.                      *)

Change(item, v) ==
  /\ pub = NoPacket /\ changes < MaxChanges /\ pc # "gone"
  /\ v # cache[item]
  /\ changes' = changes + 1
  /\ cache' = [cache EXCEPT ![item] = v]
  /\ pub' = IF connected THEN [pc |-> "send", item |-> item, value |-> v] ELSE NoPacket
  /\ UNCHANGED << pc, step, held, running, connected, developerMode,
                  rebootRequested, installing, updateAvailable, brokerVars,
                  topic, asked, done, raced, faults, restarts >>

SendPacket ==
  /\ pub.pc = "send"
  /\ retained' = IF link = "up" THEN [retained EXCEPT ![pub.item] = pub.value]
                 ELSE retained
  /\ raced' = IF pub.value = cache[pub.item] THEN raced \ {pub.item}
              ELSE raced \cup {pub.item}
  /\ pub' = NoPacket
  /\ UNCHANGED << pc, step, held, running, connected, developerMode,
                  rebootRequested, installing, updateAvailable, cache, link,
                  session, subscribed, stored, configs, inbox, topic, asked,
                  done, changes, faults, restarts >>

\* mqtt_stop, up to the pthread_join that pc = "gone" lets through.  Without a
\* socket there is nothing to shut down: the thread that is connecting goes on.
Stop ==
  /\ running
  /\ Publish(Says(Base, "offline"))
  /\ connected' = FALSE /\ running' = FALSE
  /\ Cut(IF link = "up" THEN "broken" ELSE link)
  /\ UNCHANGED << pc, step, held, developerMode, rebootRequested, installing,
                  updateAvailable, cache, pub, subscribed, stored, configs,
                  inbox, ghostVars >>

\* The daemon dies, or has stopped, and is started again.
Restart ==
  /\ faults < MaxFaults
  /\ faults' = faults + 1 /\ restarts' = restarts + 1
  /\ pc' = "connect" /\ step' = 1 /\ held' = None
  /\ running' = TRUE /\ connected' = FALSE
  /\ developerMode' = FALSE /\ rebootRequested' = FALSE
  /\ installing' = FALSE /\ updateAvailable' = FALSE
  /\ cache' = [i \in Items |-> "a"] /\ pub' = NoPacket
  /\ Cut("none") /\ inbox' = << >> /\ raced' = {}
  /\ UNCHANGED << subscribed, stored, configs, retained, topic, asked, done,
                  changes >>

-----------------------------------------------------------------------------
(* The network, the broker and its users (external)                        *)

Break ==
  /\ link = "up" /\ faults < MaxFaults
  /\ faults' = faults + 1
  /\ Cut("broken")
  /\ UNCHANGED << clientVars, subscribed, stored, configs, retained, inbox,
                  topic, asked, done, raced, changes, restarts >>

\* The broker gives the old connection up and publishes its will.
PublishWill ==
  /\ session = "stale"
  /\ session' = "none" /\ subscribed' = FALSE
  /\ retained' = [retained EXCEPT ![Base] = "offline"]
  /\ UNCHANGED << clientVars, link, stored, configs, inbox, ghostVars >>

Payloads(c) == IF c = "developer/mode/set" \/ SetsItem(c)
               THEN Values ELSE {"a"}

Forwards(c) == session = "live" /\ link = "up" /\ subscribed /\ c \in Subscriptions

\* A message on a command topic that the broker can forward; it is retained by
\* design (settings) or by mistake.
Press(c, v, retain) ==
  /\ asked < MaxPress /\ Forwards(c) /\ v \in Payloads(c)
  /\ c = topic \/ (c = "developer/mode/set" /\ topic \in NeedDeveloperMode)
  /\ asked' = IF c = topic THEN asked + 1 ELSE asked
  /\ c # topic => ~retain /\ inbox = << >> /\ ~developerMode
  /\ c = Base => ~retain
  /\ stored' = IF retain THEN v ELSE stored
  /\ inbox' = Append(inbox, << c, v, FALSE >>)
  /\ UNCHANGED << clientVars, link, session, subscribed, configs, retained,
                  topic, done, raced, changes, faults, restarts >>

-----------------------------------------------------------------------------
ThreadStep ==
  \/ Leave \/ Dial \/ TcpConnect \/ (link = "broken" /\ SessionFails)
  \/ Announce \/ RepublishRead \/ RepublishSend \/ Close
  \/ \E c \in Commands, v \in Values, retain \in BOOLEAN : Handle(c, v, retain)

MqttNext ==
  \/ Leave \/ Dial \/ TcpConnect \/ SessionFails \/ SessionAccepted \/ Subscribed
  \/ Announce \/ RepublishRead \/ RepublishSend \/ DailyCheck \/ Close
  \/ \E c \in Commands, v \in Values, retain \in BOOLEAN :
       Handle(c, v, retain) \/ Press(c, v, retain)
  \/ \E i \in Items, v \in Values : Change(i, v)
  \/ SendPacket \/ Stop \/ Restart \/ Break \/ PublishWill

\* Threads run; a reachable broker answers CONNECT and SUBSCRIBE (or the
\* connection breaks); it notices a dead connection by its keepalive.
MqttFairness ==
  /\ WF_mqttVars(ThreadStep)
  /\ WF_mqttVars(SendPacket)
  /\ WF_mqttVars(SessionAccepted) /\ WF_mqttVars(Subscribed)
  /\ WF_mqttVars(PublishWill)

MqttSpec == MqttInit /\ [][MqttNext]_mqttVars /\ MqttFairness

-----------------------------------------------------------------------------
(* Properties                                                              *)

Latched == {"system/reboot/set", "firmware/update/install/set"}

\* A command that acts at once is executed at most once per message sent,
\* whatever the broker replays to a new subscription, and a device reboot or an
\* updater is started at most once in a life of the daemon
\* (handle_mqtt_message, start_firmware_update_install).
ActionsOnce ==
  topic \in Momentary
    => done <= asked /\ (topic \in Latched => done <= 1 + restarts)

\* While the broker shows the device online over the connection it has, every
\* command topic reaches it and the discovery is this release's, without the
\* entities of earlier ones (order of mqtt_thread_func, the will).
OnlineIsServed ==
  (retained[Base] = "online" /\ session = "live")
    => subscribed /\ configs = Current

\* Once a connection is being served, the broker holds the cached state, also
\* of changes made while there was none; except what a thread changed at the
\* very moment an older value was on its way (mqtt_thread_func, mqtt_publish_*).
ReconnectTellsState ==
  (pc = "serve" /\ connected /\ link = "up" /\ pub = NoPacket)
    => \A i \in Republished \ raced : retained[i] = cache[i]

\* mqtt_stop returns, and the device does not stay online at the broker.  A
\* thread that was looking the broker up or connecting when the stop was asked
\* is not interrupted: it announces the device online once more, finds running
\* cleared only then, and the will of the connection it drops takes that back.
StoppedIsOffline ==
  ~running ~> (running \/ (pc = "gone" /\ retained[Base] # "online"))

\* A running client serves again after every failure of the connection.
ClientReturns == (pc # "serve") ~> (pc = "serve" \/ ~running)

\* Every command topic that discovery offers is one the client subscribed to.
OfferedIsHeard ==
  (pc = "serve" /\ link = "up" /\ connected)
    => \A l \in configs : \A e \in ConfigLists[l] :
         e.command # None => e.command \in Subscriptions
=============================================================================
