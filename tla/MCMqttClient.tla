------------------------------ MODULE MCMqttClient -----------------------------
EXTENDS MqttClient
MCItems == {"media/state", "call_forward/enabled"}
MCCommands == {"call_forward/enabled/set", "door/open/set", "system/reboot/set",
               "developer/simulate_ding/set", "developer/mode/set",
               "firmware/update/install/set", "firmware/update/check/set", Base}
=============================================================================
