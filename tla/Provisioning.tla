---------------------------- MODULE Provisioning ----------------------------
(***************************************************************************)
(* How a gateway becomes part of a site and stays so over restarts: the    *)
(* phone's message over BLE (main_app.c), the pair key's file, the plan    *)
(* task with the activation and its downloads (plan_task.c, mqtt_task.c),  *)
(* the three files of credentials (user_flash.c) and what app_main makes   *)
(* of them, the update at activation (ota_task.c).                         *)
(*                                                                         *)
(* The plan task steps from one HTTP call or file operation to the next; a *)
(* file is empty from fopen to fclose.  The server's answer is an issue: a *)
(* client id with links to a certificate and a key that belong to it.      *)
(* What a link delivers is that or something else (an error page, a text   *)
(* cut off): both are saved.  An update by command, Wi-Fi and the modem    *)
(* are NetworkSwitch's; of them there is here only whether there is a      *)
(* link, and the forced restart, which comes when MQTT stays down.         *)
(***************************************************************************)
CONSTANTS
    Issues,               \* what activations can be answered with
    Tokens,               \* pair keys
    Missing, Empty, Bad   \* no file; nothing written; not what was asked for

Contents == Issues \cup {Empty, Bad}

Files == Contents \cup {Missing}

ASSUME ProvisioningAssumption ==
    /\ Missing \notin Contents \cup Tokens
    /\ {Empty, Bad} \cap (Issues \cup Tokens) = {}
    /\ Empty # Bad

VARIABLES
    plan,                        \* app_main, then PlantControl_Task
    answer,                      \* client_id and the links that came with it
    cert, key,                   \* certificate_pem, private_pem
    get_active_start, is_start_ota,
    client,                      \* what the MQTT client was started with
    mqtt_status,
    ble, letter, bleTask,        \* BLE on, a message queued, its handling
    token, has_pair_key, failBit,  \* mPairToken; WIFI_FAIL_BIT
    idFile, certFile, keyFile, pairFile, ssid,  \* flash and NVS
    connected                    \* Wi-Fi or SIM has an address

planVars == <<plan, answer, cert, key, get_active_start, is_start_ota>>
mqtt == <<client, mqtt_status>>
bleVars == <<ble, letter, bleTask, token, has_pair_key, failBit>>
credentials == <<idFile, certFile, keyFile>>
flash == <<idFile, certFile, keyFile, pairFile, ssid>>
vars == <<planVars, mqtt, bleVars, flash, connected>>

\* No client yet.
None == [id |-> Empty, cert |-> Empty, key |-> Empty]

PlanPoints ==
    {"boot", "verify", "post", "openId", "writeId", "getCert", "openCert",
     "writeCert", "getKey", "openKey", "writeKey", "activate", "download", "wait"}

TypeOK ==
    /\ plan \in PlanPoints
    /\ answer \in Contents /\ cert \in Contents /\ key \in Contents
    /\ get_active_start \in BOOLEAN
    /\ is_start_ota \in {"OTA_PENDING", "OTA_START"}
    /\ client \in [id : Contents, cert : Contents, key : Contents]
    /\ mqtt_status \in BOOLEAN
    /\ ble \in BOOLEAN /\ letter \in BOOLEAN
    /\ bleTask \in {"idle", "open", "write", "read", "wifi"}
    /\ token \in Tokens \cup {Empty}
    /\ has_pair_key \in BOOLEAN /\ failBit \in BOOLEAN
    /\ idFile \in Files /\ certFile \in Files /\ keyFile \in Files
    /\ pairFile \in Tokens \cup {Empty, Missing}
    /\ ssid \in BOOLEAN /\ connected \in BOOLEAN

Init ==
    /\ plan = "boot" /\ answer = Empty /\ cert = Empty /\ key = Empty
    /\ get_active_start = FALSE /\ is_start_ota = "OTA_PENDING"
    /\ client = None /\ mqtt_status = FALSE
    /\ ble = TRUE /\ letter = FALSE /\ bleTask = "idle"
    /\ token = Empty /\ has_pair_key = FALSE /\ failBit = FALSE
    /\ idFile = Missing /\ certFile = Missing /\ keyFile = Missing
    /\ pairFile = Missing /\ ssid = FALSE
    /\ connected \in BOOLEAN

-----------------------------------------------------------------------------
(* Boot *)

\* What flash_client_*_read leaves of a file in RAM.
Read(file) == IF file = Missing THEN Empty ELSE file

\* Variant: activated if there is any of the files.
Restart_AnyFile ==
    /\ plan' = "boot"
    /\ answer' = Read(idFile) /\ cert' = Read(certFile) /\ key' = Read(keyFile)
    /\ get_active_start' = ({idFile, certFile, keyFile} # {Missing})
    /\ is_start_ota' = "OTA_PENDING"
    /\ client' = None /\ mqtt_status' = FALSE
    /\ ble' = TRUE /\ letter' = FALSE /\ bleTask' = "idle"
    /\ token' = Empty /\ has_pair_key' = FALSE /\ failBit' = FALSE
    /\ UNCHANGED <<flash, connected>>

\* The gateway goes down and app_main reads the files: activated if there
\* are all three.
Restart ==
    /\ plan' = "boot"
    /\ answer' = Read(idFile) /\ cert' = Read(certFile) /\ key' = Read(keyFile)
    /\ get_active_start' = (Missing \notin {idFile, certFile, keyFile})
    /\ is_start_ota' = "OTA_PENDING"
    /\ client' = None /\ mqtt_status' = FALSE
    /\ ble' = TRUE /\ letter' = FALSE /\ bleTask' = "idle"
    /\ token' = Empty /\ has_pair_key' = FALSE /\ failBit' = FALSE
    /\ UNCHANGED <<flash, connected>>

PowerCut == Restart

\* wifi_init_sta waits for an attempt to connect, or for the phone to say
\* that there is no Wi-Fi, except on an activated gateway without a name.
WifiTried == ssid \/ failBit \/ get_active_start

\* Variant: the pair key is taken from a file that need not be there.
Booted_NoCheck ==
    /\ plan = "boot" /\ WifiTried
    /\ plan' = "verify"
    /\ token' = pairFile
    /\ has_pair_key' = TRUE
    /\ UNCHANGED <<answer, cert, key, get_active_start, is_start_ota, mqtt,
                   ble, letter, bleTask, failBit, flash, connected>>

\* Then the pair key is read and plan_task started.
Booted ==
    /\ plan = "boot" /\ WifiTried
    /\ plan' = "verify"
    /\ token' = IF pairFile \in Tokens THEN pairFile ELSE token
    /\ has_pair_key' = (has_pair_key \/ pairFile # Missing)
    /\ UNCHANGED <<answer, cert, key, get_active_start, is_start_ota, mqtt,
                   ble, letter, bleTask, failBit, flash, connected>>

-----------------------------------------------------------------------------
(* ble_config_wifi_task, and the network task as far as it turns BLE off *)

PhoneWrites ==
    /\ ble /\ ~letter
    /\ letter' = TRUE
    /\ UNCHANGED <<planVars, mqtt, ble, bleTask, token, has_pair_key, failBit,
                   flash, connected>>

\* A message with a pair key or without.
BleReceive ==
    /\ bleTask = "idle" /\ letter
    /\ letter' = FALSE
    /\ token' \in Tokens \cup {token}
    /\ bleTask' = IF token' = Empty THEN "wifi" ELSE "open"
    /\ UNCHANGED <<planVars, mqtt, ble, has_pair_key, failBit, flash, connected>>

PairOpen ==
    /\ bleTask = "open"
    /\ pairFile' = Empty
    /\ bleTask' = "write"
    /\ UNCHANGED <<planVars, mqtt, ble, letter, token, has_pair_key, failBit,
                   credentials, ssid, connected>>

PairWrite ==
    /\ bleTask = "write"
    /\ pairFile' = token
    /\ bleTask' = "read"
    /\ UNCHANGED <<planVars, mqtt, ble, letter, token, has_pair_key, failBit,
                   credentials, ssid, connected>>

PairRead ==
    /\ bleTask = "read"
    /\ token' = pairFile /\ has_pair_key' = TRUE
    /\ bleTask' = "wifi"
    /\ UNCHANGED <<planVars, mqtt, ble, letter, failBit, flash, connected>>

\* Wi-Fi is configured with the name that was sent, if one was.
WifiConfigured ==
    /\ bleTask = "wifi"
    /\ ssid' \in BOOLEAN
    /\ failBit' = (failBit \/ ~ssid')
    /\ bleTask' = "idle"
    /\ UNCHANGED <<planVars, mqtt, ble, letter, token, has_pair_key,
                   credentials, pairFile, connected>>

\* ble_denit, a minute after the pair key is there or at once.
BleOff ==
    /\ ble /\ has_pair_key
    /\ ble' = FALSE
    /\ UNCHANGED <<planVars, mqtt, letter, bleTask, token, has_pair_key,
                   failBit, flash, connected>>

ForcedRestart ==
    /\ ~ble /\ ~mqtt_status /\ is_start_ota = "OTA_PENDING"
    /\ Restart

BleTask == BleReceive \/ PairOpen \/ PairWrite \/ PairRead \/ WifiConfigured

-----------------------------------------------------------------------------
(* The plan task *)

\* What follows an HTTP call or a file operation at one point is the other
\* point and nothing else.
Goes(from, to) ==
    /\ plan = from /\ plan' = to
    /\ UNCHANGED <<get_active_start, mqtt, bleVars, pairFile, ssid, connected>>

\* Variant: the certificates are fetched after every boot.
Verify_Always ==
    /\ connected
    /\ Goes("verify", "post")
    /\ UNCHANGED <<answer, cert, key, is_start_ota, credentials>>

\* VERIFY_MQTT_CERT
Verify ==
    /\ connected
    /\ Goes("verify", IF get_active_start THEN "activate" ELSE "post")
    /\ UNCHANGED <<answer, cert, key, is_start_ota, credentials>>

\* The server knows the pair key; new firmware starts an update later on.
Accepted ==
    /\ Goes("post", "openId")
    /\ token # Empty
    /\ answer' \in Issues
    /\ is_start_ota' \in {is_start_ota, "OTA_START"}
    /\ UNCHANGED <<cert, key, credentials>>

\* Variant: without the certificate the key is fetched all the same.
Failed_GoesOn ==
    /\ \E from \in {"post", "getCert", "getKey"} :
          Goes(from, IF from = "getCert" THEN "getKey" ELSE "verify")
    /\ UNCHANGED <<answer, cert, key, is_start_ota, credentials>>

\* A request or a download fails: all over again.
Failed ==
    /\ \E from \in {"post", "getCert", "getKey"} : Goes(from, "verify")
    /\ UNCHANGED <<answer, cert, key, is_start_ota, credentials>>

IdOpen ==
    /\ Goes("openId", "writeId")
    /\ idFile' = Empty
    /\ UNCHANGED <<answer, cert, key, is_start_ota, certFile, keyFile>>

IdWrite ==
    /\ Goes("writeId", "getCert")
    /\ idFile' = answer
    /\ UNCHANGED <<answer, cert, key, is_start_ota, certFile, keyFile>>

\* perform returns ESP_OK for an error page and for a text cut off, too.
GetCert ==
    /\ Goes("getCert", "openCert")
    /\ cert' \in {answer, Bad}
    /\ UNCHANGED <<answer, key, is_start_ota, credentials>>

CertOpen ==
    /\ Goes("openCert", "writeCert")
    /\ certFile' = Empty
    /\ UNCHANGED <<answer, cert, key, is_start_ota, idFile, keyFile>>

CertWrite ==
    /\ Goes("writeCert", "getKey")
    /\ certFile' = cert
    /\ UNCHANGED <<answer, cert, key, is_start_ota, idFile, keyFile>>

GetKey ==
    /\ Goes("getKey", "openKey")
    /\ key' \in {answer, Bad}
    /\ UNCHANGED <<answer, cert, is_start_ota, credentials>>

KeyOpen ==
    /\ Goes("openKey", "writeKey")
    /\ keyFile' = Empty
    /\ UNCHANGED <<answer, cert, key, is_start_ota, idFile, certFile>>

KeyWrite ==
    /\ Goes("writeKey", "activate")
    /\ keyFile' = key
    /\ UNCHANGED <<answer, cert, key, is_start_ota, idFile, certFile>>

\* ACTIVATE_MQTT without an update: mqtt_app_start, which reads the id.
ClientStart ==
    /\ plan = "activate" /\ connected /\ is_start_ota = "OTA_PENDING"
    /\ client' = [id |-> IF idFile = Missing THEN answer ELSE idFile,
                  cert |-> cert, key |-> key]
    /\ plan' = "wait"
    /\ UNCHANGED <<answer, cert, key, get_active_start, is_start_ota,
                   mqtt_status, bleVars, flash, connected>>

\* ACTIVATE_MQTT with the update that came with the activation.
UpdateBegins ==
    /\ connected /\ is_start_ota = "OTA_START"
    /\ Goes("activate", IF get_active_start THEN "wait" ELSE "download")
    /\ UNCHANGED <<answer, cert, key, is_start_ota, credentials>>

\* Variant: the update stays wanted.
UpdateFails_StaysWanted ==
    /\ Goes("download", "wait")
    /\ UNCHANGED <<answer, cert, key, is_start_ota, credentials>>

\* The update is not wanted any more, and no client was started.
UpdateFails ==
    /\ Goes("download", "wait")
    /\ is_start_ota' = "OTA_PENDING"
    /\ UNCHANGED <<answer, cert, key, credentials>>

UpdateDone == plan = "download" /\ Restart

\* Steps in the plan task's own hands.
PlanTask ==
    \/ Verify \/ IdOpen \/ IdWrite \/ CertOpen \/ CertWrite \/ KeyOpen
    \/ KeyWrite \/ ClientStart \/ UpdateBegins

-----------------------------------------------------------------------------
(* The client, the button and the links *)

\* The broker lets in who has a certificate and a key that belong to the id.
Genuine(c) == c.id \in Issues /\ c.cert = c.id /\ c.key = c.id

ClientConnected ==
    /\ connected /\ Genuine(client) /\ ~mqtt_status
    /\ mqtt_status' = TRUE /\ get_active_start' = TRUE
    /\ UNCHANGED <<plan, answer, cert, key, is_start_ota, client, bleVars,
                   flash, connected>>

ClientDisconnected ==
    /\ mqtt_status
    /\ mqtt_status' = FALSE
    /\ UNCHANGED <<planVars, client, bleVars, flash, connected>>

\* flash_erase_all_partions, first half: the Wi-Fi's name.
EraseNvs ==
    /\ ssid' = FALSE
    /\ UNCHANGED <<planVars, mqtt, bleVars, credentials, pairFile, connected>>

\* Second half: the files; then esp_restart.
EraseFiles ==
    /\ plan' = "boot" /\ answer' = Empty /\ cert' = Empty /\ key' = Empty
    /\ get_active_start' = FALSE /\ is_start_ota' = "OTA_PENDING"
    /\ client' = None /\ mqtt_status' = FALSE
    /\ ble' = TRUE /\ letter' = FALSE /\ bleTask' = "idle"
    /\ token' = Empty /\ has_pair_key' = FALSE /\ failBit' = FALSE
    /\ idFile' = Missing /\ certFile' = Missing /\ keyFile' = Missing
    /\ pairFile' = Missing /\ ssid' = FALSE
    /\ UNCHANGED connected

Link ==
    /\ connected' = ~connected
    /\ UNCHANGED <<planVars, mqtt, bleVars, flash>>

Next ==
    \/ PowerCut \/ Booted
    \/ PhoneWrites \/ BleTask \/ BleOff \/ ForcedRestart
    \/ PlanTask \/ Accepted \/ Failed \/ GetCert \/ GetKey
    \/ UpdateFails \/ UpdateDone
    \/ ClientConnected \/ ClientDisconnected
    \/ EraseNvs \/ EraseFiles \/ Link

\* The tasks are scheduled, HTTP calls end (50 seconds) and succeed at times.
\* The forced restart presupposes that the network task is not kept by the
\* modem (NetworkSwitch).
Fairness ==
    /\ WF_vars(Booted) /\ WF_vars(BleTask) /\ WF_vars(BleOff)
    /\ WF_vars(PlanTask)
    /\ SF_vars(Accepted) /\ SF_vars(GetCert) /\ SF_vars(GetKey)
    /\ WF_vars(UpdateFails) /\ WF_vars(ForcedRestart)

Spec == Init /\ [][Next]_vars /\ Fairness

-----------------------------------------------------------------------------
(* Properties *)

\* What app_main takes for an activation (main_app.c:804-810) is one: the id
\* and the certificate are of the same answer, and so is the key, unless
\* what was downloaded was bad or the gateway went down while saving it
\* (the order of the saves in mqtt_task.c:773-853).
FilesOfOneIssue ==
    Missing \notin {idFile, certFile, keyFile} =>
        /\ idFile \in Issues
        /\ certFile \in {idFile, Bad}
        /\ keyFile \in {idFile, Bad, Empty}

\* The client is never started with the id of one activation and the
\* certificate or the key of another, nor without a certificate, although
\* the id comes from the file and the rest from RAM (mqtt_task.c:260-278).
ClientOfOneIssue ==
    client # None =>
        /\ client.id \in Issues
        /\ client.cert \in {client.id, Bad}
        /\ client.key \in {client.id, Bad, Empty}

\* A full set of credentials is never touched again but by the button: the
\* plan task keeps off the files once they are there (plan_task.c:74-81).
FullSet == idFile \in Issues /\ certFile = idFile /\ keyFile = idFile
CredentialsKept ==
    [][FullSet => UNCHANGED credentials \/ EraseFiles]_vars

\* "MQTT certificate correct" (plan_task.c:86).
CertificateCorrect == plan \in {"activate", "wait"} => cert \in Issues

\* Nothing but the gateway itself takes it down, and it stays up for ten
\* minutes before a forced restart: long enough to ask the server, and for
\* the downloads once it has answered.
Undisturbed ==
    /\ Restart => UpdateDone \/ (ForcedRestart /\ plan \in {"post", "wait"})
    /\ ~EraseNvs /\ ~EraseFiles

\* A gateway that has its pair key and a link starts its MQTT client, after
\* any number of failed downloads, and also when the update that came with
\* the activation fails: then only the forced restart leads to a client
\* (plan_task.c:96-105, main_app.c:281).
ClientComes ==
    /\ <>[](pairFile \in Tokens /\ connected)
    /\ []<>(plan # "boot")
    /\ <>[][Undisturbed]_vars
    => []<>(client # None)

=============================================================================
