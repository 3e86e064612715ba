-------------------------- MODULE BootstrapSketch --------------------------
(***************************************************************************)
(* The Arduino image (src/firmware/arduino/esp32shell/esp32shell.ino): one *)
(* loop() task that drains the serial line, runs each command to its end   *)
(* and then ticks the Wi-Fi service; and what its commands leave in the    *)
(* NVS namespace that the ESP-IDF image reads after it.  A command is the  *)
(* list of calls it makes; a step is one call, and the device may reset    *)
(* between any two.  At the other end of the line are the provisioning     *)
(* scripts (src/tools), an operator, or a tester of the two apps.          *)
(*                                                                         *)
(* Preferences commits each call; its results are not looked at.           *)
(***************************************************************************)
EXTENDS WifiService, Sequences, FiniteSetsExt

CONSTANTS
    Creds,       \* Wi-Fi credentials: an SSID and the password that belongs to it
    NewCreds,    \* those the operator gives
    Secrets,     \* the values of the SSH keys
    Parse,       \* what the words after wifi-config are taken for, see Accepted
    Situations,  \* who is at the line, what the provisioning tool sends, and what
                 \* NVS holds before
    MaxCommands, \* bound on the commands of an operator or tester
    MaxRuns,     \* bound on the runs of a script
    MaxResets,   \* bound on resets
    MaxFaults    \* bound on calls that fail

Apps == {"diagnostics", "led-blink"}
Keys == WifiKeys \cup AuthKeys \cup {"ssh_password"}

Values == Creds \cup ({"str", "blob"} \X Secrets)

\* What both images leave in the store when no command is cut short: a numbered
\* SSID stands next to its password.
WholeStores ==
    {m \in [Keys -> Values \cup {Nil}] :
        /\ \A k \in WifiKeys : m[k] \in Creds \cup {Nil}
        /\ \A s \in Slots : m[SsidKey[s]] = Nil <=> m[PasswordKey[s]] = Nil}

ASSUME SketchAssumption ==
    /\ \A x \in Situations :
           x.user \in {"tool", "operator", "tester"} /\ x.nvs \in WholeStores
    /\ MaxCommands \in Nat /\ MaxRuns \in Nat /\ MaxResets \in Nat /\ MaxFaults \in Nat
    /\ Nil \notin Values /\ Nil \notin Creds \X Creds /\ NewCreds \subseteq Creds
    /\ LongSsids \subseteq Creds /\ LongPasswords \subseteq Creds /\ LongNames \subseteq Secrets
    /\ Clip \in [Creds -> Creds]
    /\ Parse \in [(Slots \cup {Nil}) \X Creds -> (Slots \X Creds) \cup {Nil}]

VARIABLES
    nvs,
    up,
    calls,    \* what the command being executed still does
    task,     \* diagnosticsTask_, ledBlinkTask_: is there a task
    record,   \* AppSupervisor: the state of each app
    led,      \* the RGB LED is lit
    script,   \* what the provisioning tool sends, or << >>
    user,     \* who is at the line: "tool", "operator", "tester"
    host,     \* the tool: "sending", "waiting", "done", "failed"
    at,       \* its place in the script
    unsaved,  \* history: the keys whose last change failed
    torn,     \* history: a command that stores was cut short or failed
    drift,    \* history: since boot a change failed, or a Wi-Fi key was set
    dark,     \* history: the blinking was stopped, and not started since
    commands, runs, resets, faults

apps == <<task, record, led, dark>>
tool == <<script, user, host, at, runs>>
history == <<unsaved, torn, drift>>
vars == <<nvs, up, calls, wifi, apps, tool, history, commands, resets, faults>>

Init ==
    /\ \E x \in Situations : user = x.user /\ script = x.script /\ nvs = x.nvs
    /\ up = FALSE /\ calls = << >>
    /\ WifiInit
    /\ task = [a \in Apps |-> FALSE] /\ record = [a \in Apps |-> "Stopped"]
    /\ led \in BOOLEAN
    /\ host = "sending" /\ at = 1
    /\ unsaved = {} /\ torn = FALSE /\ drift = FALSE /\ dark = FALSE
    /\ commands = 0 /\ runs = 1 /\ resets = 0 /\ faults = 0

-----------------------------------------------------------------------------
(* setup()                                                                 *)

\* Variant: every slot falls back on the keys without a number.
LoadWifi_AnySlot(m, slot) ==
    LET Get(key, general) == IF m[key] # Nil THEN m[key] ELSE m[general]
        ssid == Get(SsidKey[slot], "wifi_ssid")
        password == Get(PasswordKey[slot], "wifi_password")
    IN  IF ssid # Nil /\ password # Nil THEN Clipped(<<ssid, password>>) ELSE Nil

\* Variant: an SSID is enough for a profile.
LoadWifi_SsidOnly(m, slot) ==
    LET Get(key, general) == IF m[key] = Nil /\ slot = 0 THEN m[general] ELSE m[key]
        ssid == Get(SsidKey[slot], "wifi_ssid")
        password == Get(PasswordKey[slot], "wifi_password")
    IN  IF ssid # Nil THEN Clipped(<<ssid, password>>) ELSE Nil

\* loadWifi(): slot 0 falls back on the keys without a number, each on its own;
\* configure() cuts what it is given.
LoadWifi(m, slot) ==
    LET Get(key, general) == IF m[key] = Nil /\ slot = 0 THEN m[general] ELSE m[key]
        ssid == Get(SsidKey[slot], "wifi_ssid")
        password == Get(PasswordKey[slot], "wifi_password")
    IN  IF ssid # Nil /\ password # Nil THEN Clipped(<<ssid, password>>) ELSE Nil

Setup ==
    /\ ~up /\ up' = TRUE
    /\ profiles' = [s \in Slots |-> LoadWifi(nvs, s)]
    /\ drift' = FALSE
    /\ UNCHANGED <<nvs, calls, state, nextAttemptAt, nextProfile, activeSlot, now, driver,
                   apps, tool, unsaved, torn, commands, resets, faults>>

\* `reboot`, a panic or a power loss.  The LED keeps its colour if it keeps its
\* power.
Reset ==
    /\ up /\ up' = FALSE /\ resets < MaxResets /\ resets' = resets + 1
    /\ calls' = << >>
    /\ profiles' = [s \in Slots |-> Nil] /\ state' = "Offline"
    /\ nextAttemptAt' = 0 /\ nextProfile' = 0 /\ activeSlot' = 0 /\ now' = 0
    /\ Disconnect
    /\ task' = [a \in Apps |-> FALSE] /\ record' = [a \in Apps |-> "Stopped"]
    /\ led' \in {led, FALSE} /\ dark' = FALSE
    /\ torn' = (torn \/ \E i \in 1..Len(calls) : calls[i].op \in {"put", "remove", "clear-nvs"})
    /\ UNCHANGED <<nvs, tool, unsaved, drift, commands, faults>>

-----------------------------------------------------------------------------
(* The commands, as the calls they make                                    *)

Put(k, v) == [op |-> "put", on |-> k, value |-> v]
RemoveKey(k) == [op |-> "remove", on |-> k, value |-> Nil]
ClearNvs == [op |-> "clear-nvs", on |-> "none", value |-> Nil]
CallConfigure(slot, c) == [op |-> "configure", on |-> slot, value |-> c]
CallClear(slot) == [op |-> "clear-slot", on |-> slot, value |-> Nil]
CallClearAll == [op |-> "clear-wifi", on |-> "none", value |-> Nil]
LedOn == [op |-> "led", on |-> "none", value |-> TRUE]
LedOff == [op |-> "led", on |-> "none", value |-> FALSE]
Create(a) == [op |-> "create", on |-> a, value |-> Nil]
Delete(a) == [op |-> "delete", on |-> a, value |-> Nil]
Stopped(a) == [op |-> "stopped", on |-> a, value |-> Nil]
Reply == [op |-> "reply", on |-> "none", value |-> Nil]
Refuse == [op |-> "refuse", on |-> "none", value |-> Nil]

\* The profile is used at once; profile 0 is also stored without a number.
StoreProfile(slot, c) ==
    <<CallConfigure(slot, <<c, c>>), Put(SsidKey[slot], c), Put(PasswordKey[slot], c)>>
    \o (IF slot = 0 THEN <<Put("wifi_ssid", c), Put("wifi_password", c)>> ELSE << >>)
    \o <<Reply>>

\* A line says wifi-config, the slot or, with Nil, none, the SSID and the password,
\* all divided by blanks.  What is taken for the slot, up to the first blank for
\* the SSID, and after it for the password is another profile if the SSID holds a
\* blank or is a digit that no slot precedes; or it is no profile: Nil.
Accepted(slot, c) == Parse[<<slot, c>>] # Nil /\ Parse[<<slot, c>>][2] \notin LongSsids
WifiConfig(slot, c) ==
    IF Accepted(slot, c) THEN StoreProfile(Parse[<<slot, c>>][1], Parse[<<slot, c>>][2])
    ELSE <<Refuse>>

\* Variant: the keys without a number stay.
ProfileClear_Numbered(slot) ==
    <<CallClear(slot), RemoveKey(SsidKey[slot]), RemoveKey(PasswordKey[slot]), Reply>>

ProfileClear(slot) ==
    <<CallClear(slot), RemoveKey(SsidKey[slot]), RemoveKey(PasswordKey[slot])>>
    \o (IF slot = 0 THEN <<RemoveKey("wifi_ssid"), RemoveKey("wifi_password")>> ELSE << >>)
    \o <<Reply>>

\* Variant: the host key is stored as the text it came in.
ConfigSet_TextKey(k, v) ==
    CASE k = "ssh_password" -> <<Put("ssh_pw_hash", Blob(v)), RemoveKey("ssh_password"), Reply>>
      [] k \in WifiKeys -> <<Put(k, v), Reply>>
      [] OTHER -> <<Put(k, Str(v)), Reply>>

\* The password is stored as a digest, the host key as its bytes, the rest as
\* text.
ConfigSet(k, v) ==
    CASE k = "ssh_password" -> <<Put("ssh_pw_hash", Blob(v)), RemoveKey("ssh_password"), Reply>>
      [] k = "ssh_host_key" -> <<Put(k, Blob(v)), Reply>>
      [] k = "ssh_username" -> <<Put(k, Str(v)), Reply>>
      [] k \in WifiKeys -> <<Put(k, v), Reply>>

ConfigClear == <<ClearNvs, CallClearAll, Reply>>

\* canStart(): an app that failed to start once is refused from then on.
AppRun(a) ==
    IF task[a] \/ record[a] # "Stopped" THEN <<Reply>>
    ELSE (IF a = "led-blink" THEN <<LedOn>> ELSE << >>) \o <<Create(a), Reply>>

\* Variant: the LED is put out while the app still runs.
AppStop_DarkFirst(a) ==
    IF ~task[a] THEN <<Reply>>
    ELSE (IF a = "led-blink" THEN <<LedOff>> ELSE << >>) \o <<Delete(a), Stopped(a), Reply>>

\* Variant: the record is forgotten.
AppStop_Unmarked(a) ==
    IF ~task[a] THEN <<Reply>>
    ELSE <<Delete(a)>> \o (IF a = "led-blink" THEN <<LedOff>> ELSE << >>) \o <<Reply>>

AppStop(a) ==
    IF ~task[a] THEN <<Reply>>
    ELSE <<Delete(a)>> \o (IF a = "led-blink" THEN <<LedOff>> ELSE << >>)
                       \o <<Stopped(a), Reply>>

\* The lines the provisioning scripts send, what the device does on a line, and
\* what the script meant.  The scripts send no password or host key that
\* config-set refuses.
WifiLine(slot, c) == [name |-> "wifi-config", on |-> slot, value |-> c]
SetLine(k, v) == [name |-> "config-set", on |-> k, value |-> v]
ToolLines ==
    {WifiLine(slot, c) : slot \in Slots \cup {Nil}, c \in Creds}
    \cup {SetLine(k, v) : k \in {"ssh_username", "ssh_password", "ssh_host_key"},
                          v \in Secrets}

Executes(line) ==
    IF line.name = "wifi-config" THEN WifiConfig(line.on, line.value)
    ELSE ConfigSet(line.on, line.value)
Meant(line) ==
    IF line.name = "wifi-config"
    THEN StoreProfile(IF line.on = Nil THEN 0 ELSE line.on, line.value)
    ELSE ConfigSet(line.on, line.value)

ASSUME ScriptAssumption ==
    \A x \in Situations : x.user = "tool" => x.script \in Seq(ToolLines) \ {<< >>}

-----------------------------------------------------------------------------
(* The serial line: loop() takes a line when it is done with the one before *)

Idle == up /\ calls = << >>

\* A line that arrives while the device starts is lost.
ToolSends ==
    /\ user = "tool" /\ host = "sending" /\ calls = << >>
    /\ calls' = IF up THEN Executes(script[at]) ELSE << >>
    /\ host' = "waiting"
    /\ UNCHANGED <<nvs, up, wifi, apps, script, user, at, runs, history, commands,
                   resets, faults>>

Types(who, list) ==
    /\ user = who /\ Idle /\ commands < MaxCommands /\ commands' = commands + 1
    /\ calls' = list
    /\ drift' = (drift \/ (list[1].op = "put" /\ list[1].on \in WifiKeys))
    /\ UNCHANGED <<nvs, up, wifi, apps, tool, unsaved, torn, resets, faults>>

\* The operator's commands are those on the profiles; the SSH keys come from the
\* tool.
Type ==
    \/ \E slot \in Slots : \/ Types("operator", ProfileClear(slot))
                           \/ \E c \in NewCreds : Types("operator", WifiConfig(slot, c))
    \/ \E k \in {"wifi_ssid", "wifi_password"}, c \in NewCreds :
           Types("operator", ConfigSet(k, c))
    \/ Types("operator", ConfigClear)
    \/ \E a \in Apps : Types("tester", AppRun(a)) \/ Types("tester", AppStop(a))

\* No answer that the tool waits for within eight seconds, which is longer than
\* any command takes: the line or the answer was lost, or the line was refused.
\* The tool gives up; it may be run again.
Timeout ==
    /\ host = "waiting" /\ calls = << >> /\ host' = "failed"
    /\ UNCHANGED <<nvs, up, calls, wifi, apps, script, user, at, runs, history, commands,
                   resets, faults>>

RunAgain ==
    /\ host = "failed" /\ runs < MaxRuns
    /\ host' = "sending" /\ at' = 1 /\ runs' = runs + 1
    /\ UNCHANGED <<nvs, up, calls, wifi, apps, script, user, history, commands, resets,
                   faults>>

-----------------------------------------------------------------------------
(* The calls                                                               *)

This == Head(calls)
Calling(op) ==
    /\ up /\ calls # << >> /\ This.op = op /\ calls' = Tail(calls)
    /\ UNCHANGED <<up, script, user, runs, commands, resets>>
NoFault == UNCHANGED faults
NoTool == UNCHANGED <<host, at>>

\* A change of the store, which fails unnoticed.
Store(changed, keys) ==
    /\ \/ nvs' = changed /\ unsaved' = unsaved \ keys /\ UNCHANGED <<torn, drift>> /\ NoFault
       \/ /\ faults < MaxFaults /\ faults' = faults + 1
          /\ UNCHANGED nvs
          /\ unsaved' = unsaved \cup keys /\ torn' = TRUE /\ drift' = TRUE
    /\ UNCHANGED <<wifi, apps>> /\ NoTool

PutString == Calling("put") /\ Store([nvs EXCEPT ![This.on] = This.value], {This.on})
Remove == Calling("remove") /\ Store([nvs EXCEPT ![This.on] = Nil], {This.on})
ClearStore == Calling("clear-nvs") /\ Store([k \in Keys |-> Nil], Keys)

WifiCall ==
    /\ \/ Calling("configure") /\ Configure(This.on, This.value)
       \/ Calling("clear-slot") /\ ClearSlot(This.on)
       \/ Calling("clear-wifi") /\ ClearAll
    /\ UNCHANGED <<nvs, apps, history>> /\ NoFault /\ NoTool

WriteLed ==
    /\ Calling("led")
    /\ led' = This.value /\ dark' = (dark /\ ~This.value)
    /\ UNCHANGED <<nvs, wifi, task, record, history>> /\ NoFault /\ NoTool

\* markStarting(), the creation of the task, markRunning() or markFailed().
CreateTask ==
    /\ Calling("create")
    /\ \/ task' = [task EXCEPT ![This.on] = TRUE]
          /\ record' = [record EXCEPT ![This.on] = "Running"]
          /\ NoFault
       \/ /\ faults < MaxFaults /\ faults' = faults + 1
          /\ record' = [record EXCEPT ![This.on] = "Failed"] /\ UNCHANGED task
    /\ UNCHANGED <<nvs, wifi, led, dark, history>> /\ NoTool

DeleteTask ==
    /\ Calling("delete")
    /\ task' = [task EXCEPT ![This.on] = FALSE]
    /\ UNCHANGED <<nvs, wifi, record, led, dark, history>> /\ NoFault /\ NoTool

MarkStopped ==
    /\ Calling("stopped")
    /\ record' = [record EXCEPT ![This.on] = "Stopped"]
    /\ dark' = (dark \/ This.on = "led-blink")
    /\ UNCHANGED <<nvs, wifi, task, led, history>> /\ NoFault /\ NoTool

\* The answer, the same whether the calls succeeded or not.
Answer ==
    /\ Calling("reply")
    /\ IF user # "tool" THEN NoTool
       ELSE IF at = Len(script) THEN host' = "done" /\ UNCHANGED at
       ELSE host' = "sending" /\ at' = at + 1
    /\ UNCHANGED <<nvs, wifi, apps, history>> /\ NoFault

\* The usage line, or "SSID is too long".
RefuseLine == Calling("refuse") /\ UNCHANGED <<nvs, wifi, apps, history>> /\ NoFault /\ NoTool

Call ==
    \/ PutString \/ Remove \/ ClearStore \/ WifiCall
    \/ WriteLed \/ CreateTask \/ DeleteTask \/ MarkStopped
    \/ Answer \/ RefuseLine

\* The task of led-blink, which may run between any two steps of loop().
Blink ==
    /\ task["led-blink"] /\ led' = ~led
    /\ UNCHANGED <<nvs, up, calls, wifi, task, record, dark, tool, history, commands,
                   resets, faults>>

-----------------------------------------------------------------------------
Aside == UNCHANGED <<nvs, up, calls, apps, tool, history, commands, resets, faults>>

\* The last statement of loop().
LoopTick == Idle /\ Tick /\ Aside

\* The driver's events and the clock's go on during a command as well: there they
\* commute with its calls, of which one at most touches the service.
Air == Idle /\ (Associates \/ Leases \/ Drops) /\ Aside
Fail == Idle /\ Fails /\ Aside
Clock == Idle /\ Passes /\ Aside

Next ==
    \/ Setup \/ Reset \/ ToolSends \/ Type \/ Timeout \/ RunAgain \/ Call \/ Blink
    \/ LoopTick \/ Air \/ Fail \/ Clock

\* loop() passes again and again within a unit of time; time goes on, and an
\* attempt does not negotiate for ever.
Spec ==
    /\ Init /\ [][Next]_vars
    /\ WF_vars(Setup) /\ WF_vars(Call) /\ SF_vars(LoopTick) /\ WF_vars(Clock)
    /\ WF_vars(Fail)

-----------------------------------------------------------------------------
(* Properties                                                              *)

TypeOK ==
    /\ \A k \in WifiKeys : nvs[k] \in Creds \cup {Nil}
    /\ profiles \in [Slots -> {Nil} \cup (Creds \X Creds)]
    /\ state \in {"Offline", "Connecting", "Connected"}
    /\ nextAttemptAt \in 0..(TickMod - 1) /\ now \in 0..(TickMod - 1)
    /\ nextProfile \in Slots /\ activeSlot \in Slots
    /\ link \in {"idle", "joining", "associated", "online"}
    /\ joined \in Slots \cup {Nil} /\ (joined = Nil <=> link = "idle")
    /\ rejected \in BOOLEAN /\ led \in BOOLEAN
    /\ task \in [Apps -> BOOLEAN] /\ record \in [Apps -> {"Stopped", "Running", "Failed"}]
    /\ host \in {"sending", "waiting", "done", "failed"}
    /\ unsaved \subseteq Keys

\* What a script last meant to store under a key.
Sent(k) == {i \in 1..Len(script) : \E j \in 1..Len(Meant(script[i])) :
                Meant(script[i])[j].op = "put" /\ Meant(script[i])[j].on = k}
Last(k) == LET list == Meant(script[Max(Sent(k))])
           IN  list[CHOOSE j \in 1..Len(list) : list[j].op = "put" /\ list[j].on = k].value

ProfileSent(slot) == Sent(SsidKey[slot]) # {}
ProfileReady(slot) ==
    LoadProfile(nvs, slot) = <<Last(SsidKey[slot]), Last(PasswordKey[slot])>>
AuthSent == \A k \in AuthKeys : Sent(k) # {}
AuthReady ==
    LoadAuth(nvs) = <<Last("ssh_username")[2], Last("ssh_pw_hash")[2], Last("ssh_host_key")[2]>>

\* When the provisioning tool reports its end, the ESP-IDF image finds the
\* profiles and the SSH credentials that were sent, whatever resets and failed
\* runs came before: unless a change failed unnoticed, a line was not taken for
\* what it meant, or a password or name was sent that the image has no room for
\* (provision_ssh.ps1, wifiConfig(), configSet(); loadProfiles(),
\* load_auth_config()).
ReadyForRuntime ==
    /\ host = "done" /\ unsaved = {}
    /\ \A i \in 1..Len(script) : Executes(script[i]) = Meant(script[i])
    =>
    /\ \A s \in Slots :
           ProfileSent(s) /\ Last(PasswordKey[s]) \notin LongPasswords => ProfileReady(s)
    /\ AuthSent /\ Last("ssh_username")[2] \notin LongNames => AuthReady

\* "Provisioning completed" (provision_ssh.ps1) with every call a success means
\* what it says, for any SSID, password and name a user may give.
ProvisioningCompleted ==
    host = "done" /\ unsaved = {} =>
        (\A s \in Slots : ProfileSent(s) => ProfileReady(s)) /\ (AuthSent => AuthReady)

\* Between two commands the profiles in use are those the next boot would load,
\* unless a change failed unnoticed or a Wi-Fi key was set behind the service's
\* back: a profile that was set is not lost, and one that was cleared does not
\* come back (wifiConfig(), wifiProfileClear(), configClear(), loadWifi()).
RamIsStored ==
    Idle /\ ~drift => \A s \in Slots : profiles[s] = LoadWifi(nvs, s)

\* The two images read the same profiles out of the store, where the values fit
\* the buffers of both, unless a command was cut short or a change failed
\* (loadWifi(), loadProfiles()).
Roomy(slot) ==
    /\ nvs[SsidKey[slot]] \notin LongSsids /\ nvs[PasswordKey[slot]] \notin LongPasswords
    /\ slot = 0 => nvs["wifi_ssid"] \notin LongSsids /\ nvs["wifi_password"] \notin LongPasswords
ImagesAgree ==
    Idle /\ ~torn => \A s \in Slots : Roomy(s) => LoadWifi(nvs, s) = LoadProfile(nvs, s)

\* The station never holds on to a profile that was removed, unless the driver
\* refused the attempt after the one it negotiates (clear()).
LinkIsConfigured ==
    link # "idle" /\ ~rejected /\ up => joined = activeSlot /\ profiles[joined] # Nil

\* Once led-blink is stopped the LED stays dark until the app is started again
\* (appStop(), ledBlinkThunk()).
LedDark == dark => ~led

\* Between two commands app-list, which looks at the tasks, and app-status, which
\* looks at the records, say the same (appRun(), appStop()).
AppsAgree == Idle => \A a \in Apps : task[a] <=> record[a] = "Running"

\* While the station is down each profile is handed to the driver again and
\* again: none is starved by the other one's turn, by the wrap of the clock or
\* by a profile set or removed meanwhile (tick()).
EachProfileOffered ==
    \A s \in Slots :
        \/ []<>(profiles[s] = Nil \/ link \in {"associated", "online"})
        \/ []<><<LoopTick /\ Attempt(s)>>_vars
=============================================================================
