--------------------------- MODULE DeviceStorage ---------------------------
(***************************************************************************)
(* What outlives a reboot of the ESP-IDF firmware: the NVS keys, the files *)
(* under /apps and the two application slots, changed by shell commands    *)
(* (src/firmware/esp-idf/main/idf_command_services.h) and by the update    *)
(* API (idf_ota.cpp), and read at boot.  A command is the list of library  *)
(* calls it makes; a step is one call, and power may fail between any two. *)
(*                                                                         *)
(* NVS, LittleFS and the bootloader are external.  A value that was set is *)
(* seen at once and is certain to survive only once committed; a file's    *)
(* content reaches the medium when the file is closed; rename and remove   *)
(* are atomic; the bootloader starts the selected slot, or the other one   *)
(* when that holds no whole image.                                         *)
(***************************************************************************)
EXTENDS NvsLayout, Sequences

CONSTANTS
    Creds,       \* Wi-Fi credentials, an SSID and the password that belongs to it,
                 \* as the command line is split into them
    Texts,       \* values the operator gives to config-set
    Contents,    \* contents the operator uploads
    Files,       \* names the operator gives to fs-write and fs-remove
    Temp,        \* the name `<path>.tmp`, by file
    Provisioned, \* contents of NVS the bootstrap image can leave
    Images,      \* application images handed to the update API
    Signer,      \* the key an image's signature verifies under, by image
    Factory,     \* the image flashed from the PC
    Broken,      \* the images that are no application
    Oversized,   \* the images larger than a slot
    Empty,       \* the content of a file just created
    Unknown,     \* nothing was promised of an item
    MaxCommands, \* bound on the commands typed
    MaxFaults    \* bound on library calls that fail

Item == [s \in Slots |-> IF s = 0 THEN "profile-0" ELSE "profile-1"]
SetKeys == {"ssh_username", "ssh_password", "ssh_host_key", "ota_public_key"}
Keys == WifiKeys \cup SetKeys \cup {"ssh_pw_hash", "app_public_key"}
Paths == Files \cup {Temp[f] : f \in Files}
Items == {Item[s] : s \in Slots} \cup SetKeys \cup Paths \cup {"ota"}

KeyValue(k) ==
    {Nil} \cup IF k \in WifiKeys THEN Creds
               ELSE {"str", "blob"} \X Texts
Stores == {m \in [Keys -> {Nil} \cup Creds \cup ({"str", "blob"} \X Texts)] :
               \A k \in Keys : m[k] \in KeyValue(k)}

ASSUME StorageAssumption ==
    /\ Provisioned \subseteq Stores
    /\ Temp \in [Files -> STRING] /\ Files \subseteq STRING
    /\ \A f \in Files : Temp[f] # f
    /\ Paths \cap ({Item[s] : s \in Slots} \cup SetKeys \cup {"ota"}) = {}
    /\ Signer \in [Images -> Texts \cup {Nil}]
    /\ Factory \notin Images /\ Broken \subseteq Images /\ Oversized \subseteq Images
    /\ {Nil, Empty, Unknown} \cap (Creds \cup Contents \cup Images \cup {Factory}) = {}
    /\ Nil # Empty /\ Nil # Unknown /\ Empty # Unknown
    /\ MaxCommands \in Nat /\ MaxFaults \in Nat

VARIABLES
    nvs,       \* what nvs_get_str and nvs_get_blob find
    flash,     \* what nvs_commit made certain
    disk,      \* the files on LittleFS
    slots,     \* app0 and app1: the image each holds
    boot,      \* otadata: the slot to start
    running,   \* the slot that was started
    up,        \* the device runs
    mounted,   \* LittleFS is mounted
    profiles,  \* wifi_station.cpp: what loadProfiles() read at boot
    auth,      \* ssh_server.cpp: what load_auth_config() read at boot
    command,   \* the command being executed
    calls,     \* the library calls it still makes
    ok,        \* its local `ok`
    told,      \* history: what the device last acknowledged of each item
    approved,  \* history: the images that were verified under the stored key
    ignored,   \* history: a result nobody looks at reported a failure
    commands, faults

store == <<nvs, flash>>
ram == <<mounted, profiles, auth>>
session == <<command, calls, ok>>
ota == <<slots, boot, running, approved>>
counts == <<commands, faults>>
vars == <<store, disk, up, ram, session, told, ota, ignored, counts>>

Idle == [name |-> "none", item |-> "none", value |-> Nil, was |-> Unknown]

-----------------------------------------------------------------------------
(* Boot: app_main()                                                        *)

Whole(image) == image \notin Broken \cup {Nil, Empty}
\* The bootloader's choice.
Chosen == IF Whole(slots[boot]) THEN boot ELSE Other(boot)

Init ==
    /\ nvs \in Provisioned /\ flash = nvs
    /\ disk = [p \in Paths |-> Nil]
    /\ slots = [s \in Slots |-> IF s = 0 THEN Factory ELSE Empty]
    /\ boot = 0 /\ running = 0 /\ approved = {Factory} /\ ignored = FALSE
    /\ up = FALSE /\ mounted = FALSE
    /\ profiles = [s \in Slots |-> Nil] /\ auth = Nil
    /\ command = Idle /\ calls = << >> /\ ok = TRUE
    /\ told = [i \in Items |-> Unknown]
    /\ commands = 0 /\ faults = 0

Boot ==
    /\ ~up
    /\ up' = TRUE
    /\ mounted' \in BOOLEAN
    /\ profiles' = [s \in Slots |-> LoadProfile(nvs, s)]
    /\ auth' = LoadAuth(nvs)
    /\ running' = Chosen
    /\ UNCHANGED <<store, disk, slots, boot, approved, session, told, ignored, counts>>

\* A `reboot` command, a power loss or a panic: what was set and not committed
\* may or may not be there afterwards, key by key.
Reset ==
    /\ up /\ up' = FALSE
    /\ \E lost \in SUBSET {k \in Keys : nvs[k] # flash[k]} :
           nvs' = [k \in Keys |-> IF k \in lost THEN flash[k] ELSE nvs[k]]
    /\ flash' = nvs'
    /\ command' = Idle /\ calls' = << >> /\ ok' = TRUE
    /\ UNCHANGED <<disk, ram, ota, told, ignored, counts>>

-----------------------------------------------------------------------------
(* The commands, as the library calls they make                            *)

SetKey(k, v) == [op |-> "set", on |-> k, value |-> v]
Erase(k) == [op |-> "erase", on |-> k, value |-> Nil]
Commit == [op |-> "commit", on |-> "none", value |-> Nil]
Open(p) == [op |-> "open", on |-> p, value |-> Nil]
Write(p, v) == [op |-> "write", on |-> p, value |-> v]
Close(p, v) == [op |-> "close", on |-> p, value |-> v]
Rename(p, q) == [op |-> "rename", on |-> p, value |-> q]
Remove(p) == [op |-> "remove", on |-> p, value |-> Nil]
OtaBegin == [op |-> "ota-begin", on |-> "none", value |-> Nil]
OtaWrite(image) == [op |-> "ota-write", on |-> "none", value |-> image]
OtaEnd == [op |-> "ota-end", on |-> "none", value |-> Nil]
OtaSelect == [op |-> "ota-select", on |-> "none", value |-> Nil]

\* Variant: nothing is committed.
WifiConfigCalls_NoCommit(slot, c) ==
    <<SetKey(SsidKey[slot], c), SetKey(PasswordKey[slot], c)>>
    \o IF slot = 0 THEN <<SetKey("wifi_ssid", c), SetKey("wifi_password", c)>> ELSE << >>

\* Profile 0 is also stored under the keys without a number.
WifiConfigCalls(slot, c) ==
    <<SetKey(SsidKey[slot], c), SetKey(PasswordKey[slot], c)>>
    \o IF slot = 0 THEN <<SetKey("wifi_ssid", c), SetKey("wifi_password", c), Commit>>
                   ELSE <<Commit>>

\* The OTA key is stored as a blob, everything else as a string.
Typed(k, v) == IF k = "ota_public_key" THEN Blob(v) ELSE Str(v)
ConfigSetCalls(k, v) == <<SetKey(k, Typed(k, v)), Commit>>

ConfigClearCalls == <<Erase("app_public_key"), Erase("ota_public_key"), Commit>>

\* Variant: the file is written in place.
FsWriteCalls_InPlace(f, v) == <<Open(f), Write(f, v), Close(f, v)>>

\* Variant: the new file takes its name and is never closed.
FsWriteCalls_Unclosed(f, v) ==
    <<Open(Temp[f]), Write(Temp[f], v), Rename(Temp[f], f)>>

FsWriteCalls(f, v) ==
    <<Open(Temp[f]), Write(Temp[f], v), Close(Temp[f], v), Rename(Temp[f], f)>>

\* Variant: the new image is written and checked, and never selected.
OtaCalls_Unselected(image) == <<OtaBegin, OtaWrite(image), OtaEnd>>

OtaCalls(image) == <<OtaBegin, OtaWrite(image), OtaEnd, OtaSelect>>

\* Variant: any signature will do.
Verified_Anyone(image) == IsBlob(nvs["ota_public_key"])

\* The key is read and the signature checked before anything is written.
Verified(image) ==
    IsBlob(nvs["ota_public_key"]) /\ Signer[image] = nvs["ota_public_key"][2]

\* The shell runs in the SSH server: it needs the credentials of both loaded at
\* boot, those of an access point the station can join.
Online == up /\ auth # Nil /\ \E s \in Slots, c \in Creds : profiles[s] = <<c, c>>

\* What a command is about to change is no longer promised; one that is refused
\* changes nothing.
Begin(name, item, value, touched, list) ==
    /\ Online /\ command = Idle /\ commands < MaxCommands
    /\ command' = [name |-> name, item |-> item, value |-> value, was |->
                     IF name \in {"fs-write", "fs-remove"} THEN told[item] ELSE Unknown]
    /\ calls' = list /\ ok' = (list # << >>)
    /\ told' = [i \in Items |-> IF i \in touched THEN Unknown ELSE told[i]]
    /\ commands' = commands + 1
    /\ UNCHANGED <<store, disk, up, ram, slots, boot, running, ignored, faults>>

\* A credential that is too long is refused before anything is stored.
WifiConfig(slot, c) ==
    /\ IF c \in LongSsids \cup LongPasswords
       THEN Begin("wifi-config", Item[slot], <<c, c>>, {}, << >>)
       ELSE Begin("wifi-config", Item[slot], <<c, c>>, {Item[slot]}, WifiConfigCalls(slot, c))
    /\ UNCHANGED approved

\* parseSlot(): nothing may follow the digit.
ParseSlot(arguments) == Len(arguments) = 1 /\ arguments[1] \in Slots
ClearAccepted(arguments) ==
    Len(arguments) = 3 /\ Tail(arguments) = <<" ", "--confirm">> /\ ParseSlot(arguments)

\* Whatever follows the command, one of the two tests refuses it: the erasures
\* behind them are never reached.
WifiProfileClear(slot) ==
    /\ ~ClearAccepted(<<slot, " ", "--confirm">>)
    /\ Begin("wifi-profile-clear", Item[slot], Nil, {}, << >>)
    /\ UNCHANGED approved
ConfigSet(k, v) ==
    /\ Begin("config-set", k, Typed(k, v), {k}, ConfigSetCalls(k, v))
    /\ UNCHANGED approved
ConfigClear ==
    /\ Begin("config-clear", "ota_public_key", Nil, {"ota_public_key"}, ConfigClearCalls)
    /\ UNCHANGED approved
FsWrite(f, v) ==
    /\ mounted
    /\ Begin("fs-write", f, v, {f, Temp[f]}, FsWriteCalls(f, v))
    /\ UNCHANGED approved
FsRemove(f) ==
    /\ mounted
    /\ Begin("fs-remove", f, Nil, {f}, <<Remove(f)>>)
    /\ UNCHANGED approved

\* ota_apply_signed_image(): an image that does not verify, or that no slot has
\* room for, changes nothing.
OtaApply(image) ==
    IF Verified(image) /\ image \notin Oversized
    THEN /\ Begin("ota", "ota", image, {"ota"}, OtaCalls(image))
         /\ approved' = approved \cup {i \in {image} : Signer[i] = nvs["ota_public_key"][2]}
    ELSE Begin("ota", "ota", image, {}, << >>) /\ UNCHANGED approved

\* The answer: after "error: ..." nothing is promised of the item, except that
\* a failed fs-write or fs-remove left the file as it was.
Answer ==
    /\ up /\ command # Idle /\ calls = << >>
    /\ told' = CASE ok -> [told EXCEPT ![command.item] = command.value]
                 [] ~ok /\ command.was # Unknown -> [told EXCEPT ![command.item] = command.was]
                 [] OTHER -> told
    /\ command' = Idle /\ ok' = TRUE
    /\ UNCHANGED <<store, disk, up, ram, ota, calls, ignored, counts>>

-----------------------------------------------------------------------------
(* The library calls                                                       *)

Calling(op) == up /\ calls # << >> /\ Head(calls).op = op
This == Head(calls)
Fault == faults < MaxFaults /\ faults' = faults + 1
Fine == UNCHANGED faults
Continue == calls' = Tail(calls) /\ UNCHANGED ok
GiveUp == calls' = << >> /\ ok' = FALSE
Elsewhere == UNCHANGED <<up, ram, command, told, running, approved, commands>>
NvsOnly == UNCHANGED <<disk, slots, boot, ignored>> /\ Elsewhere
FilesOnly == UNCHANGED <<store, slots, boot>> /\ Elsewhere
SlotsOnly == UNCHANGED <<store, disk, ignored>> /\ Elsewhere

NvsSet ==
    /\ Calling("set")
    /\ \/ nvs' = [nvs EXCEPT ![This.on] = This.value] /\ Continue /\ Fine
       \/ UNCHANGED nvs /\ GiveUp /\ Fault
    /\ UNCHANGED flash /\ NvsOnly

\* Variant: what an erasure returns is not looked at.
NvsErase_Unchecked ==
    /\ Calling("erase") /\ Continue
    /\ \/ nvs' = [nvs EXCEPT ![This.on] = Nil] /\ Fine
       \/ UNCHANGED nvs /\ Fault
    /\ UNCHANGED flash /\ NvsOnly

\* Both keys are erased, whatever the first erasure returns; the results are
\* looked at after the second.  That a key is not there is no failure.
NvsErase ==
    /\ Calling("erase") /\ calls' = Tail(calls)
    /\ \/ nvs' = [nvs EXCEPT ![This.on] = Nil] /\ UNCHANGED ok /\ Fine
       \/ UNCHANGED nvs /\ ok' = FALSE /\ Fault
    /\ UNCHANGED flash /\ NvsOnly

\* `ok && nvs_commit()`: after an erasure that failed nothing is committed.
NvsCommit ==
    /\ Calling("commit")
    /\ \/ ok /\ flash' = nvs /\ Continue /\ Fine
       \/ ok /\ UNCHANGED flash /\ GiveUp /\ Fault
       \/ ~ok /\ UNCHANGED flash /\ Continue /\ Fine
    /\ UNCHANGED nvs /\ NvsOnly

\* fopen(..., "wb"): a new file is created at once; one that exists keeps its
\* content until the new one is closed.
OpenFile ==
    /\ Calling("open")
    /\ \/ /\ disk' = [disk EXCEPT ![This.on] = IF @ = Nil THEN Empty ELSE @]
          /\ Continue /\ Fine
       \/ UNCHANGED disk /\ GiveUp /\ Fault
    /\ UNCHANGED ignored /\ FilesOnly

\* fwrite and fflush; after a failure the file is closed unwritten and removed.
WriteFile ==
    /\ Calling("write")
    /\ \/ Continue /\ Fine
       \/ /\ calls' = <<Close(This.on, Nil), Remove(This.on)>>
          /\ ok' = FALSE /\ Fault
    /\ UNCHANGED <<disk, ignored>> /\ FilesOnly

\* fclose's result is ignored.
CloseFile ==
    /\ Calling("close")
    /\ \/ /\ disk' = IF This.value = Nil THEN disk
                    ELSE [disk EXCEPT ![This.on] = This.value]
          /\ Fine /\ UNCHANGED ignored
       \/ UNCHANGED disk /\ Fault /\ ignored' = (ignored \/ This.value # Nil)
    /\ Continue
    /\ FilesOnly

\* rename's result is ignored too.
RenameFile ==
    /\ Calling("rename")
    /\ \/ /\ disk' = [disk EXCEPT ![This.value] = disk[This.on], ![This.on] = Nil]
          /\ Fine /\ UNCHANGED ignored
       \/ UNCHANGED disk /\ Fault /\ ignored' = TRUE
    /\ Continue
    /\ FilesOnly

\* remove fails for a file that is not there; only fs-remove looks.
RemoveFile ==
    /\ Calling("remove")
    /\ \/ /\ disk[This.on] # Nil
          /\ disk' = [disk EXCEPT ![This.on] = Nil] /\ Continue /\ Fine
       \/ disk[This.on] = Nil /\ UNCHANGED disk /\ GiveUp /\ Fine
       \/ UNCHANGED disk /\ GiveUp /\ Fault
    /\ UNCHANGED ignored /\ FilesOnly

\* The next slot after the running one; esp_ota_begin() erases it.
Target == Other(running)

EraseSlot ==
    /\ Calling("ota-begin")
    /\ \/ slots' = [slots EXCEPT ![Target] = Empty] /\ Continue /\ Fine
       \/ UNCHANGED slots /\ GiveUp /\ Fault
    /\ UNCHANGED boot /\ SlotsOnly

\* A write that fails, or that power interrupts, leaves a part of the image,
\* which is no whole one.
WriteSlot ==
    /\ Calling("ota-write")
    /\ \/ slots' = [slots EXCEPT ![Target] = This.value] /\ Continue /\ Fine
       \/ UNCHANGED slots /\ GiveUp /\ Fault
    /\ UNCHANGED boot /\ SlotsOnly

\* esp_ota_end() checks what was written.
CheckSlot ==
    /\ Calling("ota-end")
    /\ \/ Whole(slots[Target]) /\ Continue /\ Fine
       \/ ~Whole(slots[Target]) /\ GiveUp /\ Fine
       \/ GiveUp /\ Fault
    /\ UNCHANGED <<slots, boot>> /\ SlotsOnly

\* Variant: the result of the selection is not looked at.
SelectSlot_Unchecked ==
    /\ Calling("ota-select")
    /\ \/ Whole(slots[Target]) /\ boot' = Target /\ Fine
       \/ UNCHANGED boot /\ Fault
    /\ Continue
    /\ UNCHANGED slots /\ SlotsOnly

\* esp_ota_set_boot_partition() checks the image again, and writes otadata.
SelectSlot ==
    /\ Calling("ota-select")
    /\ \/ Whole(slots[Target]) /\ boot' = Target /\ Continue /\ Fine
       \/ ~Whole(slots[Target]) /\ UNCHANGED boot /\ GiveUp /\ Fine
       \/ UNCHANGED boot /\ GiveUp /\ Fault
    /\ UNCHANGED slots /\ SlotsOnly

Type ==
    \/ \E slot \in Slots : WifiProfileClear(slot) \/ \E c \in Creds : WifiConfig(slot, c)
    \/ \E k \in SetKeys, v \in Texts : ConfigSet(k, v)
    \/ ConfigClear
    \/ \E f \in Files : FsRemove(f) \/ \E v \in Contents : FsWrite(f, v)
    \/ \E image \in Images : OtaApply(image)
Call ==
    \/ NvsSet \/ NvsErase \/ NvsCommit
    \/ OpenFile \/ WriteFile \/ CloseFile \/ RenameFile \/ RemoveFile
    \/ EraseSlot \/ WriteSlot \/ CheckSlot \/ SelectSlot

Next == Boot \/ Reset \/ Type \/ Call \/ Answer

Spec == Init /\ [][Next]_vars

-----------------------------------------------------------------------------
(* Properties                                                              *)

TypeOK ==
    /\ nvs \in Stores /\ flash \in Stores
    /\ disk \in [Paths -> Contents \cup {Nil, Empty}]
    /\ up \in BOOLEAN /\ mounted \in BOOLEAN /\ ok \in BOOLEAN
    /\ profiles \in [Slots -> {Nil} \cup (Creds \X Creds)]
    /\ auth \in {Nil} \cup (Texts \X Texts \X Texts)
    /\ slots \in [Slots -> Images \cup {Factory, Empty}]
    /\ boot \in Slots /\ running \in Slots /\ approved \subseteq Images \cup {Factory}
    /\ ignored \in BOOLEAN
    /\ commands \in 0..MaxCommands /\ faults \in 0..MaxFaults

\* A Wi-Fi profile the device said it "accepted and persisted" is the one it
\* comes back with after any reset at any moment of any later command, failing
\* calls included, until a command for that very profile begins (wifiConfig(),
\* loadProfiles()).
ProfileKept ==
    [][Boot => \A s \in Slots :
           told[Item[s]] # Unknown => profiles'[s] = told[Item[s]]]_vars

\* A configuration value the device said it updated or cleared is certain to
\* survive, failing calls and resets of later commands included (configSet(),
\* configClear()).
ConfigKept ==
    \A k \in SetKeys : told[k] # Unknown => nvs[k] = told[k] /\ flash[k] = told[k]

\* An upload the device reported complete, or a removal, stays so until the
\* next command for that name, across resets, failing calls and interrupted
\* uploads of other files; and a command that reported an error left the file
\* as it was; unless a result nobody looks at, fclose's or rename's, told of a
\* failure (fsWrite(), fsRemove()).
UploadKept ==
    ~ignored => \A p \in Paths : told[p] # Unknown => disk[p] = told[p]

\* No reset, wherever it falls, and no failing call but those two, leaves an
\* uploaded file empty or cut short under its own name: the old content, the
\* new, or no file as before (fsWrite()).
UploadWhole ==
    ~ignored => \A f \in Files : (\A g \in Files : Temp[g] # f) => disk[f] # Empty

\* Whenever power fails, in the middle of an update or between two, and whatever
\* call failed, the bootloader finds a whole image to start, and it is the one
\* flashed from the PC or one that was verified under the stored key
\* (ota_apply_signed_image()).
BootsApproved == Whole(slots[Chosen]) /\ slots[Chosen] \in approved

\* The image the update API reported selected is what every later boot starts,
\* until the next update that verifies begins.
UpdateKept == told["ota"] # Unknown => slots[Chosen] = told["ota"]

\* An update is atomic: whatever call of it fails and wherever power does, it
\* leaves the choice of the bootloader as it was, or moves it to the image that
\* runs or to the whole new one; it is reported done only when every boot starts
\* the new one; and nothing but an update that verified changes the choice
\* (ota_apply_signed_image()).
Update == INSTANCE AtomicUpdate WITH
    runs <- slots[running],
    starts <- slots[Chosen],
    pending <- IF command.name = "ota" /\ ok THEN command.value ELSE Unknown,
    promised <- told["ota"],
    Bootable <- Images \ Broken,
    None <- Unknown
UpdateIsAtomic == Update!Spec
=============================================================================
